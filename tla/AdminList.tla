------------------------------- MODULE AdminList ------------------------------
(***************************************************************************)
(* What the four list pages of the admin UI have in common: the rows the   *)
(* server keeps, the snapshot a page shows, the view of it, the forms, and *)
(* the handlers in flight.  LocalKeysPage, KeyPoolPage, ProxiesPage and    *)
(* AccountsPage extend this module with what each of them does.            *)
(*                                                                         *)
(* A handler is an async function: it runs to its first await in the click *)
(* (which takes a slot of task), the server serves the call whenever it    *)
(* likes, and the handler goes on when the answer arrives, which is later  *)
(* still.  Calls of two slots overlap in every order.                      *)
(***************************************************************************)
EXTENDS ListView

CONSTANTS
    MaxId,       \* ids 1 .. MaxId
    FirstRows,   \* the rows the server has at the start
    PageSizes,   \* the page sizes the pager offers
    FirstSize,   \* the one a page starts with
    Views,       \* the views a user may choose
    Slots,       \* handlers that may be in flight together
    MaxWork,     \* clicks that start a handler
    MaxMoves,    \* clicks that only change what is on screen
    MaxFaults    \* answers that are lost or refused

VARIABLES
    db,          \* server: id -> row
    born,        \* server: the last id it gave out
    live,        \* server: the admin session is valid
    served,      \* list answers given so far
    rows,        \* the rows the page shows
    loading, listError,
    applied,     \* which list answer rows is
    missed,      \* the last list answer before a change no reload will show
    tab, view, page, pageSize, selected,
    composer,    \* the form or dialog that is open: "closed", "add", ...
    saving, bulkBusy, editSaving,
    editing,     \* the row of the edit dialog, None when closed
    form,        \* what stands in the edit dialog
    at,          \* "page", or "login" once a 401 has been handled
    task,        \* slot -> handler in flight
    work, moves, faults

serverVars == <<db, born, live, served>>
dataVars   == <<rows, loading, listError, applied>>
viewVars   == <<tab, view, page, pageSize, selected>>
formVars   == <<composer, saving, bulkBusy, editSaving, editing, form>>
budgetVars == <<work, moves, faults>>
listVars   == <<serverVars, dataVars, missed, viewVars, formVars, at, task, budgetVars>>

Ids == 1 .. MaxId
None == 0
Tabs == {"opencode", "ollama"}          \* a page without tabs stays on the first
Label == [of : Ids, new : BOOLEAN]      \* typed for row of; new once it was edited
NoLabel == [of |-> None, new |-> FALSE]
Row == [on : BOOLEAN, tab : Tabs, label : Label]
IsTable(f) == DOMAIN f \subseteq Ids /\ \A i \in DOMAIN f : f[i] \in Row
NoRows == [i \in {} |-> i]
NewRow(i, t) == [on |-> TRUE, tab |-> t, label |-> [of |-> i, new |-> FALSE]]

ASSUME ListAssumption ==
    /\ MaxId \in Nat /\ MaxWork \in Nat /\ MaxMoves \in Nat /\ MaxFaults \in Nat
    /\ \E n \in 0 .. MaxId : /\ FirstRows \in [1 .. n -> Row]
                              /\ \A i \in 1 .. n : FirstRows[i].label = [of |-> i, new |-> FALSE]
    /\ PageSizes \subseteq Nat \ {0} /\ FirstSize \in PageSizes
    /\ Views \subseteq View /\ FirstView \in Views

(***************************************************************************)
(* Handlers in flight.  todo and more are what a loop over ids or over     *)
(* pasted items has still to do, done and failed whether an item of it     *)
(* succeeded and failed; chosen is what was both selected and on screen.   *)
(***************************************************************************)
Free == [kind |-> "none", call |-> "none", id |-> None, tab |-> "none",
         label |-> NoLabel, on |-> FALSE, todo |-> {}, more |-> 0, done |-> FALSE,
         failed |-> FALSE, chosen |-> {}, ans |-> "none", snap |-> NoRows, stamp |-> 0]
Handler(kind, call) == [Free EXCEPT !.kind = kind, !.call = call]

Put(s, t) == task' = [task EXCEPT ![s] = t]
IsFree(s) == task[s].kind = "none"
Waiting(s) == ~IsFree(s) /\ task[s].ans = "none"
Answered(s, call, ans) == at = "page" /\ task[s].call = call /\ task[s].ans = ans
InFlight(kinds) == \E s \in Slots : task[s].kind \in kinds

(* A click that starts a handler, one that does not. *)
MayStart(s) == at = "page" /\ work < MaxWork /\ IsFree(s)
Start(s, t) == work' = work + 1 /\ Put(s, t)
MayMove == at = "page" /\ moves < MaxMoves
Move == moves' = moves + 1

(***************************************************************************)
(* The server: one call, served in one step.  A list answer is a snapshot; *)
(* a change to a row that is gone is refused.  An answer may be lost after *)
(* the change was made, and a call may be refused without one.             *)
(***************************************************************************)
Give(s, ans) == Put(s, [task[s] EXCEPT !.ans = ans])

ServeList(s) ==
    /\ Waiting(s) /\ live /\ task[s].call = "list"
    /\ served' = served + 1
    /\ Put(s, [task[s] EXCEPT !.ans = "ok", !.snap = db, !.stamp = served + 1])
    /\ UNCHANGED <<db, born, live, missed, faults>>

Found(s) == \/ task[s].call = "create" /\ born < MaxId
            \/ task[s].call # "create" /\ task[s].id \in DOMAIN db

Effect(t) ==
    CASE t.call = "create" -> [i \in DOMAIN db \cup {born + 1} |->
                                  IF i = born + 1 THEN NewRow(i, t.tab) ELSE db[i]]
      [] t.call = "rename" -> [db EXCEPT ![t.id].label = t.label]
      [] t.call = "enable" -> [db EXCEPT ![t.id].on = t.on]
      [] t.call = "delete" -> [i \in DOMAIN db \ {t.id} |-> db[i]]
      [] t.call = "read"   -> db

ServeChange(s) ==
    /\ Waiting(s) /\ live /\ task[s].call # "list" /\ Found(s)
    /\ db' = Effect(task[s])
    /\ born' = IF task[s].call = "create" THEN born + 1 ELSE born
    /\ \/ Give(s, "ok") /\ UNCHANGED <<faults, missed>>
       \/ /\ faults < MaxFaults /\ faults' = faults + 1
          /\ missed' = served                      \* done, but the answer is lost
          /\ Give(s, "failed")
    /\ UNCHANGED <<live, served>>

Refuse(s) ==
    /\ Waiting(s)
    /\ \/ ~live /\ Give(s, "unauthorized") /\ UNCHANGED faults
       \/ live /\ task[s].call # "list" /\ ~Found(s) /\ Give(s, "failed") /\ UNCHANGED faults
       \/ live /\ faults < MaxFaults /\ faults' = faults + 1 /\ Give(s, "failed")
    /\ UNCHANGED <<serverVars, missed>>

Serve(s) ==
    /\ at = "page"
    /\ ServeList(s) \/ ServeChange(s) \/ Refuse(s)
    /\ UNCHANGED <<dataVars, viewVars, formVars, at, work, moves>>

(* The session ends: it expires, or a password change revokes it. *)
Expire ==
    /\ live /\ faults < MaxFaults
    /\ live' = FALSE /\ faults' = faults + 1
    /\ UNCHANGED <<db, born, served, dataVars, missed, viewVars, formVars, at, task, work, moves>>

(***************************************************************************)
(* The list on screen and the selection.                                   *)
(***************************************************************************)
Matching == Listed(rows, tab, view)
VisibleIds == Range(SlicePage(Matching, page, pageSize))

(* With prunes, useRowSelection's effect drops what has left the page. *)
Selects(sel, prunes) == selected' = IF prunes THEN Prune(sel, VisibleIds') ELSE sel

StayOnScreen == UNCHANGED <<serverVars, dataVars, missed, formVars, at, task, work, faults>>

GoPage(p, prunes) ==
    /\ Move /\ p \in PagerTargets(Len(Matching), page, pageSize)
    /\ page' = p
    /\ UNCHANGED <<tab, view, pageSize>>
    /\ StayOnScreen /\ Selects(selected, prunes)

(* Mutant: pages counted from zero. *)
ResizePageFromZero(n, prunes) ==
    /\ Move /\ Len(Matching) > 0 /\ n # pageSize
    /\ pageSize' = n /\ page' = 0
    /\ UNCHANGED <<tab, view>>
    /\ StayOnScreen /\ Selects(selected, prunes)

ResizePage(n, prunes) ==
    /\ Move /\ Len(Matching) > 0 /\ n # pageSize
    /\ pageSize' = n /\ page' = 1
    /\ UNCHANGED <<tab, view>>
    /\ StayOnScreen /\ Selects(selected, prunes)

(* Any change of filter or sort goes back to the first page. *)
ChooseView(v, prunes) ==
    /\ Move /\ v # view
    /\ view' = v /\ page' = 1
    /\ UNCHANGED <<tab, pageSize>>
    /\ StayOnScreen /\ Selects(selected, prunes)

Mark(sel) ==
    /\ Move /\ selected' = sel
    /\ UNCHANGED <<tab, view, page, pageSize>>
    /\ StayOnScreen

ToggleOne(i) == i \in VisibleIds /\ Mark(ToggleOneOf(selected, i))
ToggleAll == VisibleIds # {} /\ Mark(ToggleAllOf(selected, VisibleIds))
Invert == selected # {} /\ Mark(InvertOf(selected, VisibleIds))
ClearSelection == selected # {} /\ Mark({})

Browse(views, prunes) ==
    \/ \E p \in Ids : GoPage(p, prunes)
    \/ \E n \in PageSizes : ResizePage(n, prunes)
    \/ \E v \in views : ChooseView(v, prunes)
    \/ \E i \in Ids : ToggleOne(i)
    \/ ToggleAll \/ Invert \/ ClearSelection

(***************************************************************************)
(* Clicks that start a handler; the pages say when they can be made.       *)
(***************************************************************************)
StayOnPage == UNCHANGED <<serverVars, rows, listError, applied, missed, viewVars, form, at, moves, faults>>

StartLoad(s, hard) ==
    /\ Start(s, Handler("load", "list"))
    /\ loading' = (hard \/ loading)
    /\ UNCHANGED <<composer, saving, bulkBusy, editSaving, editing>> /\ StayOnPage

(* n items of a form, one call each. *)
StartCreate(s, n) ==
    /\ Start(s, [Handler("create", "create") EXCEPT !.tab = tab, !.more = n - 1])
    /\ saving' = TRUE
    /\ UNCHANGED <<loading, composer, bulkBusy, editSaving, editing>> /\ StayOnPage

(* A row's own buttons: delete, and a toggle that sends the opposite of what the row shows. *)
StartRow(s, call, i) ==
    /\ Start(s, [Handler("row", call) EXCEPT !.id = i, !.on = ~rows[i].on])
    /\ UNCHANGED <<loading, composer, saving, bulkBusy, editSaving, editing>> /\ StayOnPage

(* The edit form, as it was opened or with another text in it. *)
StartEdit(s) ==
    /\ \E text \in {form, [of |-> editing, new |-> TRUE]} :
          Start(s, [Handler("edit", "rename") EXCEPT !.id = editing, !.label = text])
    /\ editSaving' = TRUE
    /\ UNCHANGED <<loading, composer, saving, bulkBusy, editing>> /\ StayOnPage

(* A loop over the selection as it is at the click. *)
StartBulk(s, call, on) ==
    /\ \E i \in selected :
          Start(s, [Handler("bulk", call) EXCEPT !.id = i, !.on = on, !.tab = tab,
                                                 !.todo = selected \ {i}, !.chosen = selected \cap VisibleIds])
    /\ bulkBusy' = TRUE
    /\ UNCHANGED <<loading, composer, saving, editSaving, editing>> /\ StayOnPage

(***************************************************************************)
(* Clicks that only open or close something.                               *)
(***************************************************************************)
Opens == Move /\ UNCHANGED <<serverVars, dataVars, missed, saving, bulkBusy, editSaving, at, task, work, faults>>

SetComposer(c) == /\ Opens /\ composer' = c
                  /\ UNCHANGED <<viewVars, editing, form>>

(* Mutant: text that was typed before is kept. *)
FillFormOnce(i) == /\ Opens /\ editing' = i
                   /\ form' = IF form = NoLabel THEN rows[i].label ELSE form
                   /\ UNCHANGED <<viewVars, composer>>

(* openEdit fills the form from the row on screen. *)
FillForm(i) == /\ Opens /\ editing' = i /\ form' = rows[i].label
               /\ UNCHANGED <<viewVars, composer>>

(* Cancel, Escape, the overlay of the dialog: never disabled. *)
DropForm == /\ editing # None /\ Opens /\ editing' = None
            /\ UNCHANGED <<viewVars, composer, form>>

(***************************************************************************)
(* How handlers go on.                                                     *)
(***************************************************************************)
BusyKinds == {"bulk", "single", "batch", "export"}

(* Mutant: lowered after a success, where it should be in finally. *)
ReleaseOnSuccess(s) ==
    LET ok == task[s].ans = "ok"
    IN  /\ saving' = (saving /\ ~(ok /\ task[s].kind = "create"))
        /\ editSaving' = (editSaving /\ ~(ok /\ task[s].kind = "edit"))
        /\ bulkBusy' = (bulkBusy /\ ~(ok /\ task[s].kind \in BusyKinds))

(* The finally blocks: the flag the handler raised is lowered. *)
Release(s) ==
    /\ saving' = (saving /\ task[s].kind # "create")
    /\ editSaving' = (editSaving /\ task[s].kind # "edit")
    /\ bulkBusy' = (bulkBusy /\ task[s].kind \notin BusyKinds)

Ends(s) == Release(s) /\ Put(s, Free)

(* load(), called by a handler whose change has succeeded; hard: with the spinner. *)
Reload(s, hard) ==
    /\ Put(s, [task[s] EXCEPT !.call = "list", !.ans = "none"])
    /\ loading' = (hard \/ loading)
    /\ UNCHANGED <<serverVars, rows, listError, applied, missed, saving, bulkBusy, editSaving, form, at, budgetVars>>

CreateSucceeds(s, hard) ==
    /\ Answered(s, "create", "ok") /\ task[s].more = 0
    /\ composer' = "closed" /\ Reload(s, hard)
    /\ UNCHANGED <<viewVars, editing>>

(* Mutant: the row's handler does not load again. *)
RowForgotten(s, hard) ==
    /\ at = "page" /\ task[s].kind = "row" /\ task[s].call # "list" /\ task[s].ans = "ok"
    /\ Ends(s)
    /\ UNCHANGED <<serverVars, dataVars, missed, viewVars, composer, editing, form, at, budgetVars>>

RowSucceeds(s, hard) ==
    /\ at = "page" /\ task[s].kind = "row" /\ task[s].call # "list" /\ task[s].ans = "ok"
    /\ Reload(s, hard)
    /\ UNCHANGED <<viewVars, composer, editing>>

(* Closes whatever edit dialog is open by now. *)
EditSucceeds(s, hard) ==
    /\ Answered(s, "rename", "ok")
    /\ editing' = None /\ Reload(s, hard)
    /\ UNCHANGED <<viewVars, composer>>

(* Pasted items are created one after the other, whatever becomes of one. *)
ItemAnswered(s) == at = "page" /\ task[s].call = "create" /\ task[s].ans \in {"ok", "failed"}
SomeDone(s) == task[s].done \/ task[s].ans = "ok"
SomeFailed(s) == task[s].failed \/ task[s].ans = "failed"

NextItem(s) ==
    /\ ItemAnswered(s) /\ task[s].more > 0
    /\ Put(s, [task[s] EXCEPT !.more = @ - 1, !.ans = "none",
                              !.done = SomeDone(s), !.failed = SomeFailed(s)])
    /\ UNCHANGED <<serverVars, dataVars, missed, viewVars, formVars, at, budgetVars>>

(* A loop goes on with any of the rows left, whatever became of the last. *)
BulkAnswered(s) == /\ at = "page" /\ task[s].kind \in {"bulk", "export"} /\ task[s].call # "list"
                   /\ task[s].ans \in {"ok", "failed"}

BulkNext(s) ==
    /\ BulkAnswered(s)
    /\ \E i \in task[s].todo :
          Put(s, [task[s] EXCEPT !.id = i, !.todo = @ \ {i}, !.ans = "none"])
    /\ UNCHANGED <<serverVars, dataVars, missed, viewVars, formVars, at, budgetVars>>

(* It ends by clearing the selection, whatever that has become, and a reload. *)
BulkDone(s, hard) ==
    /\ BulkAnswered(s) /\ task[s].todo = {}
    /\ selected' = {} /\ Reload(s, hard)
    /\ UNCHANGED <<tab, view, page, pageSize, composer, editing>>

(* The list arrives: it replaces the rows, however old it is. *)
ListArrives(s, prunes) ==
    /\ Answered(s, "list", "ok")
    /\ rows' = task[s].snap /\ applied' = task[s].stamp
    /\ listError' = FALSE /\ loading' = FALSE
    /\ Ends(s)
    /\ UNCHANGED <<tab, view, page, pageSize>> /\ Selects(selected, prunes)
    /\ UNCHANGED <<serverVars, missed, composer, editing, form, at, budgetVars>>

ListFails(s) ==
    /\ Answered(s, "list", "failed")
    /\ listError' = TRUE /\ loading' = FALSE /\ missed' = served
    /\ Ends(s)
    /\ UNCHANGED <<serverVars, rows, applied, viewVars, composer, editing, form, at, budgetVars>>

(* A change failed: a toast, the flag is lowered, nothing is reloaded. *)
ChangeFails(s, kinds) ==
    /\ at = "page" /\ task[s].kind \in kinds
    /\ task[s].call # "list" /\ task[s].ans = "failed"
    /\ Ends(s)
    /\ UNCHANGED <<serverVars, dataVars, missed, viewVars, composer, editing, form, at, budgetVars>>

(* handleUnauthorized: any 401 leads to /login and unmounts the page. *)
SignedOut(s) ==
    /\ at = "page" /\ task[s].ans = "unauthorized"
    /\ at' = "login"
    /\ Ends(s)
    /\ UNCHANGED <<serverVars, dataVars, missed, viewVars, composer, editing, form, budgetVars>>

InitList(tabs) ==
    /\ db = FirstRows /\ born = Cardinality(DOMAIN FirstRows) /\ live = TRUE /\ served = 0
    /\ rows = NoRows /\ loading = TRUE /\ listError = FALSE /\ applied = 0 /\ missed = 0
    /\ tab \in tabs /\ view = FirstView /\ page = 1 /\ selected = {}
    /\ pageSize = FirstSize
    /\ composer = "closed" /\ saving = FALSE /\ bulkBusy = FALSE /\ editSaving = FALSE
    /\ editing = None /\ form = NoLabel
    /\ at = "page"
    /\ \E s \in Slots : task = [r \in Slots |-> IF r = s THEN Handler("load", "list") ELSE Free]
    /\ work = 0 /\ moves = 0 /\ faults = 0
===============================================================================
