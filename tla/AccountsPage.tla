------------------------------ MODULE AccountsPage ----------------------------
(***************************************************************************)
(* The page of the OpenCode and Ollama accounts.  It keeps its selection   *)
(* by hand: only a change of tab and the end of a bulk action clear it.    *)
(* One flag, busy, is shared by the dialogs, the bulk actions and the      *)
(* export; it is bulkBusy here.  One text, error, is both the list's and the actions': it is  *)
(* listError.  There is no refresh but the retry of an empty page.         *)
(***************************************************************************)
EXTENDS AdminList

Init == InitList(Tabs)

Reachable == composer = "closed"     \* the dialogs are modal
InTab == {i \in DOMAIN rows : rows[i].tab = tab}

(* The branches: spinner, error of a page that is empty altogether, poster, list. *)
ErrorShown == ~loading /\ listError /\ DOMAIN rows = {}
ListShown == ~loading /\ InTab # {}
RowShown(i) == Reachable /\ ListShown /\ i \in VisibleIds
BulkButtons == Reachable /\ ListShown /\ selected # {} /\ ~bulkBusy

Refresh(s) == Reachable /\ ErrorShown /\ StartLoad(s, TRUE)

(* The effect of a change of tab. *)
ChooseTab(t) ==
    /\ Reachable /\ t # tab /\ Opens
    /\ tab' = t /\ view' = FirstView /\ page' = 1 /\ selected' = {}
    /\ UNCHANGED <<pageSize, composer, editing, form>>

OpenDialog(d) ==
    /\ Reachable /\ SetComposer(d)
    /\ \/ d = "add"
       \/ d = "import" /\ ~loading /\ ~ErrorShown
       \/ d = "batch" /\ ListShown

(* Never disabled, not even while the dialog's own submit runs. *)
CloseDialog == composer # "closed" /\ SetComposer("closed")

StartBusy(s, h) ==
    /\ ~bulkBusy /\ bulkBusy' = TRUE /\ Start(s, h)
    /\ UNCHANGED <<serverVars, rows, loading, applied, missed, viewVars, composer, saving, editSaving, editing, form, at, moves, faults>>

(* onCreateSingle: a failure leaves the dialog open, with the error. *)
OnCreateSingle(s) ==
    /\ composer = "add"
    /\ StartBusy(s, [Handler("single", "create") EXCEPT !.tab = tab])
    /\ UNCHANGED listError

SingleCreated(s) == task[s].kind = "single" /\ CreateSucceeds(s, TRUE)

(* onBatchSubmit and onImportSubmit: text without a valid item is an error and no call. *)
ParsedItems == 1 .. 2

NothingParsed ==
    /\ composer \in {"batch", "import"} /\ ~bulkBusy /\ Move
    /\ listError' = TRUE
    /\ UNCHANGED <<serverVars, rows, loading, applied, missed, viewVars, formVars, at, task, work, faults>>

SubmitItems(s) ==
    /\ composer \in {"batch", "import"}
    /\ \E n \in ParsedItems :
          StartBusy(s, [Handler("batch", "create") EXCEPT !.tab = tab, !.more = n - 1])
    /\ UNCHANGED listError

(* Failures are shown, the text dropped and the dialog closed all the same; *)
(* the reload that follows takes the error away again when it succeeds.     *)
ItemsDone(s) ==
    /\ task[s].kind = "batch" /\ ItemAnswered(s) /\ task[s].more = 0
    /\ Put(s, [task[s] EXCEPT !.call = "list", !.ans = "none"])
    /\ listError' = (listError \/ SomeFailed(s))
    /\ composer' = "closed" /\ loading' = TRUE
    /\ UNCHANGED <<serverVars, rows, applied, missed, viewVars, saving, bulkBusy, editSaving, editing, form, at, budgetVars>>

(* onExport without secrets writes what the page shows; with them it asks   *)
(* for the credential of every row of the tab, one after the other.         *)
ExportManifest ==
    /\ Reachable /\ ListShown /\ ~bulkBusy /\ Move
    /\ listError' = FALSE
    /\ UNCHANGED <<serverVars, rows, loading, applied, missed, viewVars, formVars, at, task, work, faults>>

ExportSecrets(s) ==
    /\ Reachable /\ ListShown
    /\ \E i \in InTab :
          StartBusy(s, [Handler("export", "read") EXCEPT !.id = i, !.tab = tab, !.todo = InTab \ {i}])
    /\ listError' = FALSE

(* bulkSetEnabled and bulkDelete, over the whole selection of the tab. *)
BulkSetEnabled(s) == BulkButtons /\ \E on \in BOOLEAN : StartBulk(s, "enable", on)
BulkDelete(s) == BulkButtons /\ StartBulk(s, "delete", FALSE)

(* An item that succeeds leads to the next, ... *)
NextRow(s) ==
    /\ task[s].kind \in {"bulk", "export"} /\ task[s].ans = "ok" /\ BulkNext(s)

(* ... the last to a cleared selection and a reload, or to the file, ... *)
BulkEnds(s) == task[s].kind = "bulk" /\ task[s].ans = "ok" /\ BulkDone(s, TRUE)

Exported(s) ==
    /\ Answered(s, "read", "ok") /\ task[s].todo = {} /\ Ends(s)
    /\ UNCHANGED <<serverVars, dataVars, missed, viewVars, composer, editing, form, at, budgetVars>>

(* ... and one that fails ends the loop: the rows changed before it are not reloaded. *)
Aborted(s) ==
    /\ at = "page" /\ task[s].kind \in {"single", "bulk", "export"}
    /\ task[s].call # "list" /\ task[s].ans = "failed"
    /\ listError' = TRUE /\ missed' = served
    /\ Ends(s)
    /\ UNCHANGED <<serverVars, rows, loading, applied, viewVars, composer, editing, form, at, budgetVars>>

ToggleEnabled(s, i) == RowShown(i) /\ StartRow(s, "enable", i)
DeleteAccount(s, i) == RowShown(i) /\ StartRow(s, "delete", i)
RowChanged(s) == RowSucceeds(s, TRUE)

Click(s) ==
    \/ Refresh(s) \/ OnCreateSingle(s) \/ SubmitItems(s) \/ ExportSecrets(s)
    \/ BulkSetEnabled(s) \/ BulkDelete(s)
    \/ \E i \in Ids : ToggleEnabled(s, i) \/ DeleteAccount(s, i)

GoesOn(s) ==
    \/ SingleCreated(s) \/ (task[s].kind = "batch" /\ NextItem(s)) \/ ItemsDone(s)
    \/ NextRow(s) \/ BulkEnds(s) \/ Exported(s) \/ Aborted(s)
    \/ RowChanged(s) \/ ListArrives(s, FALSE) \/ ListFails(s) \/ SignedOut(s)
    \/ ChangeFails(s, {"row"})

Moves ==
    \/ CloseDialog \/ NothingParsed \/ ExportManifest
    \/ \E d \in {"add", "batch", "import"} : OpenDialog(d)
    \/ \E t \in Tabs : ChooseTab(t)
    \/ Reachable /\ ListShown /\ Browse({v \in Views : v.sort = FirstView.sort}, FALSE)

Next ==
    \/ \E s \in Slots : (MayStart(s) /\ Click(s)) \/ Serve(s) \/ GoesOn(s)
    \/ Expire
    \/ MayMove /\ Moves
===============================================================================
