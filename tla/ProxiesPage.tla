------------------------------ MODULE ProxiesPage -----------------------------
(***************************************************************************)
(* The page of the egress proxies.  The composer takes a batch of lines,   *)
(* created one after the other; every load shows the spinner.              *)
(***************************************************************************)
EXTENDS AdminList

Init == InitList({"opencode"})

Reachable == editing = None
ListShown == ~loading /\ ~listError /\ DOMAIN rows # {}
RowShown(i) == Reachable /\ ListShown /\ i \in VisibleIds
BulkButtons == Reachable /\ ListShown /\ selected # {} /\ ~bulkBusy

Refresh(s) == Reachable /\ StartLoad(s, TRUE)

ToggleComposer == /\ Reachable
                  /\ SetComposer(IF composer = "closed" THEN "add" ELSE "closed")

(* parseProxyLines: how many items the text gives; without one, no call is made. *)
ParsedItems == 1 .. 2

OnCreate(s) == /\ Reachable /\ composer = "add" /\ ~saving
               /\ \E n \in ParsedItems : StartCreate(s, n)

(* One success is enough to drop the text, close the composer and reload. *)
SomeCreated(s) ==
    /\ ItemAnswered(s) /\ task[s].more = 0 /\ SomeDone(s)
    /\ composer' = "closed" /\ Reload(s, TRUE)
    /\ UNCHANGED <<viewVars, editing>>

NoneCreated(s) ==
    /\ ItemAnswered(s) /\ task[s].more = 0 /\ ~SomeDone(s)
    /\ Ends(s)
    /\ UNCHANGED <<serverVars, dataVars, missed, viewVars, composer, editing, form, at, budgetVars>>

ToggleEnabled(s, i) == RowShown(i) /\ StartRow(s, "enable", i)
DeleteProxy(s, i) == RowShown(i) /\ StartRow(s, "delete", i)
RowChanged(s) == RowSucceeds(s, TRUE)

OpenEdit(i) == RowShown(i) /\ FillForm(i)
CloseEdit == DropForm
OnSaveEdit(s) == editing # None /\ ~editSaving /\ StartEdit(s)
EditSaved(s) == EditSucceeds(s, TRUE)

BulkSetEnabled(s) == BulkButtons /\ \E on \in BOOLEAN : StartBulk(s, "enable", on)
BulkDelete(s) == BulkButtons /\ StartBulk(s, "delete", FALSE)
BulkEnds(s) == BulkDone(s, TRUE)

Click(s) ==
    \/ Refresh(s) \/ OnCreate(s) \/ OnSaveEdit(s) \/ BulkSetEnabled(s) \/ BulkDelete(s)
    \/ \E i \in Ids : ToggleEnabled(s, i) \/ DeleteProxy(s, i)

GoesOn(s) ==
    \/ NextItem(s) \/ SomeCreated(s) \/ NoneCreated(s)
    \/ RowChanged(s) \/ EditSaved(s) \/ BulkNext(s) \/ BulkEnds(s)
    \/ ListArrives(s, TRUE) \/ ListFails(s) \/ SignedOut(s)
    \/ ChangeFails(s, {"row", "edit"})

Moves ==
    \/ ToggleComposer \/ CloseEdit
    \/ \E i \in Ids : OpenEdit(i)
    \/ Reachable /\ ListShown /\ Browse(Views, TRUE)

Next ==
    \/ \E s \in Slots : (MayStart(s) /\ Click(s)) \/ Serve(s) \/ GoesOn(s)
    \/ Expire
    \/ MayMove /\ Moves
===============================================================================
