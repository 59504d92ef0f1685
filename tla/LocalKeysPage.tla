----------------------------- MODULE LocalKeysPage ----------------------------
(***************************************************************************)
(* The page of the local gateway keys.  Every load shows the spinner in    *)
(* place of the list, so rows and toolbar are out of reach while one runs; *)
(* the composer and the edit dialog stand outside the list and are not.    *)
(***************************************************************************)
EXTENDS AdminList

Init == InitList({"opencode"})

(* The edit dialog is modal. *)
Reachable == editing = None

(* The branches of the rendering: spinner, error with retry, poster, list. *)
ListShown == ~loading /\ ~listError /\ DOMAIN rows # {}

(* A row, as a card or a table line, and the bulk buttons of the toolbar. *)
RowShown(i) == Reachable /\ ListShown /\ i \in VisibleIds
BulkButtons == Reachable /\ ListShown /\ selected # {} /\ ~bulkBusy

(* load() from the header's refresh or the error's retry. *)
Refresh(s) == Reachable /\ StartLoad(s, TRUE)

ToggleComposer == /\ Reachable
                  /\ SetComposer(IF composer = "closed" THEN "add" ELSE "closed")

OnCreate(s) == Reachable /\ composer = "add" /\ ~saving /\ StartCreate(s, 1)
Created(s) == CreateSucceeds(s, TRUE)

(* onRevoke, confirmed. *)
OnRevoke(s, i) == RowShown(i) /\ StartRow(s, "delete", i)
ToggleEnabled(s, i) == RowShown(i) /\ StartRow(s, "enable", i)
RowChanged(s) == RowSucceeds(s, TRUE)

OpenEdit(i) == RowShown(i) /\ FillForm(i)
CloseEdit == DropForm
OnSaveEdit(s) == editing # None /\ ~editSaving /\ StartEdit(s)
EditSaved(s) == EditSucceeds(s, TRUE)

(* The rows the loops look up are those the selection was made from. *)
BulkSetEnabled(s) == BulkButtons /\ \E on \in BOOLEAN : StartBulk(s, "enable", on)
BulkRevoke(s) == BulkButtons /\ StartBulk(s, "delete", FALSE)
BulkEnds(s) == BulkDone(s, TRUE)

Click(s) ==
    \/ Refresh(s) \/ OnCreate(s) \/ OnSaveEdit(s) \/ BulkSetEnabled(s) \/ BulkRevoke(s)
    \/ \E i \in Ids : OnRevoke(s, i) \/ ToggleEnabled(s, i)

GoesOn(s) ==
    \/ Created(s) \/ RowChanged(s) \/ EditSaved(s) \/ BulkNext(s) \/ BulkEnds(s)
    \/ ListArrives(s, TRUE) \/ ListFails(s) \/ SignedOut(s)
    \/ ChangeFails(s, {"create", "row", "edit"})

Moves ==
    \/ ToggleComposer \/ CloseEdit
    \/ \E i \in Ids : OpenEdit(i)
    \/ Reachable /\ ListShown /\ Browse(Views, TRUE)

Next ==
    \/ \E s \in Slots : (MayStart(s) /\ Click(s)) \/ Serve(s) \/ GoesOn(s)
    \/ Expire
    \/ MayMove /\ Moves
===============================================================================
