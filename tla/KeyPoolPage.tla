------------------------------ MODULE KeyPoolPage -----------------------------
(***************************************************************************)
(* The page of the paid upstream keys: two providers behind two tabs, both *)
(* lists loaded together.  Loads are soft once something is shown: the old *)
(* rows stay on screen, and in reach, while the new ones are fetched.      *)
(***************************************************************************)
EXTENDS AdminList

Init == InitList(Tabs)

Reachable == editing = None

(* The branches of the rendering; the poster stands for an empty tab. *)
ListShown == ~loading /\ ~listError /\ \E i \in DOMAIN rows : rows[i].tab = tab

RowShown(i) == Reachable /\ ListShown /\ i \in VisibleIds
BulkButtons == Reachable /\ ListShown /\ selected # {} /\ ~bulkBusy

(* load(): the spinner only while both lists are empty. *)
Refresh(s) == Reachable /\ StartLoad(s, DOMAIN rows = {})

(* The effect of a provider change; the rows of the new tab prune the selection. *)
ChooseProvider(t) ==
    /\ Reachable /\ t # tab /\ Opens
    /\ tab' = t /\ view' = FirstView /\ page' = 1 /\ UNCHANGED pageSize
    /\ composer' = "closed" /\ editing' = None /\ UNCHANGED form
    /\ Selects(selected, TRUE)

ToggleComposer == /\ Reachable
                  /\ SetComposer(IF composer = "closed" THEN "add" ELSE "closed")

(* Creates for the provider of the tab at the click; no secret, no call. *)
OnCreate(s) == Reachable /\ composer = "add" /\ ~saving /\ StartCreate(s, 1)
Created(s) == CreateSucceeds(s, FALSE)

ToggleEnabled(s, i) == RowShown(i) /\ StartRow(s, "enable", i)
DeleteKey(s, i) == RowShown(i) /\ StartRow(s, "delete", i)
RowChanged(s) == RowSucceeds(s, FALSE)

OpenEdit(i) == RowShown(i) /\ FillForm(i)
CloseEdit == DropForm
OnSaveEdit(s) == editing # None /\ ~editSaving /\ StartEdit(s)
EditSaved(s) == EditSucceeds(s, FALSE)

BulkSetEnabled(s) == BulkButtons /\ \E on \in BOOLEAN : StartBulk(s, "enable", on)
BulkDelete(s) == BulkButtons /\ StartBulk(s, "delete", FALSE)
BulkEnds(s) == BulkDone(s, FALSE)

Click(s) ==
    \/ Refresh(s) \/ OnCreate(s) \/ OnSaveEdit(s) \/ BulkSetEnabled(s) \/ BulkDelete(s)
    \/ \E i \in Ids : ToggleEnabled(s, i) \/ DeleteKey(s, i)

GoesOn(s) ==
    \/ Created(s) \/ RowChanged(s) \/ EditSaved(s) \/ BulkNext(s) \/ BulkEnds(s)
    \/ ListArrives(s, TRUE) \/ ListFails(s) \/ SignedOut(s)
    \/ ChangeFails(s, {"create", "row", "edit"})

Moves ==
    \/ ToggleComposer \/ CloseEdit
    \/ \E t \in Tabs : ChooseProvider(t)
    \/ \E i \in Ids : OpenEdit(i)
    \/ Reachable /\ ListShown /\ Browse(Views, TRUE)

Next ==
    \/ \E s \in Slots : (MayStart(s) /\ Click(s)) \/ Serve(s) \/ GoesOn(s)
    \/ Expire
    \/ MayMove /\ Moves
===============================================================================
