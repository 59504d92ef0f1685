------------------------------ MODULE MCWebLists ------------------------------
(***************************************************************************)
(* The four list pages on small instances.  screen is the page under test, *)
(* chosen at the start; the pages share no state, so their behaviours are  *)
(* checked side by side.                                                   *)
(***************************************************************************)
EXTENDS AdminList, TLC

VARIABLE screen

Keys     == INSTANCE LocalKeysPage
Pool     == INSTANCE KeyPoolPage
Proxies  == INSTANCE ProxiesPage
Accounts == INSTANCE AccountsPage

MCFirstRows == [i \in 1 .. 2 |-> [NewRow(i, "opencode") EXCEPT !.on = (i = 1)]]
MCViews == {FirstView, [FirstView EXCEPT !.status = "enabled"],
            [FirstView EXCEPT !.sort = "status"]}
MCSymmetry == Permutations(Slots)

MCInit == \/ screen = "keys" /\ Keys!Init
          \/ screen = "pool" /\ Pool!Init
          \/ screen = "proxies" /\ Proxies!Init
          \/ screen = "accounts" /\ Accounts!Init

MCNext == /\ \/ screen = "keys" /\ Keys!Next
             \/ screen = "pool" /\ Pool!Next
             \/ screen = "proxies" /\ Proxies!Next
             \/ screen = "accounts" /\ Accounts!Next
          /\ UNCHANGED screen

MCSpec == MCInit /\ [][MCNext]_<<listVars, screen>>

(***************************************************************************)
(* Properties.                                                             *)
(***************************************************************************)
(* The shape of a list page's state. *)
ListTypeOK ==
    /\ screen \in {"keys", "pool", "proxies", "accounts"}
    /\ IsTable(db) /\ DOMAIN db \subseteq 1 .. born /\ born \in 0 .. MaxId
    /\ IsTable(rows) /\ applied \in 0 .. served /\ missed \in 0 .. served
    /\ tab \in Tabs /\ view \in Views /\ page \in Nat \ {0} /\ pageSize \in PageSizes
    /\ selected \subseteq Ids /\ editing \in Ids \cup {None} /\ form \in Label \cup {NoLabel}
    /\ {live, loading, listError, saving, bulkBusy, editSaving} \subseteq BOOLEAN
    /\ composer \in {"closed", "add", "batch", "import"} /\ at \in {"page", "login"}
    /\ \A s \in Slots : task[s].ans \in {"none", "ok", "failed", "unauthorized"}

(* A page at rest shows what the server has, however its handlers overlapped, *)
(* unless an older list overtook a newer one, or a request failed after the   *)
(* list it shows: then nothing reloads it.                                    *)
QuietMeansCurrent ==
    at = "page" /\ (\A s \in Slots : IsFree(s)) /\ applied = served /\ applied > missed => rows = db

(* A bulk action works through rows that were selected when it was confirmed, *)
(* that stood on the page before the user (on the pages with useRowSelection),*)
(* and that belong to the tab whose endpoint is called.                       *)
BulkStaysWithinChoice ==
    \A s \in Slots : task[s].kind = "bulk" /\ task[s].call \in {"enable", "delete"} =>
        \A i \in task[s].todo \cup {task[s].id} :
            /\ screen # "accounts" => i \in task[s].chosen
            /\ i \in DOMAIN db => db[i].tab = task[s].tab

(* What was typed for one row is never saved on another, whichever dialogs    *)
(* were closed, reopened or left open by a save that was still in flight.     *)
LabelsStayHome == \A i \in DOMAIN db : db[i].label.of = i

(* A busy flag is up exactly while a handler that will lower it is in flight, *)
(* so no button spins for ever and no form can be submitted twice; the list's *)
(* spinner never outlives the last load.                                      *)
BusyIsBacked ==
    at = "page" =>
        /\ saving <=> InFlight({"create"})
        /\ editSaving <=> InFlight({"edit"})
        /\ bulkBusy <=> InFlight(BusyKinds)
        /\ loading => \E s \in Slots : task[s].call = "list"
===============================================================================
