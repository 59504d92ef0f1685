------------------------------ MODULE UsagePanel ------------------------------
(***************************************************************************)
(* The OpenCode usage panel of the logs page (LogsPage.tsx).  load() asks  *)
(* for the accounts and then for the records of one of them; loadSeqRef    *)
(* numbers the loads and every await is followed by a look at it.  A sync  *)
(* runs for the account that was chosen when it was started and ends with  *)
(* a load of its own.                                                      *)
(***************************************************************************)
EXTENDS AdminPage

CONSTANTS
    Accounts     \* the ids of the accounts there may be

ASSUME UsageAssumption == Accounts \subseteq Nat \ {0}

VARIABLES
    onServer,    \* the accounts the server lists
    accountId,   \* the account chosen, AllAccounts for none
    ready,       \* accountFilterReady: the first account has been set
    uLoading, uError, syncing,
    uSeq,        \* loadSeqRef
    loads,       \* loads in flight
    sync,        \* the sync in flight
    records,     \* the account the records in the table were asked for
    uShown,      \* the load they came with
    crossed      \* an account was chosen while a sync was in flight, and none since

usageVars == <<onServer, accountId, ready, uLoading, uError, syncing, uSeq,
               loads, sync, records, uShown, crossed>>

AllAccounts == 0
AccountIds == Accounts \cup {AllAccounts}

(* A load: what it was started for and the step it awaits. *)
Load == [seq : Nat, for : AccountIds, awaits : {"accounts", "usage"}, asked : AccountIds]
NewLoad(n, a) == [seq |-> n, for |-> a, awaits |-> "accounts", asked |-> AllAccounts]

(* A sync: its account, and the load that ends it once that has started. *)
NoSync == [of |-> AllAccounts, load |-> 0]
Sync == [of : AccountIds, load : Nat]

UsageTypeOK ==
    /\ onServer \subseteq Accounts /\ accountId \in AccountIds /\ records \in AccountIds
    /\ {ready, uLoading, uError, syncing, crossed} \subseteq BOOLEAN
    /\ uSeq \in Nat /\ uShown \in 0 .. uSeq
    /\ loads \subseteq Load /\ sync \in Sync

(* load(a) up to its first await; none is AllAccounts, as in load(). *)
StartLoad(a, others) ==
    /\ uSeq' = uSeq + 1 /\ uLoading' = TRUE
    /\ loads' = others \cup {NewLoad(uSeq + 1, a)}

UsageInit ==
    /\ onServer \in SUBSET Accounts
    /\ accountId = AllAccounts /\ ready = FALSE
    /\ uLoading = TRUE /\ uError = FALSE /\ syncing = FALSE
    /\ uSeq = 1 /\ loads = {NewLoad(1, AllAccounts)} /\ sync = NoSync
    /\ records = AllAccounts /\ uShown = 0 /\ crossed = FALSE

(***************************************************************************)
(* What the user can do: the list is there, or nothing is.                 *)
(***************************************************************************)
PanelShown == ~uLoading /\ ~uError

(* The account's effect: nothing for all accounts; the first time it only  *)
(* notes that the filter is ready; a load from then on.                    *)
ChooseAccount(a) ==
    /\ PanelShown /\ Click /\ a \in onServer \cup {AllAccounts} /\ a # accountId
    /\ accountId' = a
    /\ ready' = (ready \/ a # AllAccounts)
    /\ IF a # AllAccounts /\ ready
       THEN StartLoad(a, loads)
       ELSE UNCHANGED <<uSeq, uLoading, loads>>
    /\ crossed' = (sync # NoSync)
    /\ UNCHANGED <<onServer, uError, syncing, sync, records, uShown>>

(* runSync, incremental or backfill; without an account it is an error. *)
RunSync ==
    /\ PanelShown /\ ~syncing /\ Click
    /\ IF accountId = AllAccounts
       THEN uError' = TRUE /\ UNCHANGED <<syncing, sync>>
       ELSE /\ syncing' = TRUE /\ sync' = [of |-> accountId, load |-> 0]
            /\ UNCHANGED uError
    /\ UNCHANGED <<onServer, accountId, ready, uLoading, uSeq, loads, records, uShown, crossed>>

(***************************************************************************)
(* Answers.                                                                *)
(***************************************************************************)
Current(l) == l.seq = uSeq

(* The load of a sync is its last await: syncing is lowered with it. *)
EndLoad(l) ==
    /\ loads' = loads \ {l}
    /\ IF sync.load = l.seq
       THEN sync' = NoSync /\ syncing' = FALSE
       ELSE UNCHANGED <<sync, syncing>>

(* A load that has been overtaken gives up at its next await. *)
LoadDropped(l) ==
    /\ ~Current(l) /\ Arrives /\ EndLoad(l)
    /\ UNCHANGED <<onServer, accountId, ready, uLoading, uError, uSeq, records, uShown, crossed>>

FirstOf(set) == IF set = {} THEN AllAccounts ELSE CHOOSE a \in set : \A b \in set : a <= b

(* The accounts are there: the first load chooses one of them. *)
AccountsArrive(l) ==
    LET resolved == IF l.for # AllAccounts THEN l.for ELSE FirstOf(onServer)
    IN  /\ Current(l) /\ l.awaits = "accounts" /\ Arrives
        /\ accountId' = IF l.for = AllAccounts THEN resolved ELSE accountId
        /\ ready' = (ready \/ resolved # AllAccounts)
        /\ loads' = (loads \ {l}) \cup {[l EXCEPT !.awaits = "usage", !.asked = resolved]}
        /\ UNCHANGED <<onServer, uLoading, uError, syncing, uSeq, sync, records, uShown, crossed>>

(* Mutant: no look at the number after the second await. *)
UsageArrivesLate(l) ==
    /\ l.awaits = "usage" /\ Arrives
    /\ records' = l.asked /\ uShown' = l.seq
    /\ uError' = FALSE /\ uLoading' = FALSE
    /\ EndLoad(l)
    /\ UNCHANGED <<onServer, accountId, ready, uSeq, crossed>>

UsageArrives(l) ==
    /\ Current(l) /\ l.awaits = "usage" /\ Arrives
    /\ records' = l.asked /\ uShown' = l.seq
    /\ uError' = FALSE /\ uLoading' = FALSE
    /\ EndLoad(l)
    /\ UNCHANGED <<onServer, accountId, ready, uSeq, crossed>>

LoadFails(l) ==
    /\ Current(l)
    /\ \/ Fails /\ uError' = TRUE
       \/ SignsOut /\ UNCHANGED uError
    /\ uLoading' = FALSE /\ EndLoad(l)
    /\ UNCHANGED <<onServer, accountId, ready, uSeq, records, uShown, crossed>>

(* The sync is done: the account it was started for is loaded again. *)
Syncing == sync # NoSync /\ sync.load = 0
SyncDone ==
    /\ Syncing /\ Arrives
    /\ uError' = FALSE
    /\ StartLoad(sync.of, loads) /\ sync' = [sync EXCEPT !.load = uSeq + 1]
    /\ UNCHANGED <<onServer, accountId, ready, syncing, records, uShown, crossed>>

SyncFails ==
    /\ Syncing
    /\ \/ Fails /\ uError' = TRUE
       \/ SignsOut /\ UNCHANGED uError
    /\ sync' = NoSync /\ syncing' = FALSE
    /\ UNCHANGED <<onServer, accountId, ready, uLoading, uSeq, loads, records, uShown, crossed>>

UsageNext ==
    \/ \E a \in AccountIds : ChooseAccount(a)
    \/ RunSync \/ SyncDone \/ SyncFails
    \/ \E l \in loads : LoadDropped(l) \/ AccountsArrive(l) \/ UsageArrives(l) \/ LoadFails(l)

UsageSpec == InitPage /\ UsageInit /\ [][UsageNext]_<<pageVars, usageVars>>

(***************************************************************************)
(* Properties.                                                             *)
(***************************************************************************)
(* A panel at rest without an error shows the answer to the newest load,   *)
(* whichever answers came late, and its spinner is up exactly while that   *)
(* load is in flight.  The records are those of the account in the         *)
(* selector, unless all were chosen or the choice was made while a sync of *)
(* another account ran.                                                    *)
UsageIsCurrent ==
    at = "page" =>
        /\ uLoading <=> \E l \in loads : Current(l)
        /\ syncing <=> sync # NoSync
        /\ PanelShown => uShown = uSeq
        /\ PanelShown /\ accountId # AllAccounts /\ ~crossed => records = accountId
===============================================================================
