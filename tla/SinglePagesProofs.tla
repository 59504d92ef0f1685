------------------------ MODULE SinglePagesProofs -----------------------------
(***************************************************************************)
(* Proofs about three single pages of the admin UI, UsagePanel,            *)
(* OverviewPage and SettingsPage (with the policy its server keeps), each  *)
(* for any accounts, ranges, typed values and bounds.                      *)
(***************************************************************************)
EXTENDS UsagePanel, OverviewPage, SettingsPage, WellFoundedInduction, TLAPS

(***************************************************************************)
(* The usage panel.  At most one load in flight is current and the spinner *)
(* stands for it (Spinning); it will bring the records of the account in   *)
(* the selector, or choose the account itself (Promised); a sync still is  *)
(* of the account in the selector unless the choice crossed it.            *)
(***************************************************************************)
UsageTyped ==
    /\ onServer \subseteq Accounts /\ accountId \in AccountIds /\ records \in AccountIds
    /\ uSeq \in Nat /\ uShown \in Nat
    /\ loads \subseteq Load /\ sync \in Sync

LoadsNumbered ==
    /\ \A l \in loads : l.seq \in 1 .. uSeq
    /\ \A l, m \in loads : l.seq = m.seq => l = m

Spinning ==
    /\ uLoading <=> \E l \in loads : Current(l)
    /\ syncing <=> sync # NoSync
    /\ PanelShown => uShown = uSeq

(* Until an account has been chosen there is none, or a load to choose it. *)
Unready ==
    /\ ~ready => accountId = AllAccounts /\ sync = NoSync
    /\ ~ready /\ PanelShown => onServer = {}

AccountChosen == accountId # AllAccounts /\ ~crossed

Promised(l) ==
    /\ l.awaits = "accounts" /\ l.for = AllAccounts => ~ready
    /\ l.awaits = "accounts" /\ l.for # AllAccounts => ready /\ (AccountChosen => l.for = accountId)
    /\ l.awaits = "usage" => (AccountChosen => l.asked = accountId) /\ (~ready => onServer = {})

UsageKept ==
    /\ \A l \in loads : Current(l) => Promised(l)
    /\ sync # NoSync => sync.of # AllAccounts /\ (AccountChosen => sync.of = accountId)
    /\ PanelShown /\ AccountChosen => records = accountId

UsageInv == UsageTyped /\ LoadsNumbered /\ (at = "page" => Spinning /\ Unready /\ UsageKept)

(* The first of the accounts is one of them. *)
LEMMA FirstOfType ==
    ASSUME NEW set \in SUBSET Accounts
    PROVE  FirstOf(set) \in AccountIds /\ (set # {} => FirstOf(set) \in set /\ FirstOf(set) # AllAccounts)
<1>1. CASE set = {} BY <1>1 DEF FirstOf, AccountIds
<1>2. CASE set # {}
  <2>1. set \subseteq Nat /\ AllAccounts \notin set BY UsageAssumption DEF AllAccounts
  <2>2. PICK a \in set : \A b \in set : ~(<<b, a>> \in OpToRel(<, Nat))
    BY <1>2, <2>1, NatLessThanWellFounded, WFMin
  <2>3. \A b \in set : a <= b
    <3>1. SUFFICES ASSUME NEW b \in set PROVE ~(b < a) BY <2>1
    <3>2. <<b, a>> \in Nat \X Nat BY <2>1
    <3> QED BY <2>2, <3>2 DEF OpToRel
  <2>4. FirstOf(set) \in set BY <1>2, <2>3 DEF FirstOf
  <2> QED BY <2>1, <2>4 DEF AccountIds
<1> QED BY <1>1, <1>2

LEMMA NewLoadType ==
    ASSUME NEW n \in Nat, NEW a \in AccountIds
    PROVE  /\ NewLoad(n, a) \in Load
           /\ NewLoad(n, a).seq = n /\ NewLoad(n, a).for = a /\ NewLoad(n, a).awaits = "accounts"
  BY DEF NewLoad, Load, AccountIds

LEMMA UsageInitInv == InitPage /\ UsageInit => UsageInv
<1> SUFFICES ASSUME InitPage, UsageInit PROVE UsageInv OBVIOUS
<1> DEFINE l == NewLoad(1, AllAccounts)
<1>1. l \in Load /\ l.seq = 1 /\ l.for = AllAccounts /\ l.awaits = "accounts"
  BY NewLoadType DEF AccountIds
<1>2. loads = {l} /\ uSeq = 1 /\ uLoading = TRUE /\ syncing = FALSE /\ sync = NoSync /\ ready = FALSE
      /\ accountId = AllAccounts
  BY DEF UsageInit
<1> HIDE DEF l
<1>3. UsageTyped
  <2>1. NoSync \in Sync BY DEF NoSync, Sync, AccountIds
  <2> QED BY <1>1, <1>2, <2>1 DEF UsageTyped, UsageInit, AccountIds
<1>4. LoadsNumbered BY <1>1, <1>2 DEF LoadsNumbered
<1>5. Spinning BY <1>1, <1>2 DEF Spinning, Current, PanelShown
<1>6. Unready BY <1>2 DEF Unready, PanelShown
<1>7. UsageKept BY <1>1, <1>2 DEF UsageKept, Promised, AccountChosen, Current, PanelShown
<1> QED BY <1>3, <1>4, <1>5, <1>6, <1>7 DEF UsageInv

(***************************************************************************)
(* Steps.                                                                  *)
(***************************************************************************)
(* Loads that end and one that starts keep the numbering. *)
LEMMA LoadEnds ==
    ASSUME UsageInv, NEW l \in loads, EndLoad(l), uSeq' = uSeq
    PROVE  /\ loads' = loads \ {l} /\ LoadsNumbered'
           /\ sync' \in Sync
           /\ sync' # NoSync => sync' = sync
<1>1. NoSync \in Sync BY DEF NoSync, Sync, AccountIds
<1>2. loads' = loads \ {l} BY DEF EndLoad
<1>3. LoadsNumbered' BY <1>2 DEF UsageInv, LoadsNumbered
<1>4. sync' \in {sync, NoSync} BY DEF EndLoad
<1>5. sync \in Sync BY DEF UsageInv, UsageTyped
<1> QED BY <1>1, <1>2, <1>3, <1>4, <1>5

LEMMA LoadStarts ==
    ASSUME UsageInv, NEW a \in AccountIds, StartLoad(a, loads)
    PROVE  /\ uSeq' = uSeq + 1 /\ uSeq' \in Nat /\ uLoading' = TRUE /\ loads' \subseteq Load /\ LoadsNumbered'
           /\ \E l \in loads' : Current(l)'
           /\ \A l \in loads' : Current(l)' => l.for = a /\ l.awaits = "accounts"
<1>1. uSeq \in Nat /\ uSeq + 1 \in Nat BY DEF UsageInv, UsageTyped
<1>2. PICK new \in Load : new = NewLoad(uSeq + 1, a) BY <1>1, NewLoadType
<1>3. new.seq = uSeq + 1 /\ new.for = a /\ new.awaits = "accounts"
  BY <1>1, <1>2, NewLoadType
<1>4. loads' = loads \cup {new} /\ uSeq' = uSeq + 1 /\ uLoading' = TRUE BY <1>2 DEF StartLoad
<1>5. \A l \in loads : l.seq \in 1 .. uSeq BY DEF UsageInv, LoadsNumbered
<1>6. LoadsNumbered'
  <2>1. \A l \in loads' : l.seq \in 1 .. uSeq + 1 BY <1>1, <1>3, <1>4, <1>5
  <2>2. \A l, m \in loads' : l.seq = m.seq => l = m
    BY <1>1, <1>3, <1>4, <1>5 DEF UsageInv, LoadsNumbered
  <2> QED BY <1>4, <2>1, <2>2 DEF LoadsNumbered
<1>7. \A l \in loads' : Current(l)' => l = new BY <1>1, <1>3, <1>4, <1>5 DEF Current
<1>8. new \in loads' /\ new.seq = uSeq' BY <1>3, <1>4
<1>9. \E l \in loads' : Current(l)' BY <1>8 DEF Current
<1>10. loads' \subseteq Load BY <1>2, <1>4 DEF UsageInv, UsageTyped
<1> QED BY <1>1, <1>3, <1>4, <1>6, <1>7, <1>9, <1>10

LEMMA ChooseStep ==
    ASSUME UsageInv, NEW a \in AccountIds, ChooseAccount(a) PROVE UsageInv'
<1>1. /\ at = "page" /\ at' = at /\ PanelShown /\ a \in onServer \cup {AllAccounts} /\ a # accountId
      /\ accountId' = a /\ (ready' <=> ready \/ a # AllAccounts) /\ (crossed' <=> sync # NoSync)
      /\ UNCHANGED <<onServer, uError, syncing, sync, records, uShown>>
  BY DEF ChooseAccount, Click
<1>2. UsageTyped /\ LoadsNumbered /\ Spinning /\ Unready /\ UsageKept BY <1>1 DEF UsageInv
<1>3. CASE a # AllAccounts /\ ready
  <2>1. StartLoad(a, loads) BY <1>3 DEF ChooseAccount
  <2>2. UsageTyped' BY <1>1, <1>2, <2>1, LoadStarts DEF UsageTyped
  <2>3. Spinning' BY <1>1, <1>2, <2>1, LoadStarts DEF Spinning, PanelShown
  <2>4. Unready' BY <1>1, <1>3 DEF Unready
  <2>5. UsageKept'
    <3>1. \A l \in loads' : Current(l)' => Promised(l)'
      BY <1>1, <1>3, <2>1, LoadStarts DEF Promised
    <3>2. ~PanelShown' BY <2>1, LoadStarts DEF PanelShown
    <3>3. sync' # NoSync => sync'.of # AllAccounts /\ ~AccountChosen' BY <1>1, <1>2 DEF UsageKept, AccountChosen
    <3> QED BY <3>1, <3>2, <3>3 DEF UsageKept
  <2> QED BY <1>1, <2>1, <2>2, <2>3, <2>4, <2>5, LoadStarts DEF UsageInv
<1>4. CASE ~(a # AllAccounts /\ ready)
  <2>1. UNCHANGED <<uSeq, uLoading, loads>> BY <1>4 DEF ChooseAccount
  <2>2. ready /\ a = AllAccounts
    BY <1>1, <1>2, <1>4 DEF Unready
  <2>3. UsageTyped' BY <1>1, <1>2, <2>1 DEF UsageTyped
  <2>4. LoadsNumbered' BY <1>2, <2>1 DEF LoadsNumbered
  <2>5. Spinning' BY <1>1, <1>2, <2>1 DEF Spinning, PanelShown, Current
  <2>6. Unready' BY <1>1, <2>2 DEF Unready
  <2>7. \A l \in loads : ~Current(l) BY <1>1, <1>2 DEF Spinning, PanelShown
  <2>8. UsageKept' BY <1>1, <1>2, <2>1, <2>2, <2>7 DEF UsageKept, AccountChosen, Current
  <2> QED BY <1>1, <2>3, <2>4, <2>5, <2>6, <2>8 DEF UsageInv
<1> QED BY <1>3, <1>4

LEMMA RunSyncStep ==
    ASSUME UsageInv, RunSync PROVE UsageInv'
<1>1. /\ at = "page" /\ at' = at /\ PanelShown /\ ~syncing
      /\ UNCHANGED <<onServer, accountId, ready, uLoading, uSeq, loads, records, uShown, crossed>>
  BY DEF RunSync, Click
<1>2. UsageTyped /\ LoadsNumbered /\ Spinning /\ Unready /\ UsageKept BY <1>1 DEF UsageInv
<1>3. \A l \in loads : ~Current(l) BY <1>1, <1>2 DEF Spinning, PanelShown
<1>4. LoadsNumbered' BY <1>1, <1>2 DEF LoadsNumbered
<1>5. CASE accountId = AllAccounts
  <2>1. uError' = TRUE /\ UNCHANGED <<syncing, sync>> BY <1>5 DEF RunSync
  <2>2. UsageTyped' /\ Unready' BY <1>1, <1>2, <2>1 DEF UsageTyped, Unready, PanelShown
  <2>3. Spinning' BY <1>1, <1>2, <2>1 DEF Spinning, PanelShown, Current
  <2>4. UsageKept' BY <1>1, <1>2, <1>3, <2>1 DEF UsageKept, AccountChosen, PanelShown, Current
  <2> QED BY <1>1, <1>4, <2>2, <2>3, <2>4 DEF UsageInv
<1>6. CASE accountId # AllAccounts
  <2>1. syncing' = TRUE /\ sync' = [of |-> accountId, load |-> 0] /\ uError' = uError
    BY <1>6 DEF RunSync
  <2>2. sync' \in Sync /\ sync' # NoSync /\ sync'.of = accountId
    BY <1>2, <1>6, <2>1 DEF UsageTyped, Sync, NoSync
  <2>3. ready BY <1>2, <1>6 DEF Unready
  <2>4. UsageTyped' /\ Unready' BY <1>1, <1>2, <2>2, <2>3 DEF UsageTyped, Unready
  <2>5. Spinning' BY <1>1, <1>2, <2>1, <2>2 DEF Spinning, PanelShown, Current
  <2>6. UsageKept' BY <1>1, <1>2, <1>3, <1>6, <2>1, <2>2 DEF UsageKept, AccountChosen, PanelShown, Current
  <2> QED BY <1>1, <1>4, <2>4, <2>5, <2>6 DEF UsageInv
<1> QED BY <1>5, <1>6

LEMMA LoadDroppedStep ==
    ASSUME UsageInv, NEW l \in loads, LoadDropped(l) PROVE UsageInv'
<1>1. /\ at = "page" /\ at' = at /\ ~Current(l) /\ EndLoad(l)
      /\ UNCHANGED <<onServer, accountId, ready, uLoading, uError, uSeq, records, uShown, crossed>>
  BY DEF LoadDropped, Arrives, pageVars
<1>2. UsageTyped /\ LoadsNumbered /\ Spinning /\ Unready /\ UsageKept BY <1>1 DEF UsageInv
<1>3. /\ loads' = loads \ {l} /\ LoadsNumbered' /\ sync' \in Sync /\ (sync' # NoSync => sync' = sync)
  BY <1>1, LoadEnds
<1>4. syncing' <=> sync' # NoSync BY <1>1, <1>2 DEF EndLoad, Spinning
<1>5. UsageTyped' BY <1>1, <1>2, <1>3 DEF UsageTyped
<1>6. uLoading' <=> \E m \in loads' : Current(m)' BY <1>1, <1>2, <1>3 DEF Spinning, Current
<1>7. Spinning' BY <1>1, <1>2, <1>4, <1>6 DEF Spinning, PanelShown
<1>8. Unready' BY <1>1, <1>2, <1>3 DEF Unready, PanelShown
<1>9. \A m \in loads' : Current(m)' => Promised(m)' BY <1>1, <1>2, <1>3 DEF UsageKept, Current, Promised, AccountChosen
<1>10. UsageKept' BY <1>1, <1>2, <1>3, <1>9 DEF UsageKept, AccountChosen, PanelShown
<1> QED BY <1>1, <1>3, <1>5, <1>7, <1>8, <1>10 DEF UsageInv

(* What a load brings or chooses. *)
LEMMA AccountsArriveStep ==
    ASSUME UsageInv, NEW l \in loads, AccountsArrive(l) PROVE UsageInv'
<1>1. PICK resolved : resolved = IF l.for # AllAccounts THEN l.for ELSE FirstOf(onServer) OBVIOUS
<1>2. /\ at = "page" /\ at' = at /\ Current(l) /\ l.awaits = "accounts"
      /\ accountId' = IF l.for = AllAccounts THEN resolved ELSE accountId
      /\ ready' = (ready \/ resolved # AllAccounts)
      /\ loads' = (loads \ {l}) \cup {[l EXCEPT !.awaits = "usage", !.asked = resolved]}
      /\ UNCHANGED <<onServer, uLoading, uError, syncing, uSeq, sync, records, uShown, crossed>>
  BY <1>1 DEF AccountsArrive, Arrives, pageVars
<1>3. UsageTyped /\ LoadsNumbered /\ Spinning /\ Unready /\ UsageKept BY <1>2 DEF UsageInv
<1>4. l \in Load /\ uSeq \in Nat /\ onServer \in SUBSET Accounts BY <1>3 DEF UsageTyped
<1>5. /\ resolved \in AccountIds
      /\ l.for = AllAccounts /\ onServer # {} => resolved \in onServer /\ resolved # AllAccounts
      /\ l.for # AllAccounts => resolved = l.for
  BY <1>1, <1>4, FirstOfType DEF Load
<1>6. PICK m : m = [l EXCEPT !.awaits = "usage", !.asked = resolved] OBVIOUS
<1>7. m \in Load /\ m.seq = l.seq /\ m.awaits = "usage" /\ m.asked = resolved /\ m.for = l.for
  BY <1>4, <1>5, <1>6 DEF Load
<1>8. loads' = (loads \ {l}) \cup {m} BY <1>2, <1>6
<1>9. Promised(l) BY <1>2, <1>3 DEF UsageKept
<1>10. \A k \in loads : k # l => ~Current(k) BY <1>2, <1>3 DEF LoadsNumbered, Current
<1>11. uLoading /\ ~PanelShown BY <1>2, <1>3 DEF Spinning, PanelShown
<1>12. ~PanelShown' BY <1>2, <1>11 DEF PanelShown
<1>13. UsageTyped'
  <2>1. loads' \subseteq Load BY <1>3, <1>7, <1>8 DEF UsageTyped
  <2>2. accountId' \in AccountIds BY <1>2, <1>3, <1>5 DEF UsageTyped
  <2> QED BY <1>2, <1>3, <2>1, <2>2 DEF UsageTyped
<1>14. LoadsNumbered'
  <2>1. \A k \in loads' : k.seq \in 1 .. uSeq BY <1>3, <1>7, <1>8 DEF LoadsNumbered
  <2>2. \A k, n \in loads' : k.seq = n.seq => k = n BY <1>3, <1>7, <1>8 DEF LoadsNumbered
  <2> QED BY <1>2, <2>1, <2>2 DEF LoadsNumbered
<1>15. Spinning'
  <2>1. m \in loads' /\ m.seq = uSeq' BY <1>2, <1>7, <1>8 DEF Current
  <2>2. \E k \in loads' : Current(k)' BY <2>1 DEF Current
  <2> QED BY <1>2, <1>3, <1>11, <1>12, <2>2 DEF Spinning
<1>16. ~ready' => ~ready /\ resolved = AllAccounts BY <1>2
<1>17. Unready'
  <2>1. ~ready' => accountId' = AllAccounts BY <1>2, <1>3, <1>16 DEF Unready
  <2>2. ~ready' => sync' = NoSync BY <1>2, <1>3, <1>16 DEF Unready
  <2> QED BY <1>12, <2>1, <2>2 DEF Unready
<1>18. ~ready' => onServer' = {}
  <2>1. ~ready' => l.for = AllAccounts BY <1>5, <1>16
  <2> QED BY <1>2, <1>5, <1>16, <2>1
<1>19. AccountChosen' => resolved = accountId'
  <2>1. CASE l.for = AllAccounts BY <1>2, <2>1
  <2>2. CASE l.for # AllAccounts
    <3>1. accountId' = accountId /\ crossed' = crossed BY <1>2, <2>2
    <3>2. AccountChosen' => AccountChosen BY <3>1 DEF AccountChosen
    <3> QED BY <1>2, <1>5, <1>9, <2>2, <3>1, <3>2 DEF Promised
  <2> QED BY <2>1, <2>2
<1>20. Promised(m)' BY <1>7, <1>18, <1>19 DEF Promised
<1>21. \A k \in loads' : Current(k)' => k = m BY <1>2, <1>8, <1>10 DEF Current
<1>22. sync' # NoSync => sync'.of # AllAccounts /\ (AccountChosen' => sync'.of = accountId')
  <2> SUFFICES ASSUME sync # NoSync PROVE sync.of # AllAccounts /\ (AccountChosen' => sync.of = accountId')
    BY <1>2
  <2>1. ready BY <1>3 DEF Unready
  <2>2. l.for # AllAccounts BY <1>2, <1>9, <2>1 DEF Promised
  <2>3. accountId' = accountId /\ crossed' = crossed BY <1>2, <2>2
  <2> QED BY <1>3, <2>3 DEF UsageKept, AccountChosen
<1>23. UsageKept' BY <1>12, <1>20, <1>21, <1>22 DEF UsageKept
<1> QED BY <1>13, <1>14, <1>15, <1>17, <1>23 DEF UsageInv

LEMMA UsageStep ==
    ASSUME UsageInv, NEW l \in loads, UsageArrives(l) PROVE UsageInv'
<1>1. /\ at = "page" /\ at' = at /\ Current(l) /\ l.awaits = "usage" /\ EndLoad(l)
      /\ records' = l.asked /\ uShown' = l.seq /\ uError' = FALSE /\ uLoading' = FALSE
      /\ UNCHANGED <<onServer, accountId, ready, uSeq, crossed>>
  BY DEF UsageArrives, Arrives, pageVars
<1>2. UsageTyped /\ LoadsNumbered /\ Spinning /\ Unready /\ UsageKept BY <1>1 DEF UsageInv
<1>3. /\ loads' = loads \ {l} /\ LoadsNumbered' /\ sync' \in Sync /\ (sync' # NoSync => sync' = sync)
  BY <1>1, LoadEnds
<1>4. syncing' <=> sync' # NoSync BY <1>1, <1>2 DEF EndLoad, Spinning
<1>5. l \in Load /\ uSeq \in Nat BY <1>2 DEF UsageTyped
<1>6. UsageTyped' BY <1>1, <1>2, <1>3, <1>5 DEF UsageTyped, Load
<1>7. \A m \in loads' : ~Current(m)' BY <1>1, <1>2, <1>3 DEF LoadsNumbered, Current
<1>8. Spinning' BY <1>1, <1>4, <1>7 DEF Spinning, Current
<1>9. Promised(l) BY <1>1, <1>2 DEF UsageKept
<1>10. Unready' BY <1>1, <1>2, <1>3, <1>9 DEF Unready, Promised
<1>11. AccountChosen' => AccountChosen BY <1>1 DEF AccountChosen
<1>12. sync' # NoSync => sync'.of # AllAccounts /\ (AccountChosen' => sync'.of = accountId')
  BY <1>1, <1>2, <1>3, <1>11 DEF UsageKept
<1>13. AccountChosen' => records' = accountId' BY <1>1, <1>9, <1>11 DEF Promised
<1>14. UsageKept' BY <1>7, <1>12, <1>13 DEF UsageKept
<1> QED BY <1>3, <1>6, <1>8, <1>10, <1>14 DEF UsageInv

LEMMA LoadFailsStep ==
    ASSUME UsageInv, NEW l \in loads, LoadFails(l) PROVE UsageInv'
<1>1. /\ at = "page" /\ Current(l) /\ EndLoad(l) /\ uLoading' = FALSE
      /\ UNCHANGED <<onServer, accountId, ready, uSeq, records, uShown, crossed>>
      /\ at' = "page" => uError' = TRUE
  BY DEF LoadFails, Fails, SignsOut, Fault
<1>2. UsageTyped /\ LoadsNumbered /\ Spinning /\ Unready /\ UsageKept BY <1>1 DEF UsageInv
<1>3. /\ loads' = loads \ {l} /\ LoadsNumbered' /\ sync' \in Sync /\ (sync' # NoSync => sync' = sync)
  BY <1>1, LoadEnds
<1>4. UsageTyped' BY <1>1, <1>2, <1>3 DEF UsageTyped
<1>5. syncing' <=> sync' # NoSync BY <1>1, <1>2 DEF EndLoad, Spinning
<1>6. \A m \in loads' : ~Current(m)' BY <1>1, <1>2, <1>3 DEF LoadsNumbered, Current
<1>7. at' = "page" => ~PanelShown' BY <1>1 DEF PanelShown
<1>8. at' = "page" => Spinning' BY <1>1, <1>5, <1>6, <1>7 DEF Spinning
<1>9. at' = "page" => Unready' BY <1>1, <1>2, <1>3, <1>7 DEF Unready
<1>10. at' = "page" => UsageKept' BY <1>1, <1>2, <1>3, <1>6, <1>7 DEF UsageKept, AccountChosen
<1> QED BY <1>3, <1>4, <1>8, <1>9, <1>10 DEF UsageInv

LEMMA SyncDoneStep == ASSUME UsageInv, SyncDone PROVE UsageInv'
<1>1. /\ at = "page" /\ at' = at /\ sync # NoSync /\ StartLoad(sync.of, loads)
      /\ sync' = [sync EXCEPT !.load = uSeq + 1]
      /\ UNCHANGED <<onServer, accountId, ready, syncing, records, uShown, crossed>>
  BY DEF SyncDone, Syncing, Arrives, pageVars
<1>2. UsageTyped /\ LoadsNumbered /\ Spinning /\ Unready /\ UsageKept BY <1>1 DEF UsageInv
<1>3. sync \in Sync /\ sync.of \in AccountIds /\ uSeq + 1 \in Nat BY <1>2 DEF UsageTyped, Sync
<1>4. sync' \in Sync /\ sync'.of = sync.of BY <1>1, <1>3 DEF Sync
<1>5. sync.of # AllAccounts /\ (AccountChosen => sync.of = accountId) BY <1>1, <1>2 DEF UsageKept
<1>6. sync' # NoSync BY <1>4, <1>5 DEF NoSync
<1>7. /\ uSeq' \in Nat /\ uLoading' = TRUE /\ loads' \subseteq Load /\ LoadsNumbered'
      /\ \E l \in loads' : Current(l)'
      /\ \A l \in loads' : Current(l)' => l.for = sync.of /\ l.awaits = "accounts"
  BY <1>1, <1>3, LoadStarts
<1>8. UsageTyped' BY <1>1, <1>2, <1>4, <1>7 DEF UsageTyped
<1>9. ~PanelShown' BY <1>7 DEF PanelShown
<1>10. Spinning' BY <1>1, <1>2, <1>6, <1>7, <1>9 DEF Spinning
<1>11. ready BY <1>1, <1>2 DEF Unready
<1>12. Unready' BY <1>1, <1>11 DEF Unready
<1>13. AccountChosen' => AccountChosen BY <1>1 DEF AccountChosen
<1>14. \A l \in loads' : Current(l)' => Promised(l)' BY <1>1, <1>5, <1>7, <1>11, <1>13 DEF Promised
<1>15. UsageKept' BY <1>1, <1>4, <1>5, <1>9, <1>13, <1>14 DEF UsageKept
<1> QED BY <1>7, <1>8, <1>10, <1>12, <1>15 DEF UsageInv

LEMMA SyncFailsStep == ASSUME UsageInv, SyncFails PROVE UsageInv'
<1>1. /\ at = "page" /\ sync' = NoSync /\ syncing' = FALSE
      /\ UNCHANGED <<onServer, accountId, ready, uLoading, uSeq, loads, records, uShown, crossed>>
      /\ at' = "page" => uError' = TRUE
  BY DEF SyncFails, Fails, SignsOut, Fault
<1>2. UsageTyped /\ LoadsNumbered /\ Spinning /\ Unready /\ UsageKept BY <1>1 DEF UsageInv
<1>3. NoSync \in Sync BY DEF NoSync, Sync, AccountIds
<1>4. UsageTyped' BY <1>1, <1>2, <1>3 DEF UsageTyped
<1>5. LoadsNumbered' BY <1>1, <1>2 DEF LoadsNumbered
<1>6. at' = "page" => ~PanelShown' BY <1>1 DEF PanelShown
<1>7. at' = "page" => Spinning' BY <1>1, <1>2, <1>6 DEF Spinning, Current
<1>8. at' = "page" => Unready' BY <1>1, <1>2, <1>6 DEF Unready
<1>9. \A l \in loads : Current(l) => Promised(l)' BY <1>1, <1>2 DEF UsageKept, Promised, AccountChosen
<1>10. at' = "page" => UsageKept' BY <1>1, <1>6, <1>9 DEF UsageKept, Current
<1> QED BY <1>4, <1>5, <1>7, <1>8, <1>10 DEF UsageInv

LEMMA UsageNextInv == UsageInv /\ [UsageNext]_<<pageVars, usageVars>> => UsageInv'
<1> SUFFICES ASSUME UsageInv, [UsageNext]_<<pageVars, usageVars>> PROVE UsageInv' OBVIOUS
<1>1. CASE UsageNext
  BY <1>1, ChooseStep, RunSyncStep, SyncDoneStep, SyncFailsStep, LoadDroppedStep, AccountsArriveStep, UsageStep,
     LoadFailsStep DEF UsageNext
<1>2. CASE UNCHANGED <<pageVars, usageVars>>
  BY <1>2 DEF pageVars, usageVars, UsageInv, UsageTyped, LoadsNumbered, Spinning, Unready, UsageKept, Promised, AccountChosen,
              Current, PanelShown
<1> QED BY <1>1, <1>2

(***************************************************************************)
(* Whatever accounts there are and however often one is chosen, a panel at *)
(* rest shows the newest load's answer for the account in the selector     *)
(* (load() and the account's effect of LogsPage.tsx).                      *)
(***************************************************************************)
THEOREM UsageIsCorrect == UsageSpec => []UsageIsCurrent
<1>1. UsageInv => UsageIsCurrent
  BY DEF UsageInv, UsageIsCurrent, Spinning, UsageKept, AccountChosen
<1> QED BY <1>1, UsageInitInv, UsageNextInv, PTL DEF UsageSpec

(***************************************************************************)
(* The overview.  The newest load in flight was started for the range in   *)
(* the picker, and once its overview is there the page shows that range's  *)
(* window (OnTheWay); with none in flight, no error and no banner, its     *)
(* series are there too (OverviewAtRest).                                  *)
(***************************************************************************)
FetchesTyped == range \in Ranges /\ oSeq \in Nat /\ oLoads \subseteq Fetch

FetchesNumbered ==
    /\ \A f \in oLoads : f.seq \in 1 .. oSeq
    /\ \A f, g \in oLoads : f.seq = g.seq => f = g

OnTheWay ==
    \A f \in oLoads : Newest(f) =>
        /\ f.range = range
        /\ f.awaits = "series" => data = NearestOpsWindow(range)

OverviewAtRest ==
    ~Loading /\ ~oError /\ ~softError =>
        data = NearestOpsWindow(range) /\ {logs, usage} \subseteq {range, NoRange}

OverviewInv == FetchesTyped /\ FetchesNumbered /\ (at = "page" => OnTheWay /\ OverviewAtRest /\ (oLoading => Loading))

LEMMA NewFetchType ==
    ASSUME NEW n \in Nat, NEW r \in Ranges, NEW soft \in BOOLEAN
    PROVE  /\ NewFetch(n, r, soft) \in Fetch
           /\ NewFetch(n, r, soft).seq = n /\ NewFetch(n, r, soft).range = r
           /\ NewFetch(n, r, soft).awaits = "overview"
  BY DEF NewFetch, Fetch

LEMMA OverviewInitInv == InitPage /\ OverviewInit => OverviewInv
<1> SUFFICES ASSUME InitPage, OverviewInit PROVE OverviewInv OBVIOUS
<1>1. FirstRange \in Ranges BY OverviewAssumption
<1>2. PICK f \in Fetch : f = NewFetch(1, FirstRange, FALSE) BY <1>1, NewFetchType
<1>3. f.seq = 1 /\ f.range = FirstRange /\ f.awaits = "overview" BY <1>1, <1>2, NewFetchType
<1>4. oLoads = {f} /\ oSeq = 1 /\ range = FirstRange BY <1>2 DEF OverviewInit
<1>5. FetchesTyped BY <1>1, <1>4 DEF FetchesTyped
<1>6. FetchesNumbered BY <1>3, <1>4 DEF FetchesNumbered
<1>7. Loading BY <1>3, <1>4 DEF Loading, Newest
<1>8. OnTheWay BY <1>3, <1>4 DEF OnTheWay
<1> QED BY <1>5, <1>6, <1>7, <1>8 DEF OverviewInv, OverviewAtRest

(***************************************************************************)
(* Steps.                                                                  *)
(***************************************************************************)
(* A load that starts is the newest one, for the range the picker has then. *)
LEMMA FetchStartStep ==
    ASSUME OverviewInv, range' \in Ranges, NEW soft \in BOOLEAN, StartFetch(range', soft)
    PROVE  OverviewInv'
<1>1. oSeq \in Nat /\ oSeq + 1 \in Nat BY DEF OverviewInv, FetchesTyped
<1>2. PICK f \in Fetch : f = NewFetch(oSeq + 1, range', soft) BY <1>1, NewFetchType
<1>3. f.seq = oSeq + 1 /\ f.range = range' /\ f.awaits = "overview" BY <1>1, <1>2, NewFetchType
<1>4. oSeq' = oSeq + 1 /\ oLoads' = oLoads \cup {f} BY <1>2 DEF StartFetch
<1>5. \A g \in oLoads : g.seq \in 1 .. oSeq BY DEF OverviewInv, FetchesNumbered
<1>6. FetchesTyped' BY <1>1, <1>4 DEF OverviewInv, FetchesTyped
<1>7. FetchesNumbered'
  <2>1. \A g \in oLoads' : g.seq \in 1 .. oSeq + 1 BY <1>1, <1>3, <1>4, <1>5
  <2>2. \A g, h \in oLoads' : g.seq = h.seq => g = h
    BY <1>1, <1>3, <1>4, <1>5 DEF OverviewInv, FetchesNumbered
  <2> QED BY <1>4, <2>1, <2>2 DEF FetchesNumbered
<1>8. \A g \in oLoads' : Newest(g)' => g = f BY <1>1, <1>3, <1>4, <1>5 DEF Newest
<1>9. OnTheWay' BY <1>3, <1>8 DEF OnTheWay
<1>10. f \in oLoads' /\ f.seq = oSeq' BY <1>3, <1>4
<1>11. Loading' BY <1>10 DEF Loading, Newest
<1> QED BY <1>6, <1>7, <1>9, <1>11 DEF OverviewInv, OverviewAtRest

(* The three clicks that start one. *)
LEMMA OverviewClickStep ==
    ASSUME OverviewInv, (\E r \in Ranges : ChooseRange(r)) \/ RefreshSoftly \/ Retry
    PROVE  OverviewInv'
<1>1. range \in Ranges BY DEF OverviewInv, FetchesTyped
<1>2. CASE \E r \in Ranges : ChooseRange(r)
  <2>1. range' \in Ranges /\ StartFetch(range', TRUE) BY <1>2 DEF ChooseRange
  <2> QED BY <2>1, FetchStartStep
<1>3. CASE RefreshSoftly
  <2>1. range' \in Ranges /\ StartFetch(range', TRUE) BY <1>1, <1>3 DEF RefreshSoftly
  <2> QED BY <2>1, FetchStartStep
<1>4. CASE Retry
  <2>1. range' \in Ranges /\ StartFetch(range', FALSE) BY <1>1, <1>4 DEF Retry
  <2> QED BY <2>1, FetchStartStep
<1> QED BY <1>2, <1>3, <1>4

(* A load that ends was alone in being the newest. *)
LEMMA FetchEnds ==
    ASSUME OverviewInv, NEW f \in oLoads, oLoads' = oLoads \ {f}, oSeq' = oSeq, range' = range
    PROVE  /\ FetchesTyped' /\ FetchesNumbered'
           /\ Newest(f) => \A g \in oLoads' : ~Newest(g)'
<1>1. FetchesTyped' BY DEF OverviewInv, FetchesTyped
<1>2. FetchesNumbered' BY DEF OverviewInv, FetchesNumbered
<1>3. Newest(f) => \A g \in oLoads' : ~Newest(g)' BY DEF OverviewInv, FetchesNumbered, Newest
<1> QED BY <1>1, <1>2, <1>3

LEMMA FetchDroppedStep ==
    ASSUME OverviewInv, NEW f \in oLoads, FetchDropped(f) PROVE OverviewInv'
<1>1. /\ at = "page" /\ ~Newest(f) /\ oLoads' = oLoads \ {f}
      /\ UNCHANGED <<range, data, logs, usage, oLoading, oError, softError, oSeq>>
  BY DEF FetchDropped, Arrives
<1>2. FetchesTyped' /\ FetchesNumbered' BY <1>1, FetchEnds
<1>3. OnTheWay /\ OverviewAtRest /\ (oLoading => Loading) BY <1>1 DEF OverviewInv
<1>4. Loading' <=> Loading BY <1>1 DEF Loading, Newest
<1>5. OnTheWay' BY <1>1, <1>3 DEF OnTheWay, Newest
<1>6. OverviewAtRest' BY <1>1, <1>3, <1>4 DEF OverviewAtRest
<1> QED BY <1>1, <1>2, <1>3, <1>4, <1>5, <1>6 DEF OverviewInv

LEMMA OverviewArriveStep ==
    ASSUME OverviewInv, NEW f \in oLoads, OverviewArrives(f) PROVE OverviewInv'
<1>1. /\ at = "page" /\ Newest(f)
      /\ data' = NearestOpsWindow(f.range)
      /\ oLoads' = (oLoads \ {f}) \cup {[f EXCEPT !.awaits = "series"]}
      /\ UNCHANGED <<range, logs, usage, oLoading, oSeq>>
  BY DEF OverviewArrives, Arrives
<1>2. FetchesTyped /\ FetchesNumbered /\ OnTheWay BY <1>1 DEF OverviewInv
<1>3. f \in Fetch /\ oSeq \in Nat BY <1>2 DEF FetchesTyped
<1>4. PICK g : g = [f EXCEPT !.awaits = "series"] OBVIOUS
<1>5. g \in Fetch /\ g.seq = f.seq /\ g.range = f.range BY <1>3, <1>4 DEF Fetch
<1>6. oLoads' = (oLoads \ {f}) \cup {g} BY <1>1, <1>4
<1>7. \A h \in oLoads : h # f => ~Newest(h) BY <1>1, <1>2 DEF FetchesNumbered, Newest
<1>8. FetchesTyped' BY <1>1, <1>2, <1>5, <1>6 DEF FetchesTyped
<1>9. FetchesNumbered'
  <2>1. \A h \in oLoads' : h.seq \in 1 .. oSeq BY <1>2, <1>5, <1>6 DEF FetchesNumbered
  <2>2. \A h, k \in oLoads' : h.seq = k.seq => h = k BY <1>2, <1>5, <1>6 DEF FetchesNumbered
  <2> QED BY <1>1, <2>1, <2>2 DEF FetchesNumbered
<1>10. \A h \in oLoads' : Newest(h)' => h = g BY <1>1, <1>6, <1>7 DEF Newest
<1>11. f.range = range BY <1>1, <1>2 DEF OnTheWay
<1>12. data' = NearestOpsWindow(range)' BY <1>1, <1>11 DEF NearestOpsWindow, OpsWindowForRange
<1>13. OnTheWay' BY <1>1, <1>5, <1>10, <1>11, <1>12 DEF OnTheWay
<1>14. g \in oLoads' /\ g.seq = oSeq' BY <1>1, <1>5, <1>6 DEF Newest
<1>15. Loading' BY <1>14 DEF Loading, Newest
<1> QED BY <1>8, <1>9, <1>13, <1>15 DEF OverviewInv, OverviewAtRest

LEMMA SettleStep ==
    ASSUME OverviewInv, NEW f \in oLoads, SeriesSettle(f) PROVE OverviewInv'
<1>1. PICK gotLogs, gotUsage \in BOOLEAN :
        /\ at = "page" /\ Newest(f) /\ f.awaits = "series"
        /\ logs' = Settled(f, gotLogs, logs) /\ usage' = Settled(f, gotUsage, usage)
        /\ softError' = (softError \/ (f.soft /\ ~(gotLogs /\ gotUsage)))
        /\ oLoading' = FALSE /\ oLoads' = oLoads \ {f}
        /\ UNCHANGED <<range, data, oError, oSeq>>
  BY DEF SeriesSettle, Arrives, Fails, Fault
<1>2. FetchesTyped' /\ FetchesNumbered' /\ \A g \in oLoads' : ~Newest(g)' BY <1>1, FetchEnds
<1>3. f.range = range /\ data = NearestOpsWindow(range) BY <1>1 DEF OverviewInv, OnTheWay
<1>4. OnTheWay' BY <1>2 DEF OnTheWay
<1>5. ~softError' => {logs', usage'} \subseteq {range, NoRange}
  <2> SUFFICES ASSUME ~softError' PROVE {logs', usage'} \subseteq {range, NoRange} OBVIOUS
  <2>1. ~f.soft \/ (gotLogs /\ gotUsage) BY <1>1
  <2>2. logs' \in {range, NoRange} BY <1>1, <1>3, <2>1 DEF Settled
  <2>3. usage' \in {range, NoRange} BY <1>1, <1>3, <2>1 DEF Settled
  <2> QED BY <2>2, <2>3
<1>6. data' = NearestOpsWindow(range)' BY <1>1, <1>3 DEF NearestOpsWindow, OpsWindowForRange
<1>7. OverviewAtRest' BY <1>1, <1>5, <1>6 DEF OverviewAtRest
<1> QED BY <1>1, <1>2, <1>4, <1>7 DEF OverviewInv

LEMMA OverviewFailStep ==
    ASSUME OverviewInv, NEW f \in oLoads, OverviewFails(f) PROVE OverviewInv'
<1>1. /\ Newest(f) /\ oLoading' = FALSE /\ oLoads' = oLoads \ {f}
      /\ UNCHANGED <<range, data, logs, usage, oSeq>>
      /\ at' = "page" => oError' \/ softError'
  BY DEF OverviewFails, SignsOut, Fault
<1>2. FetchesTyped' /\ FetchesNumbered' /\ \A g \in oLoads' : ~Newest(g)' BY <1>1, FetchEnds
<1>3. OnTheWay' BY <1>2 DEF OnTheWay
<1>4. at' = "page" => OverviewAtRest' BY <1>1 DEF OverviewAtRest
<1> QED BY <1>1, <1>2, <1>3, <1>4 DEF OverviewInv

LEMMA OverviewNextInv == OverviewInv /\ [OverviewNext]_<<pageVars, overviewVars>> => OverviewInv'
<1> SUFFICES ASSUME OverviewInv, [OverviewNext]_<<pageVars, overviewVars>> PROVE OverviewInv' OBVIOUS
<1>1. CASE OverviewNext
  BY <1>1, OverviewClickStep, FetchDroppedStep, OverviewArriveStep, SettleStep, OverviewFailStep DEF OverviewNext
<1>2. CASE UNCHANGED <<pageVars, overviewVars>>
  BY <1>2 DEF pageVars, overviewVars, OverviewInv, FetchesTyped, FetchesNumbered, OnTheWay, OverviewAtRest, Loading, Newest,
              NearestOpsWindow, OpsWindowForRange
<1> QED BY <1>1, <1>2

(***************************************************************************)
(* Whatever ranges there are and however fast they are chosen, a page at   *)
(* rest shows the range in the picker (load() and its effect on dateRange  *)
(* in OverviewPage.tsx).                                                   *)
(***************************************************************************)
THEOREM OverviewIsCorrect == OverviewSpec => []OverviewShowsRange
<1>1. OverviewInv => OverviewShowsRange BY DEF OverviewInv, OverviewAtRest, OverviewShowsRange
<1> QED BY <1>1, OverviewInitInv, OverviewNextInv, PTL DEF OverviewSpec

(* The skeleton is up only while the newest load is in flight: a load that *)
(* is overtaken never has to take it down (the finally of load()).         *)
THEOREM SpinnerIsBacked == OverviewSpec => []OverviewSpinnerBacked
<1>1. OverviewInv => OverviewSpinnerBacked BY DEF OverviewInv, OverviewSpinnerBacked
<1> QED BY <1>1, OverviewInitInv, OverviewNextInv, PTL DEF OverviewSpec

(***************************************************************************)
(* The settings.  Every policy that moves between the form and the server  *)
(* is within bounds (PoliciesGood), so that patchSettings never stops half *)
(* way and the page's clamping changes nothing; what has been read since   *)
(* the last store is what is in effect, field by field (ReadsCurrent); and *)
(* a PATCH that no other overlaps has its fields in effect as far as it    *)
(* has come (LoneInv).                                                     *)
(***************************************************************************)
GoodPolicy == [load : {"spread", "sticky"}, attempts : 2 .. 4, bench : 1 .. 60, proxy : BOOLEAN]

Good(call) == call.sent \in GoodPolicy /\ call.got \in GoodPolicy /\ (call.ans = "ok" => call.done = 8)

(* The first n fields of p are those of q. *)
Agree(p, q, n) ==
    /\ n >= 1 => p.load = q.load
    /\ n >= 2 => p.attempts = q.attempts
    /\ n >= 3 => p.bench = q.bench
    /\ n >= 4 => p.proxy = q.proxy

PoliciesGood ==
    /\ srv \in GoodPolicy /\ asked \in GoodPolicy /\ live \in GoodPolicy /\ draft \in GoodPolicy
    /\ sCall \in [Calls -> CallRecord]
    /\ \A c \in Calls : Good(sCall[c])

ReadsCurrent ==
    /\ sFresh => live = srv
    /\ \A c \in Calls : sCall[c].fresh => Agree(sCall[c].got, srv, sCall[c].done - 4)

(* The call of a PATCH that is half way. *)
Mid(call) == call.kind \in {"save", "elsewhere"} /\ call.ans = "none" /\ call.done \in 1 .. 3

LoneInv ==
    ~overlapped =>
      /\ (\A c \in Calls : ~Mid(sCall[c])) => srv = asked
      /\ \A c, d \in Calls : Mid(sCall[c]) /\ Mid(sCall[d]) => c = d
      /\ \A c \in Calls : Mid(sCall[c]) => asked = sCall[c].sent /\ Agree(srv, asked, sCall[c].done)

SettingsInv == PoliciesGood /\ ReadsCurrent /\ LoneInv

(* A good policy is a policy within the bounds of patchSettings. *)
LEMMA GoodIsValid ==
    ASSUME NEW p
    PROVE  p \in GoodPolicy <=> p \in Policy /\ Valid(p)
<1>1. Valid(p) <=> p.attempts \in 2 .. 4 /\ p.bench \in 1 .. 60
  BY DEF Valid, FieldValid, MinBenchMinutes, MaxBenchMinutes
<1> QED BY <1>1 DEF GoodPolicy, Policy

(* Whatever is typed, the form holds a number of minutes from 1 to 60. *)
LEMMA BenchInBounds ==
    ASSUME NEW tenths \in Nat PROVE ClampBenchMinutes(tenths) \in 1 .. 60
<1>1. ASSUME tenths >= 10, tenths <= 600 PROVE (tenths + 5) \div 10 \in 1 .. 60
  BY <1>1, SMTT(30)
<1> QED BY <1>1 DEF ClampBenchMinutes, MinBenchMinutes, MaxBenchMinutes

LEMMA AttemptsInBounds ==
    ASSUME NEW n \in Nat PROVE ClampAttempts(n) \in 2 .. 4
  BY DEF ClampAttempts

(* Clamping an answer of the server changes nothing. *)
LEMMA SnapshotOfGood ==
    ASSUME NEW p \in GoodPolicy PROVE Snapshot(p) = p
<1>1. p.attempts \in 2 .. 4 /\ p.bench \in 1 .. 60 BY DEF GoodPolicy
<1>2. ClampAttempts(p.attempts) = p.attempts BY <1>1 DEF ClampAttempts
<1>3. (10 * p.bench + 5) \div 10 = p.bench BY <1>1, SMTT(30)
<1>4. ClampBenchMinutes(10 * p.bench) = p.bench
  BY <1>1, <1>3 DEF ClampBenchMinutes, MinBenchMinutes, MaxBenchMinutes
<1> QED BY <1>2, <1>4 DEF Snapshot, GoodPolicy

(* One field of a good policy put into another. *)
LEMMA TakingGood ==
    ASSUME NEW p \in GoodPolicy, NEW q \in GoodPolicy, NEW i \in 1 .. 4
    PROVE  Taking(p, i, q) \in GoodPolicy
  BY DEF Taking, GoodPolicy

LEMMA TakingAgrees ==
    ASSUME NEW p \in GoodPolicy, NEW q \in GoodPolicy, NEW n \in 0 .. 3, Agree(p, q, n)
    PROVE  Agree(Taking(p, n + 1, q), q, n + 1)
<1>1. n \in {0, 1, 2, 3} OBVIOUS
<1> QED BY <1>1 DEF Taking, Agree, GoodPolicy

LEMMA AgreeIsEqual ==
    ASSUME NEW p \in GoodPolicy, NEW q \in GoodPolicy, Agree(p, q, 4)
    PROVE  p = q
<1>1. p.load = q.load /\ p.attempts = q.attempts /\ p.bench = q.bench /\ p.proxy = q.proxy BY DEF Agree
<1> QED BY <1>1 DEF GoodPolicy

LEMMA DefaultIsGood == DefaultPolicy \in GoodPolicy
  BY DEF DefaultPolicy, GoodPolicy

LEMMA ElsewhereIsGood == Elsewhere \subseteq GoodPolicy
  BY SettingsAssumption, GoodIsValid

(* A call nothing has been done for yet. *)
LEMMA NewCallIsGood ==
    ASSUME NEW call \in CallRecord, call.sent \in GoodPolicy, call.got \in GoodPolicy,
           call.done \in {0, 4}, call.ans = "none", call.fresh = FALSE
    PROVE  Good(call) /\ ~Mid(call) /\ ~call.fresh
  BY DEF Good, Mid

(* The calls a page starts with, and those it sends. *)
LEMMA CallsAreGood ==
    ASSUME NEW kind \in {"load", "save", "password", "elsewhere"}, NEW p \in GoodPolicy
    PROVE  /\ Idle \in CallRecord /\ Good(Idle) /\ ~Mid(Idle) /\ ~Idle.fresh
           /\ LoadCall \in CallRecord /\ Good(LoadCall) /\ ~Mid(LoadCall) /\ ~LoadCall.fresh
           /\ LET call == [Idle EXCEPT !.kind = kind, !.sent = p]
              IN  call \in CallRecord /\ Good(call) /\ ~Mid(call) /\ ~call.fresh
           /\ LET call == [Idle EXCEPT !.kind = kind]
              IN  call \in CallRecord /\ Good(call) /\ ~Mid(call) /\ ~call.fresh
<1>1. p \in Policy /\ DefaultPolicy \in Policy /\ DefaultPolicy \in GoodPolicy
  BY DefaultIsGood, GoodIsValid
<1>2. /\ Idle \in CallRecord /\ Idle.sent = DefaultPolicy /\ Idle.got = DefaultPolicy
      /\ Idle.done = 0 /\ Idle.ans = "none" /\ Idle.fresh = FALSE
  BY <1>1 DEF Idle, CallRecord
<1>3. PICK load, sent, bare : /\ load = LoadCall /\ sent = [Idle EXCEPT !.kind = kind, !.sent = p]
                              /\ bare = [Idle EXCEPT !.kind = kind]
  OBVIOUS
<1>4. /\ load \in CallRecord /\ load.sent = DefaultPolicy /\ load.got = DefaultPolicy
      /\ load.done = 4 /\ load.ans = "none" /\ load.fresh = FALSE
  <2>1. PICK n \in 0 .. 8 : n = 4 OBVIOUS
  <2>2. load = [Idle EXCEPT !.kind = "load", !.done = n] BY <1>3, <2>1 DEF LoadCall
  <2>3. /\ load \in CallRecord /\ load.sent = Idle.sent /\ load.got = Idle.got
        /\ load.done = n /\ load.ans = Idle.ans /\ load.fresh = Idle.fresh
    BY <1>2, <2>2 DEF CallRecord
  <2> QED BY <1>2, <2>1, <2>3
<1>5. /\ sent \in CallRecord /\ sent.sent = p /\ sent.got = DefaultPolicy
      /\ sent.done = 0 /\ sent.ans = "none" /\ sent.fresh = FALSE
  BY <1>1, <1>2, <1>3 DEF CallRecord
<1>6. /\ bare \in CallRecord /\ bare.sent = DefaultPolicy /\ bare.got = DefaultPolicy
      /\ bare.done = 0 /\ bare.ans = "none" /\ bare.fresh = FALSE
  BY <1>2, <1>3 DEF CallRecord
<1>7. \A call \in {Idle, load, sent, bare} : Good(call) /\ ~Mid(call) /\ ~call.fresh
  BY <1>1, <1>2, <1>4, <1>5, <1>6, NewCallIsGood
<1> QED BY <1>2, <1>3, <1>4, <1>5, <1>6, <1>7, Zenon

LEMMA MidIs ==
    ASSUME sCall \in [Calls -> CallRecord], NEW c \in Calls
    PROVE  MidPatch(c) <=> Mid(sCall[c])
<1>1. sCall[c].done \in 0 .. 8 BY DEF CallRecord
<1> QED BY <1>1 DEF MidPatch, Stores, Mid

LEMMA SettingsInitInv == InitPage /\ SettingsInit => SettingsInv
<1> SUFFICES ASSUME InitPage, SettingsInit PROVE SettingsInv OBVIOUS
<1>1. srv \in GoodPolicy /\ asked = srv BY DefaultIsGood, ElsewhereIsGood DEF SettingsInit
<1>2. \A c \in Calls : sCall[c] \in {Idle, LoadCall} BY DEF SettingsInit
<1>3. /\ Idle \in CallRecord /\ Good(Idle) /\ ~Mid(Idle) /\ ~Idle.fresh
      /\ LoadCall \in CallRecord /\ Good(LoadCall) /\ ~Mid(LoadCall) /\ ~LoadCall.fresh
  BY DefaultIsGood, CallsAreGood
<1>4. sCall \in [Calls -> CallRecord] BY <1>3 DEF SettingsInit
<1>5. PoliciesGood BY <1>1, <1>2, <1>3, <1>4, DefaultIsGood DEF PoliciesGood, SettingsInit
<1>6. ReadsCurrent BY <1>2, <1>3 DEF ReadsCurrent, SettingsInit
<1>7. LoneInv BY <1>1, <1>2, <1>3 DEF LoneInv
<1> QED BY <1>5, <1>6, <1>7 DEF SettingsInv

(***************************************************************************)
(* Steps.                                                                  *)
(***************************************************************************)
(* No field is stored or read: calls are sent, end, or are given up.       *)
LEMMA QuietStep ==
    ASSUME SettingsInv, UNCHANGED <<srv, asked, overlapped>>,
           live' \in GoodPolicy, draft' \in GoodPolicy, sFresh' => live' = srv,
           sCall' \in [Calls -> CallRecord],
           \A c \in Calls :
             /\ Good(sCall'[c])
             /\ Mid(sCall'[c]) <=> Mid(sCall[c])
             /\ Mid(sCall[c]) => sCall'[c].sent = sCall[c].sent /\ sCall'[c].done = sCall[c].done
             /\ sCall'[c].fresh => /\ sCall[c].fresh /\ sCall'[c].got = sCall[c].got
                                   /\ sCall'[c].done = sCall[c].done
    PROVE  SettingsInv'
<1>1. PoliciesGood' BY DEF SettingsInv, PoliciesGood
<1>2. ReadsCurrent' BY DEF SettingsInv, ReadsCurrent
<1>3. LoneInv' BY DEF SettingsInv, LoneInv
<1> QED BY <1>1, <1>2, <1>3 DEF SettingsInv

(* The call in c becomes another that is not half way, nor was. *)
LEMMA CallStep ==
    ASSUME SettingsInv, UNCHANGED <<srv, asked, overlapped>>,
           live' \in GoodPolicy, draft' \in GoodPolicy, sFresh' => live' = srv,
           NEW c \in Calls, NEW call \in CallRecord, sCall' = [sCall EXCEPT ![c] = call],
           Good(call), ~Mid(call), ~Mid(sCall[c]), ~call.fresh
    PROVE  SettingsInv'
<1>1. sCall \in [Calls -> CallRecord] /\ \A d \in Calls : Good(sCall[d]) BY DEF SettingsInv, PoliciesGood
<1>2. /\ sCall' \in [Calls -> CallRecord] /\ sCall'[c] = call
      /\ \A d \in Calls \ {c} : sCall'[d] = sCall[d]
  BY <1>1
<1>3. ASSUME NEW d \in Calls
      PROVE  /\ Good(sCall'[d])
             /\ Mid(sCall'[d]) <=> Mid(sCall[d])
             /\ Mid(sCall[d]) => sCall'[d].sent = sCall[d].sent /\ sCall'[d].done = sCall[d].done
             /\ sCall'[d].fresh => /\ sCall[d].fresh /\ sCall'[d].got = sCall[d].got
                                   /\ sCall'[d].done = sCall[d].done
  <2>1. CASE d = c BY <1>2, <2>1
  <2>2. CASE d # c
    <3>1. sCall'[d] = sCall[d] BY <1>2, <2>2
    <3> QED BY <1>1, <3>1
  <2> QED BY <2>1, <2>2
<1> QED BY <1>2, <1>3, QuietStep

LEMMA IdleIsQuiet == Idle \in CallRecord /\ Good(Idle) /\ ~Mid(Idle) /\ ~Idle.fresh
  BY DefaultIsGood, CallsAreGood

LEMMA SettledStep ==
    ASSUME SettingsInv, NEW c \in Calls, Settle(c), ~Mid(sCall[c]), UNCHANGED <<srv, asked, overlapped>>,
           live' \in GoodPolicy, draft' \in GoodPolicy, sFresh' => live' = srv
    PROVE  SettingsInv'
  BY IdleIsQuiet, CallStep DEF Settle

LEMMA SentStep ==
    ASSUME SettingsInv, NEW c \in Calls, NEW call \in CallRecord,
           sCall[c] = Idle, sCall' = [sCall EXCEPT ![c] = call], Good(call), ~Mid(call), ~call.fresh,
           UNCHANGED <<srv, asked, overlapped, live, draft, sFresh>>
    PROVE  SettingsInv'
<1>1. live' \in GoodPolicy /\ draft' \in GoodPolicy /\ (sFresh' => live' = srv)
  BY DEF SettingsInv, PoliciesGood, ReadsCurrent
<1> QED BY <1>1, IdleIsQuiet, CallStep

(* patchSettings stores a field of a good policy: none is out of bounds.   *)
LEMMA StoreStep ==
    ASSUME SettingsInv, NEW c \in Calls, StoreField(c)
    PROVE  SettingsInv'
<1>1. PICK call \in CallRecord : call = sCall[c] BY DEF SettingsInv, PoliciesGood
<1>2. PICK i \in 1 .. 4 : i = call.done + 1
  <2>1. call.done \in 0 .. 8 BY DEF CallRecord
  <2> QED BY <1>1, <2>1 DEF StoreField, Stores
<1>3. call.sent \in GoodPolicy /\ FieldValid(i, call.sent) /\ Good(call)
  <2>1. call.sent \in GoodPolicy /\ Good(call) BY <1>1 DEF SettingsInv, PoliciesGood, Good
  <2> QED BY <2>1, GoodIsValid DEF Valid
<1>4. /\ call.kind \in {"save", "elsewhere"} /\ call.ans = "none" /\ call.done = i - 1
      /\ srv' = Taking(srv, i, call.sent)
      /\ asked' = IF i = 1 THEN call.sent ELSE asked
      /\ i = 1 => (overlapped' <=> \E d \in Calls : MidPatch(d))
      /\ i # 1 => overlapped' = overlapped
      /\ sFresh' = FALSE /\ UNCHANGED <<live, draft>>
  <2>1. call.kind \in {"save", "elsewhere"} /\ call.ans = "none" /\ call.done = i - 1
    BY <1>1, <1>2 DEF StoreField, Stores, CallRecord
  <2>2. /\ srv' = Taking(srv, i, call.sent)
        /\ asked' = IF i = 1 THEN call.sent ELSE asked
        /\ overlapped' = IF i = 1 THEN \E d \in Calls : MidPatch(d) ELSE overlapped
        /\ sFresh' = FALSE /\ UNCHANGED <<live, draft>>
    BY <1>1, <1>2, <1>3, Zenon DEF StoreField, PageWaits
  <2>3. /\ i = 1 => (overlapped' <=> \E d \in Calls : MidPatch(d))
        /\ i # 1 => overlapped' = overlapped
    BY <2>2, Zenon
  <2> QED BY <2>1, <2>2, <2>3
<1>5. PICK end \in {Idle, [call EXCEPT !.done = i]} :
         /\ sCall' = [Outdates EXCEPT ![c] = end]
         /\ i # 4 => end = [call EXCEPT !.done = i]
  BY <1>1, <1>2, <1>3, Zenon DEF StoreField
<1>6. /\ end \in CallRecord /\ Good(end) /\ (Mid(end) <=> i # 4)
      /\ i # 4 => end.sent = call.sent /\ end.done = i
      /\ end.done <= 4
  <2>1. CASE end = Idle BY <1>2, <1>5, <2>1, IdleIsQuiet DEF Mid, Idle, CallRecord
  <2>2. CASE end = [call EXCEPT !.done = i]
    <3>1. /\ end.kind = call.kind /\ end.sent = call.sent /\ end.done = i /\ end.ans = call.ans
          /\ end.got = call.got /\ end.fresh = call.fresh /\ end \in CallRecord
      BY <2>2 DEF CallRecord
    <3>2. Good(end) BY <1>3, <1>4, <3>1 DEF Good
    <3>3. Mid(end) <=> i # 4 BY <1>4, <3>1 DEF Mid
    <3> QED BY <3>1, <3>2, <3>3
  <2> QED BY <1>5, <2>1, <2>2
<1>7. sCall \in [Calls -> CallRecord] /\ \A d \in Calls : Good(sCall[d]) BY DEF SettingsInv, PoliciesGood
<1>8. sCall'[c] = end /\ \A d \in Calls \ {c} : sCall'[d] = [sCall[d] EXCEPT !.fresh = FALSE]
  BY <1>5 DEF Outdates
<1>9. ASSUME NEW d \in Calls \ {c}
      PROVE  /\ sCall'[d] \in CallRecord /\ Good(sCall'[d]) /\ ~sCall'[d].fresh
             /\ Mid(sCall'[d]) <=> Mid(sCall[d])
             /\ sCall'[d].sent = sCall[d].sent /\ sCall'[d].done = sCall[d].done
  <2>1. sCall[d] \in CallRecord /\ Good(sCall[d]) BY <1>7
  <2>2. PICK old, new : old = sCall[d] /\ new = sCall'[d] OBVIOUS
  <2>3. new = [old EXCEPT !.fresh = FALSE] BY <1>8, <2>2
  <2>4. /\ new \in CallRecord /\ ~new.fresh /\ new.kind = old.kind /\ new.ans = old.ans
        /\ new.sent = old.sent /\ new.got = old.got /\ new.done = old.done
    BY <2>1, <2>2, <2>3 DEF CallRecord
  <2>5. Good(new) BY <2>1, <2>2, <2>4 DEF Good
  <2>6. Mid(new) <=> Mid(old) BY <2>4 DEF Mid
  <2> QED BY <2>2, <2>4, <2>5, <2>6
<1>10. sCall' \in [Calls -> CallRecord]
  <2>1. sCall' = [d \in Calls |-> sCall'[d]] BY <1>5 DEF Outdates
  <2>2. \A d \in Calls : sCall'[d] \in CallRecord BY <1>6, <1>8, <1>9
  <2> QED BY <2>1, <2>2
<1>11. srv' \in GoodPolicy /\ asked' \in GoodPolicy
  BY <1>3, <1>4, TakingGood DEF SettingsInv, PoliciesGood
<1>12. PoliciesGood' BY <1>4, <1>6, <1>8, <1>9, <1>10, <1>11 DEF SettingsInv, PoliciesGood
<1>13. ReadsCurrent'
  <2>1. ASSUME NEW d \in Calls, sCall'[d].fresh PROVE Agree(sCall'[d].got, srv', sCall'[d].done - 4)
    <3>1. d = c BY <1>9, <2>1
    <3>2. end.done \in 0 .. 8 /\ end.done <= 4 BY <1>6 DEF CallRecord
    <3> QED BY <1>8, <3>1, <3>2 DEF Agree
  <2> QED BY <1>4, <2>1 DEF ReadsCurrent
<1>14. LoneInv'
  <2> SUFFICES ASSUME ~overlapped'
               PROVE  /\ (\A d \in Calls : ~Mid(sCall'[d])) => srv' = asked'
                      /\ \A d, e \in Calls : Mid(sCall'[d]) /\ Mid(sCall'[e]) => d = e
                      /\ \A d \in Calls : Mid(sCall'[d]) =>
                            asked' = sCall'[d].sent /\ Agree(srv', asked', sCall'[d].done)
    BY DEF LoneInv
  <2>1. /\ \A d \in Calls \ {c} : ~Mid(sCall[d])
        /\ asked' = call.sent /\ Agree(srv, call.sent, i - 1)
    <3>1. CASE i = 1
      <4>1. \A d \in Calls : ~Mid(sCall[d]) BY <1>4, <1>7, <3>1, MidIs
      <4> QED BY <1>4, <3>1, <4>1 DEF Agree
    <3>2. CASE i # 1
      <4>1. ~overlapped /\ asked' = asked BY <1>4, <3>2
      <4>2. Mid(sCall[c])
        <5>1. i - 1 \in 1 .. 3 BY <3>2
        <5> QED BY <1>1, <1>4, <5>1 DEF Mid
      <4> QED BY <1>1, <1>4, <4>1, <4>2 DEF SettingsInv, LoneInv
    <3> QED BY <3>1, <3>2
  <2>2. Agree(srv', asked', i)
    <3>1. i - 1 \in 0 .. 3 /\ (i - 1) + 1 = i OBVIOUS
    <3>2. srv \in GoodPolicy BY DEF SettingsInv, PoliciesGood
    <3> QED BY <1>3, <1>4, <2>1, <3>1, <3>2, TakingAgrees
  <2>3. \A d \in Calls : Mid(sCall'[d]) => d = c BY <1>9, <2>1
  <2>4. CASE i = 4
    <3>1. srv' = asked' BY <1>11, <2>2, <2>4, AgreeIsEqual
    <3> QED BY <1>6, <1>8, <2>3, <2>4, <3>1
  <2>5. CASE i # 4
    <3>1. Mid(sCall'[c]) /\ sCall'[c].sent = call.sent /\ sCall'[c].done = i BY <1>6, <1>8, <2>5
    <3> QED BY <2>1, <2>2, <2>3, <3>1
  <2> QED BY <2>4, <2>5
<1> QED BY <1>12, <1>13, <1>14 DEF SettingsInv

(* getSettings reads a field. *)
LEMMA ReadStep ==
    ASSUME SettingsInv, NEW c \in Calls, ReadField(c)
    PROVE  SettingsInv'
<1>1. sCall \in [Calls -> CallRecord] /\ \A d \in Calls : Good(sCall[d]) BY DEF SettingsInv, PoliciesGood
<1>2. PICK call \in CallRecord : call = sCall[c] BY <1>1
<1>3. PICK n \in 0 .. 3 : n = call.done - 4 BY <1>2 DEF ReadField, Reads, CallRecord
<1>4. call.ans = "none" /\ call.done = n + 4 /\ n + 1 \in 1 .. 4 /\ Good(call) /\ call.done - 3 = n + 1
      /\ UNCHANGED <<srv, asked, overlapped, live, draft, sFresh>>
  BY <1>1, <1>2, <1>3 DEF ReadField, Reads, PageWaits, CallRecord
<1>5. srv \in GoodPolicy /\ srv \in Policy BY GoodIsValid DEF SettingsInv, PoliciesGood
<1>6. PICK got : got = Taking(call.got, n + 1, srv) OBVIOUS
<1>7. got \in GoodPolicy /\ got \in Policy BY <1>4, <1>5, <1>6, TakingGood, GoodIsValid DEF Good
<1>8. PICK ans : ans = IF call.done = 7 THEN "ok" ELSE "none" OBVIOUS
<1>9. PICK fresh : fresh = (call.done = 4 \/ call.fresh) OBVIOUS
<1>10. fresh \in BOOLEAN BY <1>9
<1>11. PICK end : end = [call EXCEPT !.got = got, !.done = n + 5, !.fresh = fresh, !.ans = ans] OBVIOUS
<1>12. sCall' = [sCall EXCEPT ![c] = end]
  <2>1. call.done + 1 = n + 5 BY <1>4
  <2>2. sCall' = [sCall EXCEPT ![c].got = got, ![c].done = n + 5, ![c].fresh = fresh, ![c].ans = ans]
    BY <1>2, <1>4, <1>6, <1>8, <1>9, <2>1, Zenon DEF ReadField
  <2> QED BY <1>1, <1>2, <1>11, <2>2
<1>13. /\ end \in CallRecord /\ end.got = got /\ end.done = n + 5 /\ (end.fresh <=> fresh)
       /\ end.ans = ans /\ end.sent = call.sent /\ end.kind = call.kind
  <2>1. n + 5 \in 0 .. 8 /\ ans \in {"none", "ok", "error"} BY <1>8
  <2> QED BY <1>7, <1>10, <1>11, <2>1 DEF CallRecord
<1>14. ~Mid(call) /\ ~Mid(end)
  <2>1. n + 4 \notin 1 .. 3 /\ n + 5 \notin 1 .. 3 OBVIOUS
  <2> QED BY <1>4, <1>13, <2>1 DEF Mid
<1>15. Good(end) BY <1>4, <1>7, <1>8, <1>13 DEF Good
<1>16. /\ sCall' \in [Calls -> CallRecord] /\ sCall'[c] = end
       /\ \A d \in Calls \ {c} : sCall'[d] = sCall[d]
  BY <1>1, <1>12, <1>13
<1>17. \A d \in Calls : Mid(sCall'[d]) <=> Mid(sCall[d]) BY <1>2, <1>14, <1>16
<1>18. PoliciesGood' BY <1>1, <1>4, <1>15, <1>16 DEF SettingsInv, PoliciesGood
<1>19. ReadsCurrent'
  <2>1. fresh => Agree(got, srv, n + 1)
    <3>1. fresh => Agree(call.got, srv, n)
      <4>1. call.done = 4 => Agree(call.got, srv, n) BY <1>3 DEF Agree
      <4>2. call.fresh => Agree(call.got, srv, n) BY <1>2, <1>3 DEF SettingsInv, ReadsCurrent
      <4> QED BY <1>9, <4>1, <4>2
    <3> QED BY <1>4, <1>5, <1>6, <3>1, TakingAgrees DEF Good
  <2>2. end.fresh => Agree(end.got, srv, end.done - 4)
    <3>1. end.done - 4 = n + 1 BY <1>13
    <3> QED BY <1>13, <2>1, <3>1
  <2>3. ASSUME NEW d \in Calls, sCall'[d].fresh PROVE Agree(sCall'[d].got, srv, sCall'[d].done - 4)
    <3>1. CASE d = c BY <1>16, <2>2, <2>3, <3>1
    <3>2. CASE d # c
      <4>1. sCall'[d] = sCall[d] BY <1>16, <3>2
      <4> QED BY <2>3, <4>1 DEF SettingsInv, ReadsCurrent
    <3> QED BY <3>1, <3>2
  <2>4. sFresh' => live' = srv BY <1>4 DEF SettingsInv, ReadsCurrent
  <2> QED BY <1>4, <2>3, <2>4 DEF ReadsCurrent
<1>20. LoneInv'
  <2>1. \A d \in Calls : Mid(sCall[d]) => sCall'[d] = sCall[d] BY <1>2, <1>14, <1>16
  <2> QED BY <1>4, <1>17, <2>1 DEF SettingsInv, LoneInv
<1> QED BY <1>18, <1>19, <1>20 DEF SettingsInv

(* An answer is shown: it is a good policy, so the form and the page get it as it is. *)
LEMMA ShownStep ==
    ASSUME SettingsInv, NEW c \in Calls, ApplyPoolSnapshot(c)
    PROVE  SettingsInv'
<1>1. /\ sCall[c].ans = "ok" /\ live' = Snapshot(sCall[c].got) /\ draft' = live'
      /\ sFresh' = sCall[c].fresh /\ Settle(c) /\ UNCHANGED <<srv, asked, overlapped>>
  BY DEF ApplyPoolSnapshot
<1>2. Good(sCall[c]) /\ srv \in GoodPolicy BY DEF SettingsInv, PoliciesGood
<1>3. live' = sCall[c].got /\ live' \in GoodPolicy BY <1>1, <1>2, SnapshotOfGood DEF Good
<1>4. sFresh' => live' = srv
  <2> SUFFICES ASSUME sCall[c].fresh PROVE sCall[c].got = srv BY <1>1, <1>3
  <2>1. sCall[c].done - 4 = 4 BY <1>1, <1>2 DEF Good
  <2>2. Agree(sCall[c].got, srv, 4) BY <2>1 DEF SettingsInv, ReadsCurrent
  <2> QED BY <1>2, <2>2, AgreeIsEqual DEF Good
<1>5. ~Mid(sCall[c]) BY <1>1 DEF Mid
<1> QED BY <1>1, <1>3, <1>4, <1>5, SettledStep

(* The answer to the PATCH in c is no longer waited for. *)
LEMMA GivenUpStep ==
    ASSUME SettingsInv, NEW c \in Calls, Stores(c), sCall' = [sCall EXCEPT ![c].kind = "elsewhere"],
           UNCHANGED <<srv, asked, overlapped, live, draft, sFresh>>
    PROVE  SettingsInv'
<1>1. sCall \in [Calls -> CallRecord] /\ \A d \in Calls : Good(sCall[d]) BY DEF SettingsInv, PoliciesGood
<1>2. PICK call \in CallRecord : call = sCall[c] BY <1>1
<1>3. PICK end : end = [call EXCEPT !.kind = "elsewhere"] OBVIOUS
<1>4. /\ end \in CallRecord /\ end.kind = "elsewhere" /\ end.sent = call.sent /\ end.done = call.done
      /\ end.ans = call.ans /\ end.got = call.got /\ end.fresh = call.fresh
  BY <1>3 DEF CallRecord
<1>5. call.kind \in {"save", "elsewhere"} BY <1>2 DEF Stores
<1>6. Good(end) /\ (Mid(end) <=> Mid(call)) BY <1>1, <1>2, <1>4, <1>5 DEF Good, Mid
<1>7. /\ sCall' \in [Calls -> CallRecord] /\ sCall'[c] = end
      /\ \A d \in Calls \ {c} : sCall'[d] = sCall[d]
  BY <1>1, <1>2, <1>3, <1>4
<1>8. ASSUME NEW d \in Calls
      PROVE  /\ Good(sCall'[d])
             /\ Mid(sCall'[d]) <=> Mid(sCall[d])
             /\ Mid(sCall[d]) => sCall'[d].sent = sCall[d].sent /\ sCall'[d].done = sCall[d].done
             /\ sCall'[d].fresh => /\ sCall[d].fresh /\ sCall'[d].got = sCall[d].got
                                   /\ sCall'[d].done = sCall[d].done
  <2>1. CASE d = c BY <1>2, <1>4, <1>6, <1>7, <2>1
  <2>2. CASE d # c
    <3>1. sCall'[d] = sCall[d] BY <1>7, <2>2
    <3> QED BY <1>1, <3>1
  <2> QED BY <2>1, <2>2
<1>9. live' \in GoodPolicy /\ draft' \in GoodPolicy /\ (sFresh' => live' = srv)
  BY DEF SettingsInv, PoliciesGood, ReadsCurrent
<1> QED BY <1>7, <1>8, <1>9, QuietStep

(* The process restarts with the default policy, and nothing is half way.  *)
LEMMA RestartStep ==
    ASSUME SettingsInv, Restart PROVE SettingsInv'
<1>1. /\ srv' = DefaultPolicy /\ asked' = DefaultPolicy /\ sFresh' = FALSE /\ UNCHANGED <<live, draft>>
      /\ sCall' = [c \in Calls |->
                    IF ~Begun(c) THEN Outdates[c]
                    ELSE IF sCall[c].kind = "elsewhere" THEN Idle
                    ELSE [Outdates[c] EXCEPT !.ans = "error"]]
  BY DEF Restart, PageWaits
<1>2. sCall \in [Calls -> CallRecord] /\ \A d \in Calls : Good(sCall[d]) BY DEF SettingsInv, PoliciesGood
<1>3. ASSUME NEW c \in Calls
      PROVE  sCall'[c] \in CallRecord /\ Good(sCall'[c]) /\ ~Mid(sCall'[c]) /\ ~sCall'[c].fresh
  <2>1. sCall[c] \in CallRecord /\ Good(sCall[c]) BY <1>2
  <2>2. Outdates[c] = [sCall[c] EXCEPT !.fresh = FALSE] BY DEF Outdates
  <2>3. CASE ~Begun(c)
    <3>1. sCall'[c] = [sCall[c] EXCEPT !.fresh = FALSE] BY <1>1, <2>2, <2>3
    <3>2. ~Mid(sCall[c]) BY <1>2, <2>3, MidIs DEF Begun
    <3> QED BY <2>1, <3>1, <3>2 DEF CallRecord, Good, Mid
  <2>4. CASE Begun(c) /\ sCall[c].kind = "elsewhere"
    <3>1. sCall'[c] = Idle BY <1>1, <2>4
    <3> QED BY <3>1, IdleIsQuiet
  <2>5. CASE Begun(c) /\ sCall[c].kind # "elsewhere"
    <3>1. sCall'[c] = [[sCall[c] EXCEPT !.fresh = FALSE] EXCEPT !.ans = "error"] BY <1>1, <2>2, <2>5
    <3> QED BY <2>1, <3>1 DEF CallRecord, Good, Mid
  <2> QED BY <2>3, <2>4, <2>5
<1>4. PoliciesGood'
  <2>1. sCall' \in [Calls -> CallRecord] BY <1>1, <1>3
  <2> QED BY <1>1, <1>3, <2>1, DefaultIsGood DEF SettingsInv, PoliciesGood
<1>5. ReadsCurrent' BY <1>1, <1>3 DEF ReadsCurrent
<1>6. LoneInv' BY <1>1, <1>3 DEF LoneInv
<1> QED BY <1>4, <1>5, <1>6 DEF SettingsInv

(* The form is edited: every control hands on a value within bounds. *)
LEMMA EditIsGood ==
    ASSUME SettingsInv, EditDraft PROVE draft' \in GoodPolicy
<1>1. draft \in GoodPolicy BY DEF SettingsInv, PoliciesGood
<1>2. \A n \in 2 .. 4 : ClampAttempts(n) \in 2 .. 4 BY AttemptsInBounds
<1>3. \A n \in BenchTyped : ClampBenchMinutes(n) \in 1 .. 60 BY BenchInBounds, SettingsAssumption
<1>4. CASE \E load \in {"spread", "sticky"} : draft' = [draft EXCEPT !.load = load]
  BY <1>1, <1>4 DEF GoodPolicy
<1>5. CASE \E n \in 2 .. 4 : draft' = [draft EXCEPT !.attempts = ClampAttempts(n)]
  BY <1>1, <1>2, <1>5 DEF GoodPolicy
<1>6. CASE \E n \in BenchTyped : draft' = [draft EXCEPT !.bench = ClampBenchMinutes(n)]
  BY <1>1, <1>3, <1>6 DEF GoodPolicy
<1>7. CASE \E on \in BOOLEAN : draft' = [draft EXCEPT !.proxy = on]
  BY <1>1, <1>7 DEF GoodPolicy
<1> QED BY <1>4, <1>5, <1>6, <1>7 DEF EditDraft

(* Nothing happens to the calls. *)
LEMMA DraftStep ==
    ASSUME SettingsInv, draft' \in GoodPolicy, UNCHANGED <<srv, asked, overlapped, live, sFresh, sCall>>
    PROVE  SettingsInv'
<1>1. live' \in GoodPolicy /\ (sFresh' => live' = srv) /\ sCall \in [Calls -> CallRecord]
      /\ \A c \in Calls : Good(sCall[c])
  BY DEF SettingsInv, PoliciesGood, ReadsCurrent
<1> QED BY <1>1, QuietStep

LEMMA SettingsNextInv == SettingsInv /\ [SettingsNext]_<<pageVars, settingsVars>> => SettingsInv'
<1> SUFFICES ASSUME SettingsInv, [SettingsNext]_<<pageVars, settingsVars>> PROVE SettingsInv' OBVIOUS
<1>1. live \in GoodPolicy /\ draft \in GoodPolicy /\ sCall \in [Calls -> CallRecord] /\ (sFresh => live = srv)
  BY DEF SettingsInv, PoliciesGood, ReadsCurrent
<1>2. CASE EditDraft BY <1>2, EditIsGood, DraftStep DEF EditDraft, ServerKeeps
<1>3. CASE DiscardPoolDraft BY <1>1, <1>3, DraftStep DEF DiscardPoolDraft, ServerKeeps
<1>4. CASE Restart BY <1>4, RestartStep
<1>5. ASSUME NEW c \in Calls, RefreshSettings(c) PROVE SettingsInv'
  BY <1>5, DefaultIsGood, CallsAreGood, SentStep DEF RefreshSettings, ServerKeeps, Send
<1>6. ASSUME NEW c \in Calls, OnSavePool(c) PROVE SettingsInv'
  BY <1>1, <1>6, CallsAreGood, SentStep DEF OnSavePool, ServerKeeps, Send
<1>7. ASSUME NEW c \in Calls, OnChangePassword(c) PROVE SettingsInv'
  BY <1>7, DefaultIsGood, CallsAreGood, SentStep DEF OnChangePassword, ServerKeeps, Send
<1>8. ASSUME NEW c \in Calls, PatchElsewhere(c) PROVE SettingsInv'
  BY <1>8, ElsewhereIsGood, CallsAreGood, SentStep DEF PatchElsewhere, PageWaits
<1>9. ASSUME NEW c \in Calls, ReadField(c) PROVE SettingsInv' BY <1>9, ReadStep
<1>10. ASSUME NEW c \in Calls, StoreField(c) PROVE SettingsInv' BY <1>10, StoreStep
<1>11. ASSUME NEW c \in Calls, SettingsArrive(c) \/ PoolSaved(c) PROVE SettingsInv'
  BY <1>11, ShownStep DEF SettingsArrive, PoolSaved
<1>12. ASSUME NEW c \in Calls, PasswordChanged(c) PROVE SettingsInv'
  <2>1. ~Mid(sCall[c]) BY <1>12 DEF PasswordChanged, Mid
  <2> QED BY <1>1, <1>12, <2>1, SettledStep DEF PasswordChanged, ServerKeeps
<1>13. ASSUME NEW c \in Calls, CallFailed(c) PROVE SettingsInv'
  <2>1. UNCHANGED <<srv, asked, overlapped, live, draft, sFresh>> BY <1>13 DEF CallFailed, ServerKeeps
  <2>2. CASE ~MidPatch(c) /\ Settle(c) BY <1>1, <2>1, <2>2, MidIs, SettledStep
  <2>3. CASE Stores(c) /\ sCall' = [sCall EXCEPT ![c].kind = "elsewhere"] BY <2>1, <2>3, GivenUpStep
  <2> QED BY <1>13, <2>2, <2>3 DEF CallFailed
<1>14. ASSUME NEW c \in Calls, CallUnauthorized(c) PROVE SettingsInv'
  <2>1. ~Mid(sCall[c]) BY <1>1, <1>14, MidIs DEF CallUnauthorized, Begun
  <2> QED BY <1>1, <1>14, <2>1, SettledStep DEF CallUnauthorized, ServerKeeps
<1>15. CASE UNCHANGED <<pageVars, settingsVars>>
  BY <1>1, <1>15, DraftStep DEF settingsVars
<1> QED
  BY <1>2, <1>3, <1>4, <1>5, <1>6, <1>7, <1>8, <1>9, <1>10, <1>11, <1>12, <1>13, <1>14, <1>15
  DEF SettingsNext

LEMMA SettingsInvariant == SettingsSpec => []SettingsInv
<1>1. InitPage /\ SettingsInit => SettingsInv BY SettingsInitInv
<1>2. SettingsInv /\ [SettingsNext]_<<pageVars, settingsVars>> => SettingsInv' BY SettingsNextInv
<1> QED BY <1>1, <1>2, PTL DEF SettingsSpec

(* A PATCH that no other overlaps leaves what it was sent in effect, whole:*)
(* nothing the form of SettingsPage.tsx can hold is refused half way by    *)
(* patchSettings, whatever is typed, whatever mixture of fields was in     *)
(* effect before, and however loads, failures and restarts come between.   *)
THEOREM LonePatchIsWhole == SettingsSpec => []LonePatchTakesEffect
<1>1. SettingsInv => LonePatchTakesEffect
  <2> SUFFICES ASSUME SettingsInv, ~overlapped, \A c \in Calls : ~MidPatch(c) PROVE srv = asked
    BY DEF LonePatchTakesEffect
  <2>1. \A c \in Calls : ~Mid(sCall[c]) BY MidIs DEF SettingsInv, PoliciesGood
  <2> QED BY <2>1 DEF SettingsInv, LoneInv
<1> QED BY <1>1, SettingsInvariant, PTL

(* The settings page shows the policy in effect as long as nothing has     *)
(* been stored since the answer it shows began to be read, whatever ran    *)
(* side by side before and in whatever order answers came.                 *)
THEOREM LiveIsCorrect == SettingsSpec => []LiveIsServer
<1>1. SettingsInv => LiveIsServer BY DEF SettingsInv, ReadsCurrent, LiveIsServer
<1> QED BY <1>1, SettingsInvariant, PTL
===============================================================================
