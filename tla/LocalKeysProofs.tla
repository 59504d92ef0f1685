--------------------------- MODULE LocalKeysProofs ---------------------------
(***************************************************************************)
(* Proofs about LocalKeys for any keys, requests, policies and clock.      *)
(*                                                                         *)
(* The write lock makes a transaction's draft a function of the usage rows *)
(* as they still are (InTransaction); a row then counts what was charged   *)
(* to its window, and nothing has been charged to a later one (Counted),   *)
(* until a straggler charges a window that is over.                        *)
(***************************************************************************)
EXTENDS LocalKeys, TLAPS

InTx(r) == pc[r] \in {"day", "minute", "commit"}
Done(r, kind) == pc[r] = "commit" \/ (pc[r] = "minute" /\ kind = "day")

(* What consumeWindow makes of the committed row. *)
After(r, kind) ==
  LET cell == usage[key[r]][kind] IN
  IF Limit(r, kind) = 0 THEN cell
  ELSE IF cell = NoCell \/ cell.start # Start(kind, at[r])
       THEN [start |-> Start(kind, at[r]), count |-> 1]
       ELSE [cell EXCEPT !.count = @ + 1]

Drafted(r, kind) ==
  IF Done(r, kind)
  THEN /\ draft[r][kind] = After(r, kind)
       /\ Limit(r, kind) # 0 => draft[r][kind].count <= Limit(r, kind)
  ELSE draft[r][kind] = usage[key[r]][kind]

InTransaction ==
  \A r \in Requests : InTx(r) =>
    lock = r /\ row[key[r]] = "on" /\ \A kind \in Kinds : Drafted(r, kind)

Counted(k, kind) ==
  IF usage[k][kind] = NoCell
  THEN \A m \in Minutes : charged[k][kind][m] = 0
  ELSE /\ usage[k][kind].count = charged[k][kind][usage[k][kind].start]
       /\ \A m \in Minutes : m > usage[k][kind].start => charged[k][kind][m] = 0

AllCounted ==
  \A k \in Keys \ late : row[k] # "gone" => \A kind \in Kinds : Counted(k, kind)

(* A window starts at a minute of the clock. *)
LEMMA StartType ==
  ASSUME NEW kind \in Kinds, NEW m \in Minutes PROVE Start(kind, m) \in Minutes
<1>1. m \in Nat /\ m <= LastMinute /\ LastMinute \in Nat /\ DayLength \in Nat \ {0}
  BY ClockAssumption DEF Minutes
<1>2. m \div DayLength \in Int
  BY <1>1
<1>3. m = DayLength * (m \div DayLength) + (m % DayLength) /\ m % DayLength \in 0..(DayLength - 1)
  BY <1>1
<1>4. m \div DayLength \in Nat
  BY <1>1, <1>2, <1>3, SMTT(30)
<1>5. m \div DayLength <= m
  BY <1>1, <1>3, <1>4, SMTT(30)
<1> QED
  BY <1>1, <1>4, <1>5 DEF Start, Minutes

(* consumeWindow turns a row into a row. *)
LEMMA ConsumedType ==
  ASSUME TypeOK, NEW r \in Requests, NEW kind \in Kinds
  PROVE  Consumed(r, kind) \in Cell \cup {NoCell}
<1>1. Start(kind, at[r]) \in Minutes
  BY StartType DEF TypeOK
<1>2. draft[r][kind] \in Cell \cup {NoCell}
  BY DEF TypeOK, Usage
<1> QED
  BY <1>1, <1>2 DEF Consumed, Cell

LEMMA TypeStep == ASSUME TypeOK, [Next]_vars PROVE TypeOK'
<1> USE ClockAssumption, PoliciesAssumption DEF TypeOK, Usage, Phases
<1>1. ASSUME NEW r \in Requests, NEW p \in Phases, Verified(r, p)
      PROVE  /\ pc' \in [Requests -> Phases] /\ at' \in [Requests -> Minutes]
             /\ draft' \in [Requests -> Usage]
  BY <1>1 DEF Verified, Goto, NoUsage, Minutes
<1>2. ASSUME NEW r \in Requests, Arrive(r) PROVE TypeOK'
  BY <1>2 DEF Arrive, Goto, tables, history
<1>3. ASSUME NEW r \in Requests, GiveUp(r) \/ Unauthorized(r) PROVE TypeOK'
  BY <1>1, <1>3 DEF GiveUp, Unauthorized, tables, history
<1>4. ASSUME NEW r \in Requests, Begin(r) PROVE TypeOK'
  BY <1>4 DEF Begin, Goto, tables, history
<1>5. ASSUME NEW r \in Requests, NEW kind \in Kinds, NEW p \in Phases, Charge(r, kind, p)
      PROVE  TypeOK'
  BY <1>5, ConsumedType DEF Charge, Goto, tables, history
<1>6. ASSUME NEW r \in Requests, Refuse(r) PROVE TypeOK'
  BY <1>1, <1>6 DEF Refuse, Rollback, history
<1>7. ASSUME NEW r \in Requests, Commit(r) PROVE TypeOK'
  <2>1. charged' \in [Keys -> [Kinds -> [Minutes -> Nat]]]
    <3>1. \A kind \in Kinds : [charged[key[r]][kind] EXCEPT ![Start(kind, at[r])] = @ + 1]
                                \in [Minutes -> Nat]
      BY StartType
    <3> QED
      BY <1>7, <3>1 DEF Commit
  <2>2. late' \in SUBSET Keys /\ usage' \in [Keys -> Usage]
    BY <1>7 DEF Commit
  <2> QED
    BY <1>1, <1>7, <2>1, <2>2 DEF Commit
<1>8. ASSUME NEW r \in Requests, Log(r) PROVE TypeOK'
  BY <1>8 DEF Log, Goto, locals, history
<1>9. ASSUME NEW k \in Keys, Create(k) \/ Update(k) PROVE TypeOK'
  <2>1. limit' \in [Keys -> [Kinds -> Nat]]
    BY <1>9 DEF Create, Update
  <2>2. row' \in [Keys -> {"unborn", "on", "off", "gone"}]
    BY <1>9 DEF Create, Update
  <2> QED
    BY <1>9, <2>1, <2>2 DEF Create, Update, locals, history
<1>10. ASSUME NEW k \in Keys, SetEnabled(k) PROVE TypeOK'
  BY <1>10 DEF SetEnabled, locals, history
<1>11. ASSUME NEW k \in Keys, RevokeDetach(k) PROVE TypeOK'
  BY <1>11 DEF RevokeDetach, locals, history
<1>12. ASSUME NEW k \in Keys, RevokeDelete(k) PROVE TypeOK'
  <2>1. NoUsage \in Usage
    BY DEF NoUsage
  <2>2. usage' \in [Keys -> Usage] /\ row' \in [Keys -> {"unborn", "on", "off", "gone"}]
    BY <1>12, <2>1 DEF RevokeDelete
  <2> QED
    BY <1>12, <2>2 DEF RevokeDelete, locals, history
<1>13. CASE Tick
  BY <1>13 DEF Tick, Minutes, tables, locals, history
<1>14. CASE Restart
  BY <1>14 DEF Restart, NoUsage, Minutes, tables, history
<1>15. CASE UNCHANGED vars
  BY <1>15 DEF vars, tables, locals, history
<1> QED
  BY <1>2, <1>3, <1>4, <1>5, <1>6, <1>7, <1>8, <1>9, <1>10, <1>11, <1>12, <1>13, <1>14,
     <1>15 DEF Next, Kinds

(* Nobody is in a transaction while the write lock is free, and whoever    *)
(* holds it is alone.                                                      *)
LEMMA Alone ==
  ASSUME InTransaction
  PROVE  /\ lock = NoRequest => \A r \in Requests : ~InTx(r)
         /\ \A q, r \in Requests : InTx(q) /\ InTx(r) => q = r
BY RequestsAssumption DEF InTransaction

(* A charge turns the draft of its window into After.                      *)
LEMMA ChargeDrafts ==
  ASSUME TypeOK, InTransaction, NEW r \in Requests, NEW kind \in Kinds, pc[r] = kind,
         ~Exhausted(r, kind)
  PROVE  /\ Consumed(r, kind) = After(r, kind)
         /\ Limit(r, kind) # 0 => Consumed(r, kind).count <= Limit(r, kind)
<1>1. draft[r][kind] = usage[key[r]][kind]
  BY DEF InTransaction, InTx, Drafted, Done, Kinds
<1>2. draft[r][kind] \in Cell \cup {NoCell} /\ Limit(r, kind) \in Nat
  BY DEF TypeOK, Usage, Limit
<1> QED
  BY <1>1, <1>2 DEF Consumed, After, Exhausted, Cell

LEMMA TransactionStep ==
  ASSUME TypeOK, InTransaction, [Next]_vars PROVE InTransaction'
<1>1. ASSUME NEW r \in Requests, ~InTx(r), ~InTx(r)', UNCHANGED <<tables, lock>>,
             \A q \in Requests \ {r} : /\ pc'[q] = pc[q] /\ key'[q] = key[q]
                                       /\ at'[q] = at[q] /\ draft'[q] = draft[q]
      PROVE  InTransaction'
  BY <1>1 DEF InTransaction, InTx, Drafted, Done, After, Limit, tables
<1>2. ASSUME \A r \in Requests : ~InTx(r)' PROVE InTransaction'
  BY <1>2 DEF InTransaction
<1>3. ASSUME NEW r \in Requests, Arrive(r) \/ GiveUp(r) \/ Unauthorized(r)
      PROVE  InTransaction'
  BY <1>1, <1>3 DEF Arrive, GiveUp, Unauthorized, Verified, Goto, InTx, TypeOK, tables
<1>4. ASSUME NEW r \in Requests, Begin(r) PROVE InTransaction'
  <2>1. \A q \in Requests \ {r} : ~InTx(q)'
    BY <1>4, Alone DEF Begin, Goto, InTx, TypeOK
  <2>2. InTx(r)' => lock' = r /\ row'[key'[r]] = "on"
    BY <1>4 DEF Begin, tables
  <2>3. \A kind \in Kinds : Drafted(r, kind)'
    BY <1>4 DEF Begin, Drafted, Done, Goto, TypeOK, tables
  <2> QED
    BY <2>1, <2>2, <2>3 DEF InTransaction
<1>5. ASSUME NEW r \in Requests, NEW kind \in Kinds, NEW p,
             Charge(r, kind, p), <<kind, p>> \in {<<"day", "minute">>, <<"minute", "commit">>}
      PROVE  InTransaction'
  <2>1. InTx(r) /\ pc[r] = kind /\ UNCHANGED <<tables, lock, key, at>>
    BY <1>5 DEF Charge, InTx, Kinds
  <2>2. \A q \in Requests \ {r} : ~InTx(q)'
    BY <1>5, <2>1, Alone DEF Charge, Goto, InTx, TypeOK
  <2>3. /\ draft' = [draft EXCEPT ![r][kind] = Consumed(r, kind)]
        /\ pc' = [pc EXCEPT ![r] = p] /\ ~Exhausted(r, kind)
    BY <1>5 DEF Charge, Goto
  <2>4. \A other \in Kinds : After(r, other)' = After(r, other) /\ Limit(r, other)' = Limit(r, other)
    BY <2>1 DEF After, Limit, tables
  <2>5. draft'[r][kind] = Consumed(r, kind) /\ \A other \in Kinds \ {kind} :
          draft'[r][other] = draft[r][other]
    BY <2>3 DEF TypeOK, Usage
  <2>6. Drafted(r, kind)'
    BY <1>5, <2>1, <2>3, <2>4, <2>5, ChargeDrafts DEF Drafted, Done, TypeOK
  <2>7. \A other \in Kinds \ {kind} : Drafted(r, other)'
    <3> TAKE other \in Kinds \ {kind}
    <3>1. Drafted(r, other)
      BY <2>1 DEF InTransaction
    <3>2. Done(r, other)' = Done(r, other)
      BY <1>5, <2>1, <2>3 DEF Done, TypeOK, Kinds
    <3> QED
      BY <2>1, <2>4, <2>5, <3>1, <3>2 DEF Drafted, tables
  <2> QED
    BY <2>1, <2>2, <2>6, <2>7 DEF InTransaction, tables
<1>6. ASSUME NEW r \in Requests, Refuse(r) \/ Commit(r) PROVE InTransaction'
  <2>1. InTx(r) /\ (Goto(r, "idle") \/ Goto(r, "serving"))
    BY <1>6 DEF Refuse, Commit, Verified, InTx
  <2> QED
    BY <1>2, <2>1, Alone DEF Goto, InTx, TypeOK
<1>7. ASSUME NEW r \in Requests, Log(r) PROVE InTransaction'
  BY <1>2, <1>7, Alone DEF Log, Goto, InTx, TypeOK
<1>8. ASSUME lock = NoRequest, UNCHANGED pc PROVE InTransaction'
  BY <1>2, <1>8, Alone DEF InTx
<1>9. ASSUME NEW k \in Keys, Create(k) \/ SetEnabled(k) \/ Update(k) \/ RevokeDetach(k)
                              \/ RevokeDelete(k)
      PROVE  InTransaction'
  BY <1>8, <1>9 DEF Create, SetEnabled, Update, RevokeDetach, RevokeDelete
<1>10. CASE Tick \/ UNCHANGED vars
  BY <1>10 DEF Tick, vars, locals, tables, InTransaction, InTx, Drafted, Done, After, Limit
<1>11. CASE Restart
  BY <1>2, <1>11 DEF Restart, InTx
<1> QED
  BY <1>3, <1>4, <1>5, <1>6, <1>7, <1>9, <1>10, <1>11 DEF Next, Kinds

(* A commit writes After and charges the window it names.                  *)
LEMMA CommitWrites ==
  ASSUME TypeOK, InTransaction, NEW r \in Requests, Commit(r), NEW kind \in Kinds
  PROVE  /\ usage'[key[r]][kind] = After(r, kind)
         /\ Limit(r, kind) # 0 => After(r, kind).count <= Limit(r, kind)
         /\ charged'[key[r]][kind] =
              IF Limit(r, kind) = 0 THEN charged[key[r]][kind]
              ELSE [charged[key[r]][kind] EXCEPT ![Start(kind, at[r])] = @ + 1]
<1>1. Drafted(r, kind) /\ Done(r, kind)
  BY DEF Commit, InTransaction, InTx, Done
<1> QED
  BY <1>1 DEF Commit, Drafted, Charged, TypeOK

(* The row counts what was charged to its window.                          *)
LEMMA CountedStep ==
  ASSUME TypeOK, InTransaction, AllCounted, [Next]_vars PROVE AllCounted'
<1> SUFFICES ASSUME NEW k \in Keys, k \notin late', row'[k] # "gone", NEW kind \in Kinds
             PROVE  Counted(k, kind)'
  BY DEF AllCounted
<1>1. ASSUME UNCHANGED <<usage, charged, late>>, row[k] # "gone" PROVE Counted(k, kind)'
  BY <1>1 DEF AllCounted, Counted
<1>2. ASSUME NEW r \in Requests, Commit(r) PROVE Counted(k, kind)'
  <2>1. Counted(k, kind)
    BY <1>2 DEF Commit, AllCounted
  <2>2. CASE k # key[r]
    BY <1>2, <2>1, <2>2 DEF Commit, Counted, TypeOK
  <2>3. CASE k = key[r] /\ Limit(r, kind) = 0
    <3>1. usage'[k][kind] = usage[k][kind] /\ charged'[k][kind] = charged[k][kind]
      BY <1>2, <2>3, CommitWrites DEF After
    <3> QED
      BY <2>1, <3>1 DEF Counted
  <2>4. CASE k = key[r] /\ Limit(r, kind) # 0
    <3> DEFINE cell  == usage[k][kind]
               start == Start(kind, at[r])
    <3>1. start \in Minutes /\ cell \in Cell \cup {NoCell}
          /\ charged[k][kind] \in [Minutes -> Nat]
      BY StartType DEF TypeOK, Usage
    <3>2. usage'[k][kind] = After(r, kind)
          /\ charged'[k][kind] = [charged[k][kind] EXCEPT ![start] = @ + 1]
      BY <1>2, <2>4, CommitWrites
    <3>3. cell = NoCell \/ ~(cell.start > start)
      BY <1>2, <2>4 DEF Commit, IsLate, Charged
    <3>4. \A m \in Minutes : m \in Int
      BY DEF Minutes
    <3>5. CASE cell = NoCell \/ cell.start # start
      <4>1. After(r, kind) = [start |-> start, count |-> 1]
        BY <2>4, <3>5 DEF After
      <4>2. \A m \in Minutes : m >= start => charged[k][kind][m] = 0
        BY <2>1, <3>1, <3>3, <3>4, <3>5 DEF Counted, Cell
      <4>3. After(r, kind) # NoCell
        BY <3>1, <4>1, CellAssumption DEF Cell
      <4> QED
        BY <3>1, <3>2, <3>4, <4>1, <4>2, <4>3 DEF Counted
    <3>6. CASE cell # NoCell /\ cell.start = start
      <4>1. After(r, kind) = [cell EXCEPT !.count = @ + 1] /\ cell \in Cell
        BY <2>4, <3>1, <3>6 DEF After
      <4>2. After(r, kind) \in Cell
        BY <4>1 DEF Cell
      <4>3. After(r, kind).start = start /\ After(r, kind).count = cell.count + 1
        BY <3>6, <4>1 DEF Cell
      <4>4. After(r, kind) # NoCell
        BY <4>2, CellAssumption
      <4> QED
        BY <2>1, <3>1, <3>2, <3>4, <3>6, <4>3, <4>4 DEF Counted
    <3> QED
      BY <3>5, <3>6
  <2> QED
    BY <2>2, <2>3, <2>4
<1>3. ASSUME NEW r \in Requests, Refuse(r) PROVE Counted(k, kind)'
  BY <1>1, <1>3 DEF Refuse, Rollback, history
<1>4. ASSUME NEW r \in Requests, Log(r) PROVE Counted(k, kind)'
  BY <1>1, <1>4 DEF Log, history
<1>5. ASSUME NEW r \in Requests,
             Arrive(r) \/ GiveUp(r) \/ Begin(r) \/ Unauthorized(r)
               \/ Charge(r, "day", "minute") \/ Charge(r, "minute", "commit")
      PROVE  Counted(k, kind)'
  BY <1>1, <1>5 DEF Arrive, GiveUp, Begin, Unauthorized, Charge, tables, history
<1>6. ASSUME NEW j \in Keys, Create(j) \/ SetEnabled(j) \/ Update(j) \/ RevokeDetach(j)
      PROVE  Counted(k, kind)'
  <2>1. row[k] # "gone"
    BY <1>6 DEF Create, SetEnabled, Update, RevokeDetach, Live, TypeOK
  <2> QED
    BY <1>1, <1>6, <2>1 DEF Create, SetEnabled, Update, RevokeDetach, history
<1>7. ASSUME NEW j \in Keys, RevokeDelete(j) PROVE Counted(k, kind)'
  <2>1. row'[k] = row[k] /\ usage'[k] = usage[k]
    BY <1>7 DEF RevokeDelete, TypeOK
  <2> QED
    BY <1>7, <2>1 DEF RevokeDelete, history, AllCounted, Counted
<1>8. CASE Tick \/ Restart \/ UNCHANGED vars
  BY <1>1, <1>8 DEF Tick, Restart, vars, tables, history
<1> QED
  BY <1>2, <1>3, <1>4, <1>5, <1>6, <1>7, <1>8 DEF Next
-----------------------------------------------------------------------------
IInv == TypeOK /\ InTransaction /\ AllCounted

LEMMA Inductive == Spec => []IInv
<1>1. Init => IInv
  <2> SUFFICES ASSUME Init PROVE IInv
    OBVIOUS
  <2>1. TypeOK
    BY ClockAssumption DEF Init, TypeOK, Usage, NoUsage, NoCharge, Minutes, Phases
  <2>2. InTransaction
    BY DEF Init, InTransaction, InTx
  <2>3. AllCounted
    BY DEF Init, AllCounted, Counted, NoUsage, NoCharge
  <2> QED
    BY <2>1, <2>2, <2>3 DEF IInv
<1>2. IInv /\ [Next]_vars => IInv'
  BY TypeStep, TransactionStep, CountedStep DEF IInv
<1> QED
  BY <1>1, <1>2, PTL DEF Spec

(* Types, for any keys, requests, policies and clock.                      *)
THEOREM TypeCorrect == Spec => []TypeOK
<1>1. IInv => TypeOK
  BY DEF IInv
<1> QED
  BY <1>1, Inductive, PTL

(* A refused or failed request, a revocation and a restart leave the count *)
(* of a window at the number of requests let through in it.                *)
THEOREM CountsCorrect == Spec => []CountsMatch
<1>1. IInv => CountsMatch
  BY DEF IInv, AllCounted, Counted, CountsMatch, Live
<1> QED
  BY <1>1, Inductive, PTL

(* No request is let through above a limit before a straggler has been.    *)
LEMMA LimitHolds ==
  ASSUME IInv, IInv', [Next]_vars, NEW k \in Keys, k \notin late', NEW kind \in Kinds,
         NEW start \in Minutes, charged'[k][kind][start] > charged[k][kind][start]
  PROVE  charged'[k][kind][start] <= limit[k][kind]
<1>1. charged[k][kind][start] \in Nat
  BY DEF IInv, TypeOK
<1>2. charged' # charged
  BY <1>1
<1>3. PICK r \in Requests : Commit(r)
  BY <1>2 DEF Next, Arrive, GiveUp, Begin, Unauthorized, Charge, Refuse, Log, Create,
     SetEnabled, Update, RevokeDetach, RevokeDelete, Tick, Restart, vars, history
<1>4. k = key[r]
  BY <1>1, <1>3 DEF Commit, IInv, TypeOK
<1>5. Limit(r, kind) # 0 /\ start = Start(kind, at[r])
  <2>1. Start(kind, at[r]) \in Minutes /\ charged[k][kind] \in [Minutes -> Nat]
    BY StartType DEF IInv, TypeOK
  <2>2. charged'[k][kind] =
          IF Limit(r, kind) = 0 THEN charged[k][kind]
          ELSE [charged[k][kind] EXCEPT ![Start(kind, at[r])] = @ + 1]
    BY <1>3, <1>4, CommitWrites DEF IInv
  <2> QED
    BY <1>1, <2>1, <2>2
<1>6. usage'[k][kind] = After(r, kind) /\ After(r, kind).count <= Limit(r, kind)
  BY <1>3, <1>4, <1>5, CommitWrites DEF IInv
<1>7. After(r, kind) # NoCell /\ After(r, kind).start = start
  <2>1. usage[k][kind] \in Cell \cup {NoCell}
    BY DEF IInv, TypeOK, Usage
  <2>2. After(r, kind) \in Cell /\ After(r, kind).start = start
    BY <1>4, <1>5, <2>1 DEF After, Cell
  <2> QED
    BY <2>2, CellAssumption
<1>8. Counted(k, kind)'
  <2>1. row'[k] = "on"
    BY <1>3, <1>4 DEF Commit, IInv, InTransaction, InTx
  <2> QED
    BY <2>1 DEF IInv, AllCounted
<1> QED
  BY <1>4, <1>6, <1>7, <1>8 DEF Counted, Limit

(* The limits hold for every window until a request is charged with a      *)
(* clock older than the window another has charged before it.              *)
THEOREM OvershootCorrect == Spec => OvershootNeedsStraggler
<1>1. IInv /\ IInv' /\ [Next]_vars =>
       [\A k \in Keys \ late', kind \in Kinds, start \in Minutes :
          charged'[k][kind][start] > charged[k][kind][start]
            => charged'[k][kind][start] <= limit[k][kind]]_vars
  BY LimitHolds
<1> QED
  BY <1>1, Inductive, PTL DEF Spec, OvershootNeedsStraggler
=============================================================================
