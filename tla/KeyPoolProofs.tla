--------------------------- MODULE KeyPoolProofs ---------------------------
(***************************************************************************)
(* Proofs about KeyPool for every set of keys, every finite set of         *)
(* requests and every value of the bounds.                                 *)
(***************************************************************************)
EXTENDS KeyPool, FiniteSetTheorems, TLAPS

(* A minute-counter stays a natural number when a minute passes. *)
LEMMA LessType ==
  ASSUME NEW f \in [Keys -> Nat] PROVE Less(f) \in [Keys -> Nat]
BY DEF Less

(* Every cooldown is a whole number of minutes. *)
LEMMA CooldownType == ASSUME NEW n \in Nat PROVE Cooldown(n) \in Nat
BY DEF Cooldown

(* What upstream answers always falls into one of the outcome classes. *)
LEMMA ClassifyType ==
  ASSUME NEW answer \in Answers, NEW egress \in BOOLEAN
  PROVE  Classify(answer, egress) \in Classes
BY AnswersAssumption DEF Classify, Classes, FailureClasses, EgressAttributed

(* One more failure leaves a well-formed health record. *)
LEMMA FailedType ==
  ASSUME NEW h \in Health, NEW c \in FailureClasses
  PROVE  Failed(h, c) \in Health
BY BoundsAssumption DEF Health, Failed

(***************************************************************************)
(* TypeOK is not inductive alone: a verdict is computed from the health of *)
(* the picked key, so a request that records must have picked one.         *)
(***************************************************************************)
LEMMA TypeStep == TypeOK /\ LockHeld /\ [Next]_vars => TypeOK'
<1> SUFFICES ASSUME TypeOK, LockHeld, [Next]_vars PROVE TypeOK'
  OBVIOUS
<1> USE BoundsAssumption DEF TypeOK
<1>cold. ColdStart \in Health
  BY DEF ColdStart, Health, NoReason
<1>eff. \A k \in Keys : Effective(k) \in Health
  BY DEF Effective
<1>view. NoView \in View
  BY DEF NoView, View
<1>fin. ASSUME NEW r \in Requests, Finish(r)
        PROVE  /\ pc' \in [Requests -> Phases]
               /\ view' \in [Requests -> View]
               /\ pick' \in [Requests -> Keys \cup {NoKey}]
               /\ probing' \in [Requests -> BOOLEAN]
               /\ tried' \in [Requests -> SUBSET Keys]
               /\ class' \in [Requests -> Classes]
               /\ retry' \in [Requests -> BOOLEAN]
               /\ verdict' \in [Requests -> Health]
  BY <1>fin, <1>cold, <1>view DEF Finish, Goto, Phases, Classes
<1>1. ASSUME NEW r \in Requests, List(r) PROVE TypeOK'
  <2>1. Listing \in View
    BY DEF Listing, Enabled, View
  <2>2. QED
    BY <1>1, <2>1 DEF List, Goto, Phases, stored, memory
<1>2. ASSUME NEW r \in Requests, ListFails(r) PROVE TypeOK'
  BY <1>2, <1>fin DEF ListFails, stored, memory
<1>3. ASSUME NEW r \in Requests, Pick(r) PROVE TypeOK'
  <2>1. Candidates(r) \in SUBSET Keys
    BY DEF Candidates, Probes, Active, Usable, View
  <2>2. ProbeTurn(r) \in BOOLEAN /\ NextSeq \in 0..(ProbeEvery - 1)
    BY DEF ProbeTurn, NextSeq
  <2>3. QED
    BY <1>3, <1>view, <2>1, <2>2 DEF Pick, Goto, Phases, stored
<1>4. ASSUME NEW r \in Requests, NothingToPick(r) PROVE TypeOK'
  <2>1. NextSeq \in 0..(ProbeEvery - 1)
    BY DEF NextSeq
  <2>2. QED
    BY <1>4, <1>fin, <2>1 DEF NothingToPick, stored
<1>5. ASSUME NEW r \in Requests, NoteAcquire(r) PROVE TypeOK'
  <2>1. pick[r] \in Keys
    BY <1>5 DEF NoteAcquire, LockHeld
  <2>2. QED
    BY <1>5, <2>1 DEF NoteAcquire, Goto, Phases, stored, locals
<1>6. ASSUME NEW r \in Requests, Dial(r) PROVE TypeOK'
  BY <1>6, ClassifyType DEF Dial, ShouldFailover, Goto, Phases, stored, memory
<1>7. ASSUME NEW r \in Requests, RecordSkipped(r) PROVE TypeOK'
  BY <1>7 DEF RecordSkipped, Goto, Phases, stored, memory
<1>8. ASSUME NEW r \in Requests, RecordNothing(r) PROVE TypeOK'
  BY <1>8 DEF RecordNothing, Goto, Phases, stored, memory, locals
<1>9. ASSUME NEW r \in Requests, RecordBegin(r) PROVE TypeOK'
  <2>1. class[r] # "ok" => class[r] \in FailureClasses
    BY <1>9 DEF RecordBegin, Classes
  <2>2. Effective(pick[r]) \in Health
    BY <1>9, <1>eff DEF LockHeld, RecordBegin, InFlight
  <2>3. PICK h \in Health : verdict' = [verdict EXCEPT ![r] = h]
    BY <1>9, <1>cold, <2>1, <2>2, FailedType DEF RecordBegin, Succeeded
  <2>4. verdict' \in [Requests -> Health]
    BY <2>3
  <2>5. QED
    BY <1>9, <2>4 DEF RecordBegin, TakeLock, Goto, Phases, stored, memory
<1>10. ASSUME NEW r \in Requests, RecordRest(r) PROVE TypeOK'
  <2>1. verdict[r].fails \in Nat
    BY <1>10 DEF Health
  <2>2. QED
    BY <1>10, <2>1, CooldownType
    DEF RecordRest, StoreCooldown, Bench, StoreRefuses, Goto, Phases, locals
<1>11. ASSUME NEW r \in Requests, RecordPersist(r) PROVE TypeOK'
  BY <1>11 DEF RecordPersist, Goto, Phases, memory, locals
<1>12. ASSUME NEW r \in Requests, RecordDirty(r) PROVE TypeOK'
  BY <1>12, <1>cold DEF RecordDirty, Recorded, Unlock, Goto, Phases, stored
<1>13. ASSUME NEW r \in Requests, RecordSettle(r) PROVE TypeOK'
  BY <1>13, <1>cold DEF RecordSettle, Recorded, Unlock, Goto, Phases, stored
<1>14. ASSUME NEW r \in Requests, Failover(r) PROVE TypeOK'
  BY <1>14 DEF Failover, ReleaseRuntime, LockHeld, InFlight, Goto, Phases, Classes, stored
<1>15. ASSUME NEW r \in Requests, Return(r) PROVE TypeOK'
  BY <1>15, <1>fin DEF Return, ReleaseRuntime, LockHeld, InFlight, stored
<1>16. ASSUME NEW k \in Keys, Create(k) \/ SetEnabled(k) \/ UpdateSecret(k) \/ Delete(k)
       PROVE TypeOK'
  BY <1>16, <1>cold DEF Create, SetEnabled, UpdateSecret, Delete, memory, locals
<1>17. CASE GenericAcquire
  BY <1>17 DEF GenericAcquire, NextSeq, stored, locals
<1>18. CASE Tick
  <2>1. \A r \in Requests : Aged(view[r]) \in View
    BY LessType DEF Aged, View
  <2>2. QED
    BY <1>18, <2>1, LessType DEF Tick
<1>19. CASE Restart
  BY <1>19, <1>cold, <1>view DEF Restart, Phases, Classes
<1>20. CASE UNCHANGED vars
  BY <1>20 DEF vars, stored, memory, locals
<1>21. QED
  BY <1>1, <1>2, <1>3, <1>4, <1>5, <1>6, <1>7, <1>8, <1>9, <1>10, <1>11, <1>12,
     <1>13, <1>14, <1>15, <1>16, <1>17, <1>18, <1>19, <1>20
  DEF Next, RequestStep, Progress

(* Who holds a key and who holds outcomeMu is preserved by every step. *)
LEMMA LockStep == TypeOK /\ LockHeld /\ [Next]_vars => LockHeld'
<1> SUFFICES ASSUME TypeOK, LockHeld, [Next]_vars PROVE LockHeld'
  OBVIOUS
<1> USE KeysAssumption, RequestsAssumption DEF LockHeld, InFlight, Recording
<1>1. ASSUME NEW r \in Requests, List(r) PROVE LockHeld'
  BY <1>1 DEF List, Goto, TypeOK
<1>fin. ASSUME NEW r \in Requests, Finish(r)
        PROVE  /\ pc'[r] = "idle" /\ pick'[r] = NoKey
               /\ \A s \in Requests \ {r} : pc'[s] = pc[s] /\ pick'[s] = pick[s]
  BY <1>fin DEF Finish, Goto, TypeOK
<1>2. ASSUME NEW r \in Requests, ListFails(r) \/ NothingToPick(r) PROVE LockHeld'
  <2>1. Finish(r) /\ lock' = lock /\ ~Recording(r)
    BY <1>2 DEF ListFails, NothingToPick
  <2>2. QED
    BY <2>1, <1>fin
<1>3. ASSUME NEW r \in Requests, Pick(r) PROVE LockHeld'
  <2>1. Candidates(r) \in SUBSET Keys
    BY DEF Candidates, Probes, Active, Usable, View, TypeOK
  <2>2. QED
    BY <1>3, <2>1 DEF Pick, Goto, TypeOK
<1>4. ASSUME NEW r \in Requests, NoteAcquire(r) \/ Dial(r) PROVE LockHeld'
  BY <1>4 DEF NoteAcquire, Dial, Goto, TypeOK, locals
<1>5. ASSUME NEW r \in Requests, RecordSkipped(r) \/ RecordNothing(r) PROVE LockHeld'
  BY <1>5 DEF RecordSkipped, RecordNothing, Goto, TypeOK, locals
<1>6. ASSUME NEW r \in Requests, RecordBegin(r) PROVE LockHeld'
  BY <1>6 DEF RecordBegin, TakeLock, Goto, TypeOK
<1>7. ASSUME NEW r \in Requests, RecordRest(r) \/ RecordPersist(r) PROVE LockHeld'
  BY <1>7 DEF RecordRest, RecordPersist, Goto, TypeOK, locals
<1>8. ASSUME NEW r \in Requests, RecordDirty(r) \/ RecordSettle(r) PROVE LockHeld'
  BY <1>8 DEF RecordDirty, RecordSettle, Recorded, Unlock, Goto, TypeOK
<1>9. ASSUME NEW r \in Requests, Failover(r) \/ Return(r) PROVE LockHeld'
  <2>1. lock' = lock /\ ~Recording(r)
    BY <1>9 DEF Failover, Return
  <2>2. CASE Failover(r)
    BY <2>1, <2>2 DEF Failover, Goto, TypeOK
  <2>3. CASE Return(r)
    BY <2>1, <2>3, <1>fin DEF Return
  <2>4. QED
    BY <1>9, <2>2, <2>3
<1>10. ASSUME NEW k \in Keys, Create(k) \/ SetEnabled(k) \/ UpdateSecret(k) \/ Delete(k)
       PROVE LockHeld'
  BY <1>10 DEF Create, SetEnabled, UpdateSecret, Delete, locals
<1>11. CASE GenericAcquire \/ Tick
  BY <1>11 DEF GenericAcquire, Tick, locals
<1>12. CASE Restart
  BY <1>12 DEF Restart
<1>13. CASE UNCHANGED vars
  BY <1>13 DEF vars, locals
<1>14. QED
  BY <1>1, <1>2, <1>3, <1>4, <1>5, <1>6, <1>7, <1>8, <1>9, <1>10, <1>11, <1>12, <1>13
  DEF Next, RequestStep, Progress

LEMMA TypeAndLock == Spec => [](TypeOK /\ LockHeld)
<1>1. Init => TypeOK /\ LockHeld
  BY BoundsAssumption, KeysAssumption, RequestsAssumption
  DEF Init, MemoryInit, TypeOK, LockHeld, InFlight, Recording, View, Health, ColdStart,
      NoView, Phases, Classes, NoReason
<1>2. TypeOK /\ LockHeld /\ [Next]_vars => (TypeOK /\ LockHeld)'
  BY TypeStep, LockStep
<1>3. QED
  BY <1>1, <1>2, PTL DEF Spec

(* Every variable keeps its type, whatever the store refuses. *)
THEOREM TypeCorrect == Spec => []TypeOK
BY TypeAndLock, PTL

(***************************************************************************)
(* A key is held exactly from its selection to its release, and outcomeMu  *)
(* exactly by the request that writes an outcome: RecordPaidOutcome calls  *)
(* never overlap.                                                          *)
(***************************************************************************)
THEOREM LockCorrect == Spec => []LockHeld
BY TypeAndLock, PTL

(***************************************************************************)
(* In-flight accounting.  A step of request r changes OnKey(k) for one key *)
(* at most, by adding or removing r; the counter follows it.               *)
(***************************************************************************)
LEMMA OnKeyFinite == \A k \in Keys : IsFiniteSet(OnKey(k))
BY RequestsAssumption, FS_Subset DEF OnKey

(* A step that neither starts nor ends a flight keeps every OnKey(k).      *)
LEMMA InflightKept ==
  ASSUME InflightExact, UNCHANGED inflight,
         \A s \in Requests : InFlight(s)' = InFlight(s),
         \A s \in Requests : InFlight(s) => pick'[s] = pick[s]
  PROVE  InflightExact'
<1>1. \A k \in Keys : OnKey(k)' = OnKey(k)
  BY DEF OnKey
<1>2. QED
  BY <1>1 DEF InflightExact

(* noteRelease: the request leaves its key, and the counter goes down.     *)
LEMMA InflightReleased ==
  ASSUME TypeOK, LockHeld, InflightExact, NEW r \in Requests,
         pc[r] = "release", ReleaseRuntime(pick[r]),
         \A s \in Requests : s # r => InFlight(s)' = InFlight(s) /\ pick'[s] = pick[s],
         ~InFlight(r)'
  PROVE  InflightExact'
<1>1. PICK k \in Keys : k = pick[r] /\ r \in OnKey(k)
  BY DEF LockHeld, InFlight, OnKey
<1>2. OnKey(k)' = OnKey(k) \ {r}
  BY <1>1 DEF OnKey
<1>3. \A j \in Keys : j # k => OnKey(j)' = OnKey(j)
  BY <1>1 DEF OnKey
<1>4. Cardinality(OnKey(k)') = Cardinality(OnKey(k)) - 1
  <2>1. IsFiniteSet(OnKey(k))
    BY OnKeyFinite
  <2>2. QED
    BY <1>1, <1>2, <2>1, FS_RemoveElement
<1>5. Cardinality(OnKey(k)) # 0
  BY <1>1, OnKeyFinite, FS_EmptySet
<1>6. inflight'[k] = inflight[k] - 1
  <2>1. inflight[k] \in Nat /\ inflight[k] > 0
    BY <1>5 DEF InflightExact, TypeOK
  <2>2. QED
    BY <1>1, <2>1 DEF ReleaseRuntime, TypeOK
<1>7. \A j \in Keys : j # k => inflight'[j] = inflight[j]
  BY <1>1 DEF ReleaseRuntime, TypeOK
<1>8. ASSUME NEW j \in Keys PROVE inflight'[j] = Cardinality(OnKey(j)')
  <2>1. inflight[j] = Cardinality(OnKey(j))
    BY DEF InflightExact
  <2>2. CASE j = k
    BY <2>1, <2>2, <1>4, <1>6
  <2>3. CASE j # k
    BY <2>1, <2>3, <1>3, <1>7
  <2>4. QED
    BY <2>2, <2>3
<1>9. QED
  BY <1>8 DEF InflightExact

LEMMA InflightStep ==
  TypeOK /\ LockHeld /\ InflightExact /\ [Next]_vars => InflightExact'
<1> SUFFICES ASSUME TypeOK, LockHeld, InflightExact, [Next]_vars PROVE InflightExact'
  OBVIOUS
<1>1. ASSUME NEW r \in Requests,
             List(r) \/ ListFails(r) \/ Pick(r) \/ NothingToPick(r)
      PROVE InflightExact'
  <2>1. /\ ~InFlight(r) /\ ~InFlight(r)' /\ UNCHANGED inflight
        /\ \A s \in Requests \ {r} : pc'[s] = pc[s] /\ pick'[s] = pick[s]
    BY <1>1
    DEF List, ListFails, Pick, NothingToPick, Finish, Goto, InFlight, TypeOK, memory
  <2>2. QED
    BY <2>1, InflightKept DEF InFlight
<1>2. ASSUME NEW r \in Requests, NoteAcquire(r) PROVE InflightExact'
  <2>1. PICK k \in Keys : k = pick[r] /\ r \notin OnKey(k)
    BY <1>2 DEF NoteAcquire, LockHeld, InFlight, OnKey
  <2>2. OnKey(k)' = OnKey(k) \cup {r}
    BY <1>2, <2>1 DEF NoteAcquire, Goto, OnKey, InFlight, TypeOK, locals
  <2>3. \A j \in Keys : j # k => OnKey(j)' = OnKey(j)
    BY <1>2, <2>1 DEF NoteAcquire, Goto, OnKey, InFlight, TypeOK, locals
  <2>4. Cardinality(OnKey(k)') = Cardinality(OnKey(k)) + 1
    BY <2>1, <2>2, OnKeyFinite, FS_AddElement
  <2>5. /\ inflight'[k] = inflight[k] + 1
        /\ \A j \in Keys : j # k => inflight'[j] = inflight[j]
    BY <1>2, <2>1 DEF NoteAcquire, TypeOK
  <2>6. ASSUME NEW j \in Keys PROVE inflight'[j] = Cardinality(OnKey(j)')
    <3>1. inflight[j] = Cardinality(OnKey(j))
      BY DEF InflightExact
    <3>2. CASE j = k
      BY <3>1, <3>2, <2>4, <2>5
    <3>3. CASE j # k
      BY <3>1, <3>3, <2>3, <2>5
    <3>4. QED
      BY <3>2, <3>3
  <2>7. QED
    BY <2>6 DEF InflightExact
<1>3. ASSUME NEW r \in Requests,
             \/ Dial(r) \/ RecordSkipped(r) \/ RecordNothing(r) \/ RecordBegin(r)
             \/ RecordRest(r) \/ RecordPersist(r) \/ RecordDirty(r) \/ RecordSettle(r)
      PROVE InflightExact'
  <2>1. /\ InFlight(r) /\ InFlight(r)' /\ UNCHANGED <<inflight, pick>>
        /\ \A s \in Requests \ {r} : pc'[s] = pc[s]
    BY <1>3
    DEF Dial, RecordSkipped, RecordNothing, RecordBegin, RecordRest, RecordPersist,
        RecordDirty, RecordSettle, Recorded, Unlock, Goto, InFlight, TypeOK, memory, locals
  <2>2. QED
    BY <2>1, InflightKept DEF InFlight
<1>4. ASSUME NEW r \in Requests, Failover(r) \/ Return(r) PROVE InflightExact'
  <2>1. /\ pc[r] = "release" /\ ReleaseRuntime(pick[r]) /\ ~InFlight(r)'
        /\ \A s \in Requests \ {r} : pc'[s] = pc[s] /\ pick'[s] = pick[s]
    BY <1>4 DEF Failover, Return, Finish, Goto, InFlight, TypeOK
  <2>2. QED
    BY <2>1, InflightReleased DEF InFlight
<1>5. ASSUME \/ \E k \in Keys : Create(k) \/ SetEnabled(k) \/ UpdateSecret(k) \/ Delete(k)
             \/ GenericAcquire \/ Tick \/ UNCHANGED vars
      PROVE InflightExact'
  <2>1. UNCHANGED <<inflight, pc, pick>>
    BY <1>5
    DEF Create, SetEnabled, UpdateSecret, Delete, GenericAcquire, Tick, vars, memory, locals
  <2>2. QED
    BY <2>1, InflightKept DEF InFlight
<1>6. CASE Restart
  <2>1. \A k \in Keys : OnKey(k)' = {} /\ inflight'[k] = 0
    BY <1>6 DEF Restart, OnKey, InFlight
  <2>2. QED
    BY <2>1, FS_EmptySet DEF InflightExact
<1>7. QED
  BY <1>1, <1>2, <1>3, <1>4, <1>5, <1>6 DEF Next, RequestStep, Progress

(***************************************************************************)
(* The in-flight counter of every key is exact in every reachable state,   *)
(* for any number of keys and requests, with failing stores, deletions and *)
(* restarts.                                                               *)
(***************************************************************************)
THEOREM InflightCorrect == Spec => []InflightExact
<1>1. Init => InflightExact
  <2>1. Init => \A k \in Keys : OnKey(k) = {} /\ inflight[k] = 0
    BY DEF Init, MemoryInit, OnKey, InFlight
  <2>2. QED
    BY <2>1, FS_EmptySet DEF InflightExact
<1>2. QED
  BY <1>1, InflightStep, TypeAndLock, PTL DEF Spec
(***************************************************************************)
(* A busy flag always has its probe in flight.  noteRelease clears the     *)
(* flag whoever set it, so the only step that ends a flight on k leaves    *)
(* busy[k] FALSE, and the invariant needs no strengthening beyond LockHeld.*)
(***************************************************************************)
LEMMA BusyStep ==
  TypeOK /\ LockHeld /\ BusyIsBacked /\ [Next]_vars => BusyIsBacked'
<1> SUFFICES ASSUME TypeOK, LockHeld, BusyIsBacked, [Next]_vars,
                    NEW k \in Keys, busy'[k]
             PROVE  \E s \in Requests : InFlight(s)' /\ pick'[s] = k /\ probing'[s]
  BY DEF BusyIsBacked
<1>backed. busy[k] => \E s \in Requests : InFlight(s) /\ pick[s] = k /\ probing[s]
  BY DEF BusyIsBacked
<1>1. ASSUME NEW r \in Requests, NoteAcquire(r)
      PROVE  \E s \in Requests : InFlight(s)' /\ pick'[s] = k /\ probing'[s]
  <2>1. /\ InFlight(r)' /\ UNCHANGED <<pick, probing>>
        /\ \A s \in Requests : InFlight(s) => InFlight(s)'
    BY <1>1 DEF NoteAcquire, Goto, InFlight, TypeOK, locals
  <2>2. CASE busy[k]
    BY <2>1, <2>2, <1>backed
  <2>3. CASE ~busy[k]
    <3>1. probing[r] /\ pick[r] = k
      BY <1>1, <2>3 DEF NoteAcquire, TypeOK
    <3>2. QED
      BY <2>1, <3>1
  <2>4. QED
    BY <2>2, <2>3
<1>2. ASSUME NEW r \in Requests,
             List(r) \/ ListFails(r) \/ Pick(r) \/ NothingToPick(r)
      PROVE  \E s \in Requests : InFlight(s)' /\ pick'[s] = k /\ probing'[s]
  <2>1. /\ ~InFlight(r) /\ UNCHANGED busy
        /\ \A s \in Requests \ {r} :
             pc'[s] = pc[s] /\ pick'[s] = pick[s] /\ probing'[s] = probing[s]
    BY <1>2
    DEF List, ListFails, Pick, NothingToPick, Finish, Goto, InFlight, TypeOK, memory
  <2>2. QED
    BY <2>1, <1>backed DEF InFlight
<1>3. ASSUME NEW r \in Requests,
             \/ Dial(r) \/ RecordSkipped(r) \/ RecordNothing(r) \/ RecordBegin(r)
             \/ RecordRest(r) \/ RecordPersist(r) \/ RecordDirty(r) \/ RecordSettle(r)
      PROVE  \E s \in Requests : InFlight(s)' /\ pick'[s] = k /\ probing'[s]
  <2>1. /\ InFlight(r)' /\ UNCHANGED <<busy, pick, probing>>
        /\ \A s \in Requests \ {r} : pc'[s] = pc[s]
    BY <1>3
    DEF Dial, RecordSkipped, RecordNothing, RecordBegin, RecordRest, RecordPersist,
        RecordDirty, RecordSettle, Recorded, Unlock, Goto, InFlight, TypeOK, memory, locals
  <2>2. QED
    BY <2>1, <1>backed DEF InFlight
<1>4. ASSUME NEW r \in Requests, Failover(r) \/ Return(r)
      PROVE  \E s \in Requests : InFlight(s)' /\ pick'[s] = k /\ probing'[s]
  <2>1. /\ pick[r] \in Keys /\ busy' = [busy EXCEPT ![pick[r]] = FALSE]
        /\ \A s \in Requests \ {r} :
             pc'[s] = pc[s] /\ pick'[s] = pick[s] /\ probing'[s] = probing[s]
    BY <1>4
    DEF Failover, Return, ReleaseRuntime, Finish, Goto, InFlight, LockHeld, TypeOK
  <2>2. k # pick[r] /\ busy[k]
    BY <2>1 DEF TypeOK
  <2>3. PICK s \in Requests : InFlight(s) /\ pick[s] = k /\ probing[s]
    BY <2>2, <1>backed
  <2>4. s # r
    BY <2>2, <2>3
  <2>5. QED
    BY <2>1, <2>3, <2>4 DEF InFlight
<1>5. ASSUME \/ \E j \in Keys : Create(j) \/ SetEnabled(j) \/ UpdateSecret(j) \/ Delete(j)
             \/ GenericAcquire \/ Tick \/ UNCHANGED vars
      PROVE  \E s \in Requests : InFlight(s)' /\ pick'[s] = k /\ probing'[s]
  <2>1. UNCHANGED <<busy, pc, pick, probing>>
    BY <1>5
    DEF Create, SetEnabled, UpdateSecret, Delete, GenericAcquire, Tick, vars, memory, locals
  <2>2. QED
    BY <2>1, <1>backed DEF InFlight
<1>6. CASE Restart
  BY <1>6 DEF Restart
<1>7. QED
  BY <1>1, <1>2, <1>3, <1>4, <1>5, <1>6 DEF Next, RequestStep, Progress

THEOREM BusyCorrect == Spec => []BusyIsBacked
<1>1. Init => BusyIsBacked
  BY DEF Init, MemoryInit, BusyIsBacked
<1>2. QED
  BY <1>1, BusyStep, TypeAndLock, PTL DEF Spec

(***************************************************************************)
(* Failover.  NoKeyTwice says nothing of a request between two dials; what *)
(* makes it inductive is that such a request has an attempt left, and that *)
(* a request that has ended has forgotten what it tried.                   *)
(***************************************************************************)
Attempts(r) ==
  /\ IsFiniteSet(tried[r])
  /\ pc[r] = "idle" => tried[r] = {}
  /\ pc[r] \in {"list", "pick"} => Cardinality(tried[r]) < MaxAttempts
  /\ pick[r] \notin tried[r]
  /\ pick[r] # NoKey => Cardinality(tried[r]) + 1 <= MaxAttempts

AttemptsLeft == \A r \in Requests : Attempts(r)

(* A request that moves without touching its key or its tried keys.        *)
LEMMA AttemptsKept ==
  ASSUME NEW r \in Requests, Attempts(r), pick'[r] = pick[r], tried'[r] = tried[r],
         pc'[r] \notin {"idle", "list", "pick"} \/ pc'[r] = pc[r]
  PROVE  Attempts(r)'
BY DEF Attempts

LEMMA AttemptsStep ==
  TypeOK /\ LockHeld /\ AttemptsLeft /\ [Next]_vars => AttemptsLeft'
<1> SUFFICES ASSUME TypeOK, LockHeld, AttemptsLeft, [Next]_vars, NEW s \in Requests
             PROVE  Attempts(s)'
  BY DEF AttemptsLeft
<1>s. Attempts(s)
  BY DEF AttemptsLeft
<1>empty. IsFiniteSet({}) /\ Cardinality({}) = 0
  BY FS_EmptySet
<1>fin. ASSUME Finish(s) PROVE Attempts(s)'
  <2>1. pc'[s] = "idle" /\ pick'[s] = NoKey /\ tried'[s] = {}
    BY <1>fin DEF Finish, Goto, TypeOK
  <2>2. QED
    BY <2>1, <1>empty DEF Attempts
<1>1. ASSUME NEW r \in Requests, r # s, RequestStep(r) PROVE Attempts(s)'
  <2>1. pc'[s] = pc[s] /\ pick'[s] = pick[s] /\ tried'[s] = tried[s]
    BY <1>1
    DEF RequestStep, Progress, List, ListFails, Pick, NothingToPick, NoteAcquire, Dial, RecordSkipped,
        RecordNothing, RecordBegin, RecordRest, RecordPersist, RecordDirty, RecordSettle,
        Recorded, Failover, Return, Finish, Goto, TypeOK, locals
  <2>2. QED
    BY <2>1, <1>s, AttemptsKept
<1>2. CASE List(s)
  <2>1. /\ pc[s] \in {"idle", "list"} /\ pc'[s] = "pick"
        /\ pick'[s] = pick[s] /\ tried'[s] = tried[s]
    BY <1>2 DEF List, Goto, TypeOK
  <2>2. pc[s] = "idle" => Cardinality(tried[s]) < MaxAttempts
    BY <1>s, <1>empty, BoundsAssumption DEF Attempts
  <2>3. QED
    BY <2>1, <2>2, <1>s DEF Attempts
<1>3. CASE ListFails(s) \/ NothingToPick(s) \/ Return(s)
  BY <1>3, <1>fin DEF ListFails, NothingToPick, Return
<1>4. CASE Pick(s)
  <2>1. PICK k \in Candidates(s) : pick' = [pick EXCEPT ![s] = k]
    BY <1>4 DEF Pick
  <2>2. k \notin tried[s]
    BY <2>1 DEF Candidates, Probes, Active, Usable
  <2>3. pick'[s] = k /\ tried'[s] = tried[s] /\ pc'[s] = "note" /\ pc[s] = "pick"
    BY <1>4, <2>1 DEF Pick, Goto, TypeOK
  <2>4. Cardinality(tried[s]) + 1 <= MaxAttempts
    BY <2>3, <1>s, FS_CardinalityType, BoundsAssumption DEF Attempts
  <2>5. QED
    BY <2>2, <2>3, <2>4, <1>s DEF Attempts
<1>5. CASE \/ NoteAcquire(s) \/ Dial(s) \/ RecordSkipped(s) \/ RecordNothing(s)
           \/ RecordBegin(s) \/ RecordRest(s) \/ RecordPersist(s) \/ RecordDirty(s)
           \/ RecordSettle(s)
  <2>1. /\ pick'[s] = pick[s] /\ tried'[s] = tried[s]
        /\ pc'[s] \notin {"idle", "list", "pick"}
    BY <1>5
    DEF NoteAcquire, Dial, RecordSkipped, RecordNothing, RecordBegin, RecordRest,
        RecordPersist, RecordDirty, RecordSettle, Recorded, Unlock, Goto, TypeOK, locals
  <2>2. QED
    BY <2>1, <1>s, AttemptsKept
<1>6. CASE Failover(s)
  <2>1. /\ pc'[s] = "list" /\ pick'[s] = NoKey /\ tried'[s] = tried[s] \cup {pick[s]}
        /\ Cardinality(tried[s] \cup {pick[s]}) < MaxAttempts
    BY <1>6 DEF Failover, GoesOn, Goto, TypeOK
  <2>2. IsFiniteSet(tried[s] \cup {pick[s]})
    BY <1>s, FS_AddElement DEF Attempts
  <2>3. NoKey \notin tried[s] \cup {pick[s]}
    BY <1>6, KeysAssumption DEF Failover, LockHeld, InFlight, TypeOK
  <2>4. QED
    BY <2>1, <2>2, <2>3 DEF Attempts
<1>7. ASSUME \/ \E j \in Keys : Create(j) \/ SetEnabled(j) \/ UpdateSecret(j) \/ Delete(j)
             \/ GenericAcquire \/ Tick \/ UNCHANGED vars
      PROVE  Attempts(s)'
  <2>1. UNCHANGED <<pc, pick, tried>>
    BY <1>7
    DEF Create, SetEnabled, UpdateSecret, Delete, GenericAcquire, Tick, vars, locals
  <2>2. QED
    BY <2>1, <1>s, AttemptsKept
<1>8. CASE Restart
  BY <1>8, <1>empty DEF Restart, Attempts
<1>9. QED
  BY <1>1, <1>2, <1>3, <1>4, <1>5, <1>6, <1>7, <1>8 DEF Next, RequestStep, Progress

LEMMA AttemptsHold == Spec => [](TypeOK /\ LockHeld /\ AttemptsLeft)
<1>1. Init => AttemptsLeft
  BY FS_EmptySet, BoundsAssumption DEF Init, MemoryInit, AttemptsLeft, Attempts
<1>2. QED
  BY <1>1, AttemptsStep, TypeAndLock, PTL DEF Spec

(***************************************************************************)
(* ProxyPaid never dials one key twice, nor more keys than its cap.        *)
(***************************************************************************)
THEOREM AttemptsCorrect == Spec => []NoKeyTwice
<1>1. TypeOK /\ LockHeld /\ AttemptsLeft => NoKeyTwice
  <2> SUFFICES ASSUME TypeOK, LockHeld, AttemptsLeft, NEW r \in Requests
               PROVE  /\ pick[r] \notin tried[r]
                      /\ Cardinality(tried[r]) + (IF pick[r] = NoKey THEN 0 ELSE 1)
                           <= MaxAttempts
    BY DEF NoKeyTwice
  <2>1. Attempts(r) /\ Cardinality(tried[r]) \in Nat
    BY FS_CardinalityType DEF AttemptsLeft, Attempts
  <2>2. CASE pick[r] = NoKey
    <3>1. pc[r] \in {"idle", "list", "pick"}
      BY <2>2, KeysAssumption DEF LockHeld, InFlight, TypeOK, Phases
    <3>2. Cardinality(tried[r]) <= MaxAttempts
      BY <2>1, <3>1, FS_EmptySet, BoundsAssumption DEF Attempts
    <3>3. QED
      BY <2>1, <2>2, <3>2 DEF Attempts
  <2>3. CASE pick[r] # NoKey
    BY <2>1, <2>3 DEF Attempts
  <2>4. QED
    BY <2>2, <2>3
<1>2. QED
  BY <1>1, AttemptsHold, PTL

(***************************************************************************)
(* What a request knows of itself only its own steps change, and a restart.*)
(***************************************************************************)
LEMMA OthersUntouched ==
  ASSUME TypeOK, NEW r \in Requests, NEW s \in Requests, r # s, RequestStep(r)
  PROVE  /\ pc'[s] = pc[s] /\ pick'[s] = pick[s] /\ view'[s] = view[s]
         /\ tried'[s] = tried[s] /\ class'[s] = class[s] /\ verdict'[s] = verdict[s]
<1>1. CASE List(r) \/ ListFails(r) \/ Pick(r) \/ NothingToPick(r) \/ NoteAcquire(r) \/ Dial(r)
  BY <1>1 DEF List, ListFails, Pick, NothingToPick, NoteAcquire, Dial, Finish, Goto, TypeOK, locals
<1>2. CASE \/ RecordSkipped(r) \/ RecordNothing(r) \/ RecordBegin(r) \/ RecordRest(r)
           \/ RecordPersist(r) \/ RecordDirty(r) \/ RecordSettle(r)
  BY <1>2
  DEF RecordSkipped, RecordNothing, RecordBegin, RecordRest, RecordPersist, RecordDirty,
      RecordSettle, Recorded, Goto, TypeOK, locals
<1>3. CASE Failover(r) \/ Return(r)
  BY <1>3 DEF Failover, Return, Finish, Goto, TypeOK
<1>4. QED
  BY <1>1, <1>2, <1>3 DEF RequestStep, Progress

(***************************************************************************)
(* How many steps a request can still take: nine per key it may dial, less *)
(* those of the dial it is in.  Every step uses one up, and no step of     *)
(* another request, an admin, the clock or the store gives one back: the   *)
(* safety half of RequestsEnd, for any number of keys and requests.        *)
(***************************************************************************)
StepsOfDial(phase) ==
  CASE phase = "list" -> 9 [] phase = "pick" -> 8 [] phase = "note" -> 7
    [] phase = "dial" -> 6 [] phase = "record" -> 5 [] phase = "rest" -> 4
    [] phase = "persist" -> 3 [] phase = "settle" -> 2 [] phase = "release" -> 1

StepsLeft(r) ==
  IF pc[r] = "idle" THEN 0
  ELSE 9 * (MaxAttempts - Cardinality(tried[r]) - 1) + StepsOfDial(pc[r])

LEMMA StepsOfDialAre ==
  /\ StepsOfDial("list") = 9 /\ StepsOfDial("pick") = 8 /\ StepsOfDial("note") = 7
  /\ StepsOfDial("dial") = 6 /\ StepsOfDial("record") = 5 /\ StepsOfDial("rest") = 4
  /\ StepsOfDial("persist") = 3 /\ StepsOfDial("settle") = 2 /\ StepsOfDial("release") = 1
BY DEF StepsOfDial

(* A request that has not ended has an attempt left, the one it is in.     *)
LEMMA AttemptLeft ==
  ASSUME TypeOK, LockHeld, AttemptsLeft, NEW r \in Requests
  PROVE  /\ Cardinality(tried[r]) \in Nat
         /\ pc[r] # "idle" => MaxAttempts - Cardinality(tried[r]) - 1 \in Nat
<1>1. Attempts(r) /\ Cardinality(tried[r]) \in Nat
  BY FS_CardinalityType DEF AttemptsLeft, Attempts
<1>2. pc[r] \in {"list", "pick"} => Cardinality(tried[r]) < MaxAttempts
  BY <1>1 DEF Attempts
<1>3. pc[r] \notin {"idle", "list", "pick"} => pick[r] \in Keys
  BY DEF TypeOK, LockHeld, InFlight, Phases
<1>4. pc[r] \notin {"idle", "list", "pick"} => Cardinality(tried[r]) + 1 <= MaxAttempts
  BY <1>1, <1>3, KeysAssumption DEF Attempts
<1>5. QED
  BY <1>1, <1>2, <1>4, BoundsAssumption

LEMMA StepsLeftRange ==
  ASSUME TypeOK, LockHeld, AttemptsLeft, NEW r \in Requests
  PROVE  /\ StepsLeft(r) \in 0 .. 9 * MaxAttempts
         /\ StepsLeft(r) = 0 <=> pc[r] = "idle"
<1>1. CASE pc[r] = "idle"
  BY <1>1, BoundsAssumption DEF StepsLeft
<1>2. CASE pc[r] # "idle"
  <2>1. PICK n \in Nat : n = MaxAttempts - Cardinality(tried[r]) - 1 /\ n < MaxAttempts
    BY <1>2, AttemptLeft, BoundsAssumption
  <2>2. StepsOfDial(pc[r]) \in 1 .. 9
    BY <1>2, StepsOfDialAre DEF TypeOK, Phases
  <2>3. StepsLeft(r) = 9 * n + StepsOfDial(pc[r])
    BY <1>2, <2>1 DEF StepsLeft
  <2>4. QED
    BY <1>2, <2>1, <2>2, <2>3, BoundsAssumption
<1>3. QED
  BY <1>1, <1>2

(* Within a dial each step leads to a later phase.                         *)
LEMMA StepGoesOn ==
  ASSUME TypeOK, NEW r \in Requests, pc[r] # "idle", RequestStep(r), ~Failover(r)
  PROVE  \/ pc'[r] = "idle"
         \/ /\ pc'[r] # "idle" /\ tried'[r] = tried[r]
            /\ StepsOfDial(pc'[r]) \in Nat /\ StepsOfDial(pc[r]) \in Nat
            /\ StepsOfDial(pc'[r]) < StepsOfDial(pc[r])
<1> USE StepsOfDialAre
<1>1. CASE List(r)
  BY <1>1 DEF List, Goto, TypeOK
<1>2. CASE ListFails(r) \/ NothingToPick(r) \/ Return(r)
  BY <1>2 DEF ListFails, NothingToPick, Return, Finish, Goto, TypeOK
<1>3. CASE Pick(r)
  BY <1>3 DEF Pick, Goto, TypeOK
<1>4. CASE NoteAcquire(r) \/ Dial(r)
  BY <1>4 DEF NoteAcquire, Dial, Goto, TypeOK, locals
<1>5. CASE RecordSkipped(r) \/ RecordNothing(r) \/ RecordBegin(r)
  BY <1>5 DEF RecordSkipped, RecordNothing, RecordBegin, Goto, TypeOK, locals
<1>6. CASE RecordRest(r) \/ RecordPersist(r)
  BY <1>6 DEF RecordRest, RecordPersist, Goto, TypeOK, locals
<1>7. CASE RecordDirty(r) \/ RecordSettle(r)
  BY <1>7 DEF RecordDirty, RecordSettle, Recorded, Goto, TypeOK
<1>8. QED
  BY <1>1, <1>2, <1>3, <1>4, <1>5, <1>6, <1>7 DEF RequestStep, Progress

(* A failover begins a new dial and has one attempt less.                  *)
LEMMA FailoverUses ==
  ASSUME TypeOK, LockHeld, AttemptsLeft, NEW r \in Requests, Failover(r)
  PROVE  /\ pc[r] = "release" /\ pc'[r] = "list"
         /\ Cardinality(tried'[r]) = Cardinality(tried[r]) + 1
<1>1. pc[r] = "release" /\ pc'[r] = "list" /\ tried'[r] = tried[r] \cup {pick[r]}
  BY DEF Failover, Goto, TypeOK
<1>2. IsFiniteSet(tried[r]) /\ pick[r] \notin tried[r]
  BY DEF AttemptsLeft, Attempts
<1>3. QED
  BY <1>1, <1>2, FS_AddElement

(* While a request has not ended, a step of the system either leaves it    *)
(* where it is or leaves it fewer steps to take.                           *)
StepsOnlyUsed ==
  [][\A r \in Requests :
       pc[r] # "idle" => \/ StepsLeft(r)' < StepsLeft(r)
                         \/ pc'[r] = pc[r] /\ tried'[r] = tried[r]]_vars

LEMMA StepUsesOne ==
  ASSUME TypeOK, LockHeld, AttemptsLeft, [Next]_vars, NEW r \in Requests, pc[r] # "idle"
  PROVE  \/ StepsLeft(r)' < StepsLeft(r)
         \/ pc'[r] = pc[r] /\ tried'[r] = tried[r]
<1>1. StepsLeft(r) \in Nat /\ StepsLeft(r) # 0
  BY StepsLeftRange, BoundsAssumption
<1>2. PICK n \in Nat : n = Cardinality(tried[r]) /\ MaxAttempts - n - 1 \in Nat
  BY AttemptLeft
<1>3. StepsLeft(r) = 9 * (MaxAttempts - n - 1) + StepsOfDial(pc[r])
  BY <1>2 DEF StepsLeft
<1>4. pc'[r] = "idle" => StepsLeft(r)' < StepsLeft(r)
  BY <1>1 DEF StepsLeft
<1>5. CASE RequestStep(r) /\ ~Failover(r)
  <2>1. CASE pc'[r] = "idle"
    BY <1>4, <2>1
  <2>2. CASE pc'[r] # "idle"
    <3>1. StepsLeft(r)' = 9 * (MaxAttempts - n - 1) + StepsOfDial(pc'[r])
      BY <1>2, <1>5, <2>2, StepGoesOn DEF StepsLeft
    <3>2. QED
      BY <1>2, <1>3, <1>5, <2>2, <3>1, StepGoesOn, BoundsAssumption
  <2>3. QED
    BY <2>1, <2>2
<1>6. CASE Failover(r)
  <2>1. pc[r] = "release" /\ pc'[r] = "list" /\ Cardinality(tried'[r]) = n + 1
    BY <1>2, <1>6, FailoverUses
  <2>2. StepsLeft(r)' = 9 * (MaxAttempts - (n + 1) - 1) + 9
    BY <2>1, StepsOfDialAre DEF StepsLeft
  <2>3. StepsLeft(r) = 9 * (MaxAttempts - n - 1) + 1
    BY <1>3, <2>1, StepsOfDialAre
  <2>4. QED
    BY <1>2, <2>2, <2>3, BoundsAssumption
<1>7. ASSUME NEW s \in Requests, s # r, RequestStep(s)
      PROVE  pc'[r] = pc[r] /\ tried'[r] = tried[r]
  BY <1>7, OthersUntouched
<1>8. CASE \/ \E j \in Keys : Create(j) \/ SetEnabled(j) \/ UpdateSecret(j) \/ Delete(j)
           \/ GenericAcquire \/ Tick \/ UNCHANGED vars
  BY <1>8 DEF Create, SetEnabled, UpdateSecret, Delete, GenericAcquire, Tick, vars, locals
<1>9. CASE Restart
  BY <1>4, <1>9 DEF Restart
<1>10. QED
  BY <1>5, <1>6, <1>7, <1>8, <1>9 DEF Next

(* Each step of a request that ProxyPaid has begun uses one up, whatever   *)
(* upstream answers and whatever keys are added, deleted, disabled,        *)
(* benched or re-sealed under it, and a restart takes all that are left.   *)
THEOREM RequestsRunDown == Spec => StepsOnlyUsed
<1>1. TypeOK /\ LockHeld /\ AttemptsLeft /\ [Next]_vars
        => [\A r \in Requests :
              pc[r] # "idle" => \/ StepsLeft(r)' < StepsLeft(r)
                                \/ pc'[r] = pc[r] /\ tried'[r] = tried[r]]_vars
  BY StepUsesOne
<1>2. QED
  BY <1>1, AttemptsHold, PTL DEF Spec, StepsOnlyUsed

(* So ProxyPaid ends within nine steps per key it may dial: a request has  *)
(* no step left exactly when it has ended.                                 *)
THEOREM StepsAreBounded ==
  Spec => [](\A r \in Requests : /\ StepsLeft(r) \in 0 .. 9 * MaxAttempts
                                 /\ StepsLeft(r) = 0 <=> pc[r] = "idle")
<1>1. TypeOK /\ LockHeld /\ AttemptsLeft
        => \A r \in Requests : /\ StepsLeft(r) \in 0 .. 9 * MaxAttempts
                               /\ StepsLeft(r) = 0 <=> pc[r] = "idle"
  BY StepsLeftRange
<1>2. QED
  BY <1>1, AttemptsHold, PTL

(***************************************************************************)
(* A key that has never been created is unknown to memory and to requests. *)
(***************************************************************************)
Born ==
  \A k \in Keys : row[k] = "unborn" =>
    /\ dirty[k] = NoHealth
    /\ \A r \in Requests : pick[r] # k /\ k \notin view[r].on

LEMMA BornStep == TypeOK /\ Born /\ [Next]_vars => Born'
<1> SUFFICES ASSUME TypeOK, Born, [Next]_vars, NEW k \in Keys, row'[k] = "unborn"
             PROVE  /\ dirty'[k] = NoHealth
                    /\ \A s \in Requests : pick'[s] # k /\ k \notin view'[s].on
  BY DEF Born
<1> USE KeysAssumption
<1>nokey. NoKey # k
  OBVIOUS
<1>none. k \notin NoView.on
  BY DEF NoView
<1>row. row[k] = "unborn"
  BY DEF TypeOK, Next, RequestStep, Progress, List, ListFails, Pick, NothingToPick, NoteAcquire, Dial,
         RecordSkipped, RecordNothing, RecordBegin, RecordRest, RecordPersist, RecordDirty,
         RecordSettle, Failover, Return, Create, SetEnabled, UpdateSecret, Delete,
         GenericAcquire, Tick, Restart, vars, stored
<1>k. dirty[k] = NoHealth /\ \A s \in Requests : pick[s] # k /\ k \notin view[s].on
  BY <1>row DEF Born
<1>1. ASSUME NEW r \in Requests, RequestStep(r)
      PROVE  /\ dirty'[k] = NoHealth
             /\ \A s \in Requests : pick'[s] # k /\ k \notin view'[s].on
  <2>1. \A s \in Requests \ {r} : pick'[s] # k /\ k \notin view'[s].on
    BY <1>1, <1>k, OthersUntouched
  <2>2. CASE List(r)
    <3>1. view'[r] = Listing /\ UNCHANGED <<dirty, pick>>
      BY <2>2 DEF List, TypeOK, memory
    <3>2. k \notin Listing.on
      BY <1>row DEF Listing, Enabled
    <3>3. QED
      BY <1>k, <2>1, <3>1, <3>2
  <2>3. CASE ListFails(r) \/ NothingToPick(r) \/ Return(r)
    <3>1. pick'[r] = NoKey /\ view'[r] = NoView /\ UNCHANGED dirty
      BY <2>3 DEF ListFails, NothingToPick, Return, Finish, TypeOK, memory
    <3>2. QED
      BY <1>k, <1>none, <2>1, <3>1
  <2>4. CASE Pick(r)
    <3>1. PICK j \in Candidates(r) : pick' = [pick EXCEPT ![r] = j]
      BY <2>4 DEF Pick
    <3>2. j \in view[r].on
      BY <3>1 DEF Candidates, Probes, Active, Usable
    <3>3. view'[r] = NoView /\ UNCHANGED dirty /\ pick'[r] = j
      BY <2>4, <3>1 DEF Pick, TypeOK
    <3>4. QED
      BY <1>k, <1>none, <2>1, <3>2, <3>3
  <2>5. CASE \/ NoteAcquire(r) \/ Dial(r) \/ RecordSkipped(r) \/ RecordNothing(r)
             \/ RecordBegin(r) \/ RecordRest(r) \/ RecordPersist(r)
    BY <1>k, <2>5
    DEF NoteAcquire, Dial, RecordSkipped, RecordNothing, RecordBegin, RecordRest,
        RecordPersist, memory, locals
  <2>6. CASE RecordDirty(r) \/ RecordSettle(r)
    <3>1. UNCHANGED <<pick, view>> /\ dirty'[k] = dirty[k]
      BY <1>k, <2>6 DEF RecordDirty, RecordSettle, Recorded, TypeOK
    <3>2. QED
      BY <1>k, <3>1
  <2>7. CASE Failover(r)
    <3>1. pick'[r] = NoKey /\ UNCHANGED <<dirty, view>>
      BY <2>7 DEF Failover, TypeOK
    <3>2. QED
      BY <1>k, <2>1, <3>1
  <2>8. QED
    BY <1>1, <2>2, <2>3, <2>4, <2>5, <2>6, <2>7 DEF RequestStep, Progress
<1>2. CASE \/ \E j \in Keys : Create(j) \/ SetEnabled(j) \/ UpdateSecret(j) \/ Delete(j)
           \/ GenericAcquire \/ UNCHANGED vars
  BY <1>2, <1>k
  DEF Create, SetEnabled, UpdateSecret, Delete, GenericAcquire, vars, memory, locals
<1>3. CASE Tick
  <2>1. \A s \in Requests : view'[s].on = view[s].on
    BY <1>3 DEF Tick, Aged
  <2>2. QED
    BY <1>3, <1>k, <2>1 DEF Tick
<1>4. CASE Restart
  BY <1>4, <1>none DEF Restart
<1>5. QED
  BY <1>1, <1>2, <1>3, <1>4 DEF Next

(***************************************************************************)
(* RecordPaidOutcome.  A request that is writing an outcome knows what its *)
(* verdict means; a failing key rests from the second write on; and once   *)
(* the verdict is stored, the store has it until the request lets go of    *)
(* outcomeMu (or the key is deleted).                                      *)
(***************************************************************************)
Resting(k) == k \in Live => cool[k] > 0 \/ bench[k] > 0

Outcome(r) ==
  /\ Recording(r) => (verdict[r].reason = NoReason <=> class[r] = "ok")
  /\ pc[r] \in {"persist", "settle"} /\ class[r] # "ok" => Resting(pick[r])
  /\ pc[r] = "settle" /\ pick[r] \in Live => health[pick[r]] = verdict[r]

Outcomes == \A r \in Requests : Outcome(r)

(* No key comes to life and none is written under a recording request: it  *)
(* keeps what it knows of its key in a step that is not its own.           *)
LEMMA OutcomeKept ==
  ASSUME TypeOK, NEW s \in Requests, Outcome(s), pick[s] \in Keys,
         Recording(s)' => Recording(s),
         pc'[s] = pc[s], pick'[s] = pick[s], class'[s] = class[s], verdict'[s] = verdict[s],
         Recording(s) /\ pick[s] \in Live' =>
           /\ pick[s] \in Live
           /\ cool'[pick[s]] = cool[pick[s]] /\ bench'[pick[s]] = bench[pick[s]]
           /\ health'[pick[s]] = health[pick[s]]
  PROVE  Outcome(s)'
BY DEF Outcome, Recording, Resting

LEMMA OutcomesStep ==
  TypeOK /\ LockHeld /\ Born /\ Outcomes /\ [Next]_vars => Outcomes'
<1> SUFFICES ASSUME TypeOK, LockHeld, Born, Outcomes, [Next]_vars, NEW s \in Requests
             PROVE  Outcome(s)'
  BY DEF Outcomes
<1>s. Outcome(s)
  BY DEF Outcomes
<1>quiet. ASSUME ~Recording(s)' PROVE Outcome(s)'
  BY <1>quiet DEF Outcome, Recording
<1> SUFFICES ASSUME Recording(s)' PROVE Outcome(s)'
  BY <1>quiet
<1>1. CASE RecordBegin(s)
  <2>1. pc'[s] = "rest" /\ class'[s] = class[s] /\ class[s] \in FailureClasses \cup {"ok"}
    BY <1>1 DEF RecordBegin, Goto, TypeOK, Classes
  <2>2. verdict'[s] = IF class[s] = "ok" THEN Succeeded ELSE Failed(Effective(pick[s]), class[s])
    BY <1>1 DEF RecordBegin, TypeOK
  <2>3. verdict'[s].reason = NoReason <=> class'[s] = "ok"
    BY <2>1, <2>2 DEF Succeeded, ColdStart, Failed, FailureClasses, NoReason
  <2>4. QED
    BY <2>1, <2>3 DEF Outcome
<1>2. CASE RecordRest(s)
  <2>1. PICK k \in Keys : k = pick[s]
    BY <1>2 DEF RecordRest, LockHeld, InFlight
  <2>2. /\ pc[s] = "rest" /\ pc'[s] = "persist" /\ pick'[s] = k
        /\ class'[s] = class[s] /\ verdict'[s] = verdict[s] /\ Live' = Live
    BY <1>2, <2>1 DEF RecordRest, Goto, TypeOK, locals, Live
  <2>3. verdict[s].reason = NoReason <=> class[s] = "ok"
    BY <1>s, <2>2 DEF Outcome, Recording
  <2>4. class[s] # "ok" => cool'[k] > 0 \/ bench'[k] > 0
    <3>1. CASE class[s] = "unauthorized"
      BY <1>2, <2>1, <3>1, BoundsAssumption DEF RecordRest, Bench, TypeOK
    <3>2. CASE class[s] \in {"rate_limited", "upstream_5xx"}
      <4>1. \/ cool' = [cool EXCEPT ![k] = Cooldown(verdict[s].fails)]
            \/ bench' = [bench EXCEPT ![k] = 1]
        BY <1>2, <2>1, <3>2 DEF RecordRest, StoreCooldown, Bench
      <4>2. Cooldown(verdict[s].fails) > 0
        <5>1. verdict[s].fails \in Nat
          BY DEF TypeOK, Health
        <5>2. QED
          BY <5>1 DEF Cooldown
      <4>3. QED
        BY <4>1, <4>2 DEF TypeOK
    <3>3. QED
      BY <1>2, <3>1, <3>2 DEF RecordRest
  <2>5. QED
    BY <2>2, <2>3, <2>4 DEF Outcome, Resting
<1>3. CASE RecordPersist(s)
  <2>1. PICK k \in Keys : k = pick[s]
    BY <1>3 DEF RecordPersist, LockHeld, InFlight
  <2>2. /\ pc[s] = "persist" /\ pc'[s] = "settle" /\ pick'[s] = k
        /\ class'[s] = class[s] /\ verdict'[s] = verdict[s] /\ Live' = Live
        /\ cool' = cool /\ bench' = bench /\ health'[k] = verdict[s]
    BY <1>3, <2>1 DEF RecordPersist, Goto, TypeOK, memory, locals, Live
  <2>3. QED
    BY <1>s, <2>1, <2>2 DEF Outcome, Recording, Resting
<1>4. ASSUME RequestStep(s), ~RecordBegin(s), ~RecordRest(s), ~RecordPersist(s)
      PROVE  ~Recording(s)'
  BY <1>4
  DEF RequestStep, Progress, List, ListFails, Pick, NothingToPick, NoteAcquire, Dial, RecordSkipped,
      RecordNothing, RecordDirty, RecordSettle, Recorded, Failover, Return, Finish, Goto,
      Recording, TypeOK
<1>5. ASSUME NEW r \in Requests, r # s, RequestStep(r) PROVE Outcome(s)'
  <2>1. /\ pc'[s] = pc[s] /\ pick'[s] = pick[s]
        /\ class'[s] = class[s] /\ verdict'[s] = verdict[s]
    BY <1>5, OthersUntouched
  <2>2. Recording(s)
    BY <2>1 DEF Recording
  <2>3. ~Recording(r)
    BY <1>5, <2>2 DEF LockHeld
  <2>4. UNCHANGED <<row, cool, bench, health>>
    BY <1>5, <2>3
    DEF RequestStep, Progress, List, ListFails, Pick, NothingToPick, NoteAcquire, Dial,
        RecordSkipped, RecordNothing, RecordBegin, RecordRest, RecordPersist, RecordDirty,
        RecordSettle, Failover, Return, Recording, stored, memory
  <2>5. pick[s] \in Keys
    BY <2>2 DEF LockHeld, Recording, InFlight
  <2>6. QED
    BY <1>s, <2>1, <2>2, <2>4, <2>5, OutcomeKept DEF Live
<1>6. ASSUME NEW j \in Keys, Create(j) \/ SetEnabled(j) \/ UpdateSecret(j) \/ Delete(j)
      PROVE  Outcome(s)'
  <2>1. UNCHANGED <<pc, pick, class, verdict, bench>>
    BY <1>6 DEF Create, SetEnabled, UpdateSecret, Delete, memory, locals
  <2>2. Recording(s)
    BY <2>1 DEF Recording
  <2>3. pick[s] \in Keys /\ row[pick[s]] # "unborn"
    BY <2>2 DEF LockHeld, Recording, InFlight, Born
  <2>4. pick[s] \in Live' => /\ pick[s] \in Live
                            /\ cool'[pick[s]] = cool[pick[s]] /\ health'[pick[s]] = health[pick[s]]
    BY <1>6, <2>3 DEF Create, SetEnabled, UpdateSecret, Delete, Live, TypeOK
  <2>5. QED
    BY <1>s, <2>1, <2>2, <2>3, <2>4, OutcomeKept
<1>7. CASE GenericAcquire \/ UNCHANGED vars
  <2>1. UNCHANGED <<pc, pick, class, verdict, row, cool, health, bench>>
    BY <1>7 DEF GenericAcquire, vars, stored, memory, locals
  <2>2. Recording(s)
    BY <2>1 DEF Recording
  <2>3. pick[s] \in Keys
    BY <2>2 DEF LockHeld, Recording, InFlight
  <2>4. QED
    BY <1>s, <2>1, <2>2, <2>3, OutcomeKept DEF Live
<1>8. CASE Tick
  BY <1>8, RequestsAssumption DEF Tick, LockHeld, Recording
<1>9. CASE Restart
  BY <1>9 DEF Restart, Recording
<1>10. QED
  BY <1>1, <1>2, <1>3, <1>4, <1>5, <1>6, <1>7, <1>8, <1>9 DEF Next

OutcomeInv == TypeOK /\ LockHeld /\ Born /\ Outcomes

LEMMA OutcomesHold == Spec => []OutcomeInv
<1>1. Init => Born /\ Outcomes
  BY KeysAssumption DEF Init, MemoryInit, Born, Outcomes, Outcome, Recording, NoView
<1>2. QED
  BY <1>1, BornStep, OutcomesStep, TypeAndLock, PTL DEF Spec, OutcomeInv

(***************************************************************************)
(* The only steps that change a verdict on a key that stays: the request   *)
(* that records one on it writes the store, or memory, or takes memory's   *)
(* word back; and a restart.                                               *)
(***************************************************************************)
LEMMA VerdictChanges ==
  ASSUME OutcomeInv, [Next]_vars, NEW k \in Live, k \in Live', ~Restart,
         Effective(k)' # Effective(k)
  PROVE  \E r \in Requests :
           /\ pick[r] = k /\ pc[r] \in {"persist", "settle"} /\ Effective(k)' = verdict[r]
           /\ UNCHANGED <<cool, bench>>
<1> USE DEF OutcomeInv
<1>k. k \in Keys /\ row[k] \in {"on", "off"} /\ row'[k] \in {"on", "off"}
  BY DEF Live
<1>1. ASSUME NEW r \in Requests, RecordPersist(r) PROVE pick[r] = k /\ Effective(k)' = verdict[r]
  <2>1. pick[r] \in Keys /\ dirty' = dirty /\ health' = [health EXCEPT ![pick[r]] = verdict[r]]
    BY <1>1 DEF RecordPersist, LockHeld, InFlight, memory
  <2>2. QED
    BY <1>k, <2>1 DEF Effective, TypeOK
<1>2. ASSUME NEW r \in Requests, RecordDirty(r) PROVE pick[r] = k /\ Effective(k)' = verdict[r]
  <2>1. pick[r] \in Keys /\ health' = health /\ dirty' = [dirty EXCEPT ![pick[r]] = verdict[r]]
    BY <1>2 DEF RecordDirty, LockHeld, InFlight, stored
  <2>2. verdict[r] # NoHealth
    BY HealthAssumption DEF TypeOK
  <2>3. QED
    BY <1>k, <2>1, <2>2 DEF Effective, TypeOK
<1>3. ASSUME NEW r \in Requests, RecordSettle(r) PROVE pick[r] = k /\ Effective(k)' = verdict[r]
  <2>1. pick[r] \in Keys /\ health' = health /\ dirty' = [dirty EXCEPT ![pick[r]] = NoHealth]
    BY <1>3 DEF RecordSettle, LockHeld, InFlight, stored
  <2>2. pick[r] = k
    BY <1>k, <2>1 DEF Effective, TypeOK
  <2>3. health[k] = verdict[r]
    BY <1>3, <2>2 DEF RecordSettle, Outcomes, Outcome
  <2>4. QED
    BY <1>k, <2>1, <2>2, <2>3 DEF Effective, TypeOK
<1>4. ASSUME NEW r \in Requests, RecordPersist(r) \/ RecordDirty(r) \/ RecordSettle(r)
      PROVE  pc[r] \in {"persist", "settle"} /\ UNCHANGED <<cool, bench>>
  BY <1>4 DEF RecordPersist, RecordDirty, RecordSettle, stored, memory
<1>5. ASSUME NEW r \in Requests, RequestStep(r),
             ~RecordPersist(r), ~RecordDirty(r), ~RecordSettle(r)
      PROVE  UNCHANGED <<dirty, health>>
  BY <1>5
  DEF RequestStep, Progress, List, ListFails, Pick, NothingToPick, NoteAcquire, Dial,
      RecordSkipped, RecordNothing, RecordBegin, RecordRest, Failover, Return, stored, memory
<1>6. ASSUME NEW j \in Keys, Create(j) \/ SetEnabled(j) \/ UpdateSecret(j) \/ Delete(j)
      PROVE  Effective(k)' = Effective(k)
  BY <1>6, <1>k DEF Create, SetEnabled, UpdateSecret, Delete, Effective, memory, TypeOK
<1>7. CASE GenericAcquire \/ Tick \/ UNCHANGED vars
  BY <1>7 DEF GenericAcquire, Tick, Effective, vars, stored, memory
<1>8. ASSUME UNCHANGED <<dirty, health>> PROVE FALSE
  BY <1>8 DEF Effective
<1>9. QED
  BY <1>1, <1>2, <1>3, <1>4, <1>5, <1>6, <1>7, <1>8 DEF Next

(***************************************************************************)
(* RecordPaidOutcome writes the rest before the verdict: no step takes a   *)
(* proven key straight to its trial, for any number of keys and requests,  *)
(* with failing stores, deletions, edits and minutes passing; but for a    *)
(* restart between the two writes.                                         *)
(***************************************************************************)
THEOREM RestsFirst == Spec => RestBeforeTrial
<1>1. ASSUME OutcomeInv, [Next]_vars, NEW k \in Live, Proven(k), OnTrial(k)'
      PROVE  Restart
  <2> SUFFICES ASSUME ~Restart PROVE FALSE
    OBVIOUS
  <2>1. k \in Live' /\ ~Proven(k)' /\ cool'[k] = 0 /\ bench'[k] = 0
    BY <1>1 DEF OnTrial
  <2>2. Effective(k)' # Effective(k)
    BY <1>1, <2>1 DEF Proven
  <2>3. PICK r \in Requests :
          /\ pick[r] = k /\ pc[r] \in {"persist", "settle"} /\ Effective(k)' = verdict[r]
          /\ UNCHANGED <<cool, bench>>
    BY <1>1, <2>1, <2>2, VerdictChanges
  <2>4. verdict[r].reason # NoReason
    BY <2>1, <2>3 DEF Proven
  <2>5. class[r] # "ok" /\ Resting(k)
    BY <1>1, <2>3, <2>4 DEF OutcomeInv, Outcomes, Outcome, Recording
  <2>6. cool[k] = 0 /\ bench[k] = 0
    BY <2>1, <2>3
  <2>7. QED
    BY <1>1, <2>5, <2>6 DEF Resting
<1>2. OutcomeInv /\ [Next]_vars
        => [\A k \in Live : Proven(k) /\ OnTrial(k)' => Restart]_vars
  BY <1>1
<1>3. QED
  BY <1>2, OutcomesHold, PTL DEF Spec, RestBeforeTrial

(* A key that lives and is not deleted lives on. *)
LEMMA LivesOn ==
  ASSUME TypeOK, [Next]_vars, NEW k \in Live, row'[k] # "gone"
  PROVE  k \in Live'
<1>1. k \in Keys /\ row[k] \in {"on", "off"}
  BY DEF Live
<1>2. row'[k] \in {"on", "off", "gone"}
  BY <1>1
  DEF TypeOK, Next, RequestStep, Progress, List, ListFails, Pick, NothingToPick, NoteAcquire, Dial,
      RecordSkipped, RecordNothing, RecordBegin, RecordRest, RecordPersist, RecordDirty,
      RecordSettle, Failover, Return, Create, SetEnabled, UpdateSecret, Delete,
      GenericAcquire, Tick, Restart, vars, stored
<1>3. QED
  BY <1>1, <1>2 DEF Live

LEMMA OnlySuccessProves ==
  ASSUME OutcomeInv, [Next]_vars, ~Restart,
         NEW k \in Live, ~Proven(k), Proven(k)', row'[k] # "gone"
  PROVE  \E r \in Requests : Recording(r) /\ pick[r] = k /\ class[r] = "ok"
<1>1. k \in Live'
  BY LivesOn DEF OutcomeInv
<1>2. Effective(k)' # Effective(k)
  BY DEF Proven
<1>3. PICK r \in Requests :
        pick[r] = k /\ pc[r] \in {"persist", "settle"} /\ Effective(k)' = verdict[r]
  BY <1>1, <1>2, VerdictChanges
<1>4. Recording(r) /\ verdict[r].reason = NoReason
  BY <1>3 DEF Recording, Proven
<1>5. class[r] = "ok"
  BY <1>4 DEF OutcomeInv, Outcomes, Outcome
<1>6. QED
  BY <1>3, <1>4, <1>5

(***************************************************************************)
(* Whatever the store refuses, only a recorded success restores a failing  *)
(* key while the process runs: no admin edit, no minute, no outcome of     *)
(* another key or of another class does.                                   *)
(***************************************************************************)
THEOREM RestoredBySuccess ==
  Spec => [][\A k \in Live : ~Proven(k) /\ Proven(k)' /\ row'[k] # "gone"
               => \/ Restart
                  \/ \E r \in Requests : Recording(r) /\ pick[r] = k /\ class[r] = "ok"]_vars
<1>1. OutcomeInv /\ [Next]_vars
        => [\A k \in Live : ~Proven(k) /\ Proven(k)' /\ row'[k] # "gone"
               => \/ Restart
                  \/ \E r \in Requests : Recording(r) /\ pick[r] = k /\ class[r] = "ok"]_vars
  BY OnlySuccessProves
<1>2. QED
  BY <1>1, OutcomesHold, PTL DEF Spec

(***************************************************************************)
(* Where the store refuses nothing, healthDirty holds only successes that  *)
(* changed no verdict (MustFlush), so it may differ from the store in the  *)
(* verdict only between the last two writes of one recording.  The rows an *)
(* acquire has listed as clean were then proven when it read them.         *)
(***************************************************************************)
Settling(k) == \E r \in Requests : pc[r] = "settle" /\ pick[r] = k

KeyWaits(k) ==
  k \in Live /\ dirty[k] # NoHealth =>
    /\ dirty[k].reason = NoReason
    /\ health[k].reason = NoReason \/ Settling(k)

Waiting == \A k \in Keys : KeyWaits(k)

CleanWasProven == \A r \in Requests : view[r].clean \subseteq view[r].proven

LEMMA WaitingStep ==
  ~StoreMayFail /\ OutcomeInv /\ Waiting /\ [Next]_vars => Waiting'
<1> SUFFICES ASSUME ~StoreMayFail, OutcomeInv, Waiting, [Next]_vars, NEW k \in Keys,
                    k \in Live', dirty'[k] # NoHealth
             PROVE  /\ dirty'[k].reason = NoReason
                    /\ health'[k].reason = NoReason \/ Settling(k)'
  BY DEF Waiting, KeyWaits
<1> USE DEF OutcomeInv
<1>k. k \in Live /\ dirty[k] # NoHealth =>
        /\ dirty[k].reason = NoReason
        /\ health[k].reason = NoReason \/ Settling(k)
  BY DEF Waiting, KeyWaits
<1>1. ASSUME NEW r \in Requests, RecordPersist(r)
      PROVE  dirty'[k].reason = NoReason /\ (health'[k].reason = NoReason \/ Settling(k)')
  <2>1. /\ dirty' = dirty /\ Live' = Live /\ pick' = pick
        /\ health' = [health EXCEPT ![pick[r]] = verdict[r]]
        /\ pc' = [pc EXCEPT ![r] = "settle"] /\ pc[r] = "persist"
    BY <1>1 DEF RecordPersist, Goto, Live, memory, locals
  <2>2. CASE pick[r] = k
    BY <1>k, <2>1, <2>2 DEF Settling, TypeOK
  <2>3. CASE pick[r] # k
    <3>1. health'[k] = health[k]
      BY <2>1, <2>3 DEF TypeOK
    <3>2. Settling(k) => Settling(k)'
      BY <2>1 DEF Settling, TypeOK
    <3>3. QED
      BY <1>k, <2>1, <3>1, <3>2
  <2>4. QED
    BY <2>2, <2>3
<1>2. ASSUME NEW r \in Requests, RecordDirty(r)
      PROVE  dirty'[k].reason = NoReason /\ (health'[k].reason = NoReason \/ Settling(k)')
  <2>1. /\ dirty' = [dirty EXCEPT ![pick[r]] = verdict[r]] /\ Live' = Live /\ pick' = pick
        /\ health' = health /\ pc[r] = "persist"
        /\ pc' = [pc EXCEPT ![r] = "release"]
    BY <1>2 DEF RecordDirty, Recorded, Goto, Live, stored
  <2>2. Recording(r)
    BY <2>1 DEF Recording
  <2>3. CASE pick[r] = k
    <3>1. ~StoreRefuses(k)
      BY <2>1 DEF StoreRefuses, Live
    <3>2. class[r] = "ok" /\ Effective(k).reason = NoReason
      BY <1>2, <2>3, <3>1 DEF RecordDirty, MustFlush
    <3>3. verdict[r].reason = NoReason
      BY <2>2, <3>2 DEF Outcomes, Outcome
    <3>4. ~Settling(k)
      BY <2>1, <2>2 DEF Settling, LockHeld, Recording
    <3>5. health[k].reason = NoReason
      BY <1>k, <2>1, <3>2, <3>4 DEF Effective
    <3>6. QED
      BY <2>1, <2>3, <3>3, <3>5 DEF TypeOK
  <2>4. CASE pick[r] # k
    <3>1. dirty'[k] = dirty[k]
      BY <2>1, <2>4 DEF TypeOK
    <3>2. Settling(k) => Settling(k)'
      BY <2>1 DEF Settling, TypeOK
    <3>3. QED
      BY <1>k, <2>1, <3>1, <3>2
  <2>5. QED
    BY <2>3, <2>4
<1>3. ASSUME NEW r \in Requests, RecordSettle(r)
      PROVE  dirty'[k].reason = NoReason /\ (health'[k].reason = NoReason \/ Settling(k)')
  <2>1. /\ dirty' = [dirty EXCEPT ![pick[r]] = NoHealth] /\ Live' = Live /\ pick' = pick
        /\ health' = health /\ pc[r] = "settle"
    BY <1>3 DEF RecordSettle, Recorded, Live, stored
  <2>2. pick[r] # k /\ dirty'[k] = dirty[k]
    BY <2>1 DEF TypeOK
  <2>3. ~Settling(k)
    BY <2>1, <2>2 DEF Settling, LockHeld, Recording
  <2>4. QED
    BY <1>k, <2>1, <2>2, <2>3
<1>4. ASSUME NEW r \in Requests, RequestStep(r),
             ~RecordPersist(r), ~RecordDirty(r), ~RecordSettle(r)
      PROVE  dirty'[k].reason = NoReason /\ (health'[k].reason = NoReason \/ Settling(k)')
  <2>1. UNCHANGED <<row, dirty, health>> /\ pc[r] # "settle"
    BY <1>4
    DEF RequestStep, Progress, List, ListFails, Pick, NothingToPick, NoteAcquire, Dial,
        RecordSkipped, RecordNothing, RecordBegin, RecordRest, Failover, Return, stored, memory
  <2>2. Settling(k) => Settling(k)'
    <3>1. ASSUME NEW s \in Requests, pc[s] = "settle", pick[s] = k
          PROVE  pc'[s] = "settle" /\ pick'[s] = k
      BY <1>4, <2>1, <3>1, OthersUntouched
    <3>2. QED
      BY <3>1 DEF Settling
  <2>3. QED
    BY <1>k, <2>1, <2>2 DEF Live
<1>5. ASSUME NEW j \in Keys, Create(j) \/ SetEnabled(j) \/ UpdateSecret(j) \/ Delete(j)
      PROVE  dirty'[k].reason = NoReason /\ (health'[k].reason = NoReason \/ Settling(k)')
  <2>1. UNCHANGED <<dirty, pc, pick>>
    BY <1>5 DEF Create, SetEnabled, UpdateSecret, Delete, memory, locals
  <2>2. k \in Live /\ health'[k] = health[k]
    BY <1>5, <2>1 DEF Create, SetEnabled, UpdateSecret, Delete, Live, Born, TypeOK
  <2>3. QED
    BY <1>k, <2>1, <2>2 DEF Settling
<1>6. CASE GenericAcquire \/ Tick \/ UNCHANGED vars
  <2>1. UNCHANGED <<row, dirty, health, pc, pick>>
    BY <1>6 DEF GenericAcquire, Tick, vars, stored, memory, locals
  <2>2. QED
    BY <1>k, <2>1 DEF Settling, Live
<1>7. CASE Restart
  BY <1>7 DEF Restart
<1>8. QED
  BY <1>1, <1>2, <1>3, <1>4, <1>5, <1>6, <1>7 DEF Next

LEMMA CleanStep ==
  OutcomeInv /\ Waiting /\ CleanWasProven /\ [Next]_vars => CleanWasProven'
<1> SUFFICES ASSUME OutcomeInv, Waiting, CleanWasProven, [Next]_vars, NEW s \in Requests
             PROVE  view'[s].clean \subseteq view'[s].proven
  BY DEF CleanWasProven
<1> USE DEF OutcomeInv
<1>s. view[s].clean \subseteq view[s].proven
  BY DEF CleanWasProven
<1>none. NoView.clean \subseteq NoView.proven
  BY DEF NoView
<1>1. ASSUME NEW r \in Requests, r # s, RequestStep(r) PROVE view'[s] = view[s]
  BY <1>1, OthersUntouched
<1>2. CASE List(s)
  <2>1. view'[s] = Listing
    BY <1>2 DEF List, TypeOK
  <2>2. ASSUME NEW k \in Enabled, health[k].reason = NoReason PROVE Proven(k)
    <3>1. k \in Keys /\ k \in Live
      BY DEF Enabled, Live
    <3>2. QED
      BY <2>2, <3>1 DEF Waiting, KeyWaits, Proven, Effective
  <2>3. QED
    BY <2>1, <2>2 DEF Listing
<1>3. CASE ListFails(s) \/ NothingToPick(s) \/ Return(s) \/ Pick(s)
  <2>1. view'[s] = NoView
    BY <1>3 DEF ListFails, NothingToPick, Return, Pick, Finish, TypeOK
  <2>2. QED
    BY <1>none, <2>1
<1>4. CASE \/ NoteAcquire(s) \/ Dial(s) \/ RecordSkipped(s) \/ RecordNothing(s)
           \/ RecordBegin(s) \/ RecordRest(s) \/ RecordPersist(s) \/ RecordDirty(s)
           \/ RecordSettle(s) \/ Failover(s)
  BY <1>4, <1>s
  DEF NoteAcquire, Dial, RecordSkipped, RecordNothing, RecordBegin, RecordRest, RecordPersist,
      RecordDirty, RecordSettle, Recorded, Failover, locals
<1>5. CASE \/ \E j \in Keys : Create(j) \/ SetEnabled(j) \/ UpdateSecret(j) \/ Delete(j)
           \/ GenericAcquire \/ UNCHANGED vars
  BY <1>5, <1>s DEF Create, SetEnabled, UpdateSecret, Delete, GenericAcquire, vars, locals
<1>6. CASE Tick
  BY <1>6, <1>s DEF Tick, Aged
<1>7. CASE Restart
  BY <1>7, <1>none DEF Restart
<1>8. QED
  BY <1>1, <1>2, <1>3, <1>4, <1>5, <1>6, <1>7, <1>s DEF Next, RequestStep, Progress

LEMMA WaitingHolds == ~StoreMayFail => (Spec => [](OutcomeInv /\ Waiting /\ CleanWasProven))
<1> SUFFICES ASSUME ~StoreMayFail PROVE Spec => [](OutcomeInv /\ Waiting /\ CleanWasProven)
  OBVIOUS
<1>1. Init => Waiting /\ CleanWasProven
  BY DEF Init, MemoryInit, Waiting, KeyWaits, CleanWasProven, NoView
<1>2. OutcomeInv /\ Waiting /\ CleanWasProven /\ [Next]_vars => (Waiting /\ CleanWasProven)'
  BY WaitingStep, CleanStep
<1>3. QED
  BY <1>1, <1>2, OutcomesHold, PTL DEF Spec

(***************************************************************************)
(* With a store that works, a restart changes no verdict either: what it   *)
(* loses of healthDirty are successes of keys that were proven already.    *)
(* Refused writes are what RestoredBySuccess leaves to a restart.          *)
(***************************************************************************)
THEOREM RestoresCorrect == ~StoreMayFail => (Spec => OnlySuccessRestores)
<1> SUFFICES ASSUME ~StoreMayFail PROVE Spec => OnlySuccessRestores
  OBVIOUS
<1>1. ASSUME OutcomeInv, Waiting, [Next]_vars,
             NEW k \in Live, ~Proven(k), Proven(k)', row'[k] # "gone"
      PROVE  \E r \in Requests : Recording(r) /\ pick[r] = k /\ class[r] = "ok"
  <2>1. CASE Restart
    <3>1. k \in Keys /\ Proven(k)' = (health[k].reason = NoReason)
      BY <2>1 DEF Restart, Proven, Effective, Live
    <3>2. dirty[k] # NoHealth => dirty[k].reason = NoReason
      BY <1>1, <3>1 DEF Waiting, KeyWaits
    <3>3. QED
      BY <1>1, <3>1, <3>2 DEF Proven, Effective
  <2>2. QED
    BY <1>1, <2>1, OnlySuccessProves
<1>2. OutcomeInv /\ Waiting /\ [Next]_vars
        => [\A k \in Live : ~Proven(k) /\ Proven(k)' /\ row'[k] # "gone"
               => \E r \in Requests : Recording(r) /\ pick[r] = k /\ class[r] = "ok"]_vars
  BY <1>1
<1>3. QED
  BY <1>2, WaitingHolds, PTL DEF Spec, OnlySuccessRestores

(* Between two outcomes a restart of a process whose store works loses no  *)
(* verdict.                                                                *)
THEOREM VerdictsSurvive == ~StoreMayFail => (Spec => RestartKeepsVerdicts)
<1> SUFFICES ASSUME ~StoreMayFail PROVE Spec => RestartKeepsVerdicts
  OBVIOUS
<1>1. ASSUME OutcomeInv, Waiting, Restart, lock = NoRequest, NEW k \in Live
      PROVE  Proven(k)' = Proven(k)
  <2>1. k \in Keys /\ Proven(k)' = (health[k].reason = NoReason)
    BY <1>1 DEF Restart, Proven, Effective, Live
  <2>2. ~Settling(k)
    BY <1>1, RequestsAssumption DEF OutcomeInv, Settling, LockHeld, Recording
  <2>3. dirty[k] # NoHealth => dirty[k].reason = NoReason /\ health[k].reason = NoReason
    BY <1>1, <2>1, <2>2 DEF Waiting, KeyWaits
  <2>4. QED
    BY <2>1, <2>3 DEF Proven, Effective
<1>2. OutcomeInv /\ Waiting
        => [Restart /\ lock = NoRequest => \A k \in Live : Proven(k)' = Proven(k)]_vars
  BY <1>1
<1>3. QED
  BY <1>2, WaitingHolds, PTL DEF RestartKeepsVerdicts

(***************************************************************************)
(* With a store that works, normal traffic goes to keys that were proven   *)
(* when AcquireFor read the rows or when it chose, however stale the rows  *)
(* have become in between.                                                 *)
(***************************************************************************)
THEOREM PicksCorrect == ~StoreMayFail => (Spec => NormalPickWasProven)
<1> SUFFICES ASSUME ~StoreMayFail PROVE Spec => NormalPickWasProven
  OBVIOUS
<1>1. ASSUME OutcomeInv, CleanWasProven, [Next]_vars, NEW r \in Requests,
             pc[r] = "pick", pc'[r] = "note", ~probing'[r]
      PROVE  pick'[r] \in view[r].proven \/ Proven(pick'[r])
  <2> USE DEF OutcomeInv
  <2>1. Pick(r)
    <3>1. ASSUME NEW s \in Requests, RequestStep(s) PROVE s = r
      BY <1>1, <3>1, OthersUntouched
    <3>2. ASSUME RequestStep(r), ~Pick(r) PROVE FALSE
      BY <1>1, <3>2
      DEF RequestStep, Progress, List, ListFails, NothingToPick, NoteAcquire, Dial, RecordSkipped,
          RecordNothing, RecordBegin, RecordRest, RecordPersist, RecordDirty, RecordSettle,
          Failover, Return, Finish, Goto, TypeOK
    <3>3. ASSUME ~\E s \in Requests : RequestStep(s) PROVE pc'[r] # "note"
      BY <1>1, <3>3
      DEF Next, Create, SetEnabled, UpdateSecret, Delete, GenericAcquire, Tick, Restart, vars
    <3>4. QED
      BY <1>1, <3>1, <3>2, <3>3
  <2>t. /\ pick \in [Requests -> Keys \cup {NoKey}]
        /\ probing \in [Requests -> BOOLEAN]
    BY <1>1 DEF TypeOK
  <2>p. PICK k \in Candidates(r) : /\ pick' = [pick EXCEPT ![r] = k]
                                   /\ probing' = [probing EXCEPT ![r] = ProbeTurn(r)]
    BY <2>1 DEF Pick
  <2>2. pick'[r] = k /\ probing'[r] = ProbeTurn(r)
    BY <2>t, <2>p
  <2>3. k \in Active(r)
    BY <1>1, <2>2 DEF Candidates
  <2>4. SeenClean(r, k)
    BY <2>3 DEF Active
  <2>5. CASE dirty[k] # NoHealth
    BY <2>2, <2>4, <2>5 DEF SeenClean, Proven, Effective
  <2>6. CASE dirty[k] = NoHealth
    BY <1>1, <2>2, <2>4, <2>6 DEF SeenClean, CleanWasProven
  <2>7. QED
    BY <2>5, <2>6
<1>2. OutcomeInv /\ CleanWasProven /\ [Next]_vars
        => [\A r \in Requests :
              pc[r] = "pick" /\ pc'[r] = "note" /\ ~probing'[r]
                => pick'[r] \in view[r].proven \/ Proven(pick'[r])]_vars
  BY <1>1
<1>3. QED
  BY <1>2, WaitingHolds, PTL DEF Spec, NormalPickWasProven
=============================================================================
