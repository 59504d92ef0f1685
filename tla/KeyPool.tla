------------------------------- MODULE KeyPool -------------------------------
(***************************************************************************)
(* The paid key pool of internal/zenpool: concurrent requests acquire an   *)
(* upstream key, dial with it, record the outcome as key health, and fail  *)
(* over to another key.  Admin calls add, toggle, re-seal and delete keys  *)
(* meanwhile, minutes pass, the store may refuse a write, and the process  *)
(* may restart.                                                            *)
(*                                                                         *)
(* What survives a restart is the SQLite state (row, cool, health); bench, *)
(* dirty, inflight, busy and probeSeq are process memory.  Deadlines are   *)
(* kept as the minutes that remain, so Tick counts them down: cooldown and *)
(* bench lengths are whole minutes in the code.  Which candidate wins the  *)
(* weighted round robin (or the affinity hash) is left open here: scores,  *)
(* shares and hashes only choose among the candidates.                     *)
(***************************************************************************)
EXTENDS Integers, FiniteSets

CONSTANTS
  Keys,          \* the key identifiers that may ever be created
  Requests,      \* paid requests that may run at the same time
  NoKey,         \* no key picked
  NoRequest,     \* nobody holds outcomeMu
  NoHealth,      \* no entry in healthDirty
  MaxAttempts,   \* keys one request may try (2..4 in the code)
  ProbeEvery,    \* healthProbeEvery, 20 in the code
  CapFrom,       \* recent acquisitions from which the share cap works, 10 in the code
  MaxStep,       \* consecutive failures beyond this change nothing, 5 in the code
  BenchMinutes,  \* the 401 bench, 10 in the code
  Answers,       \* what upstream may answer
  StoreMayFail   \* SQLite or a cancelled request context may refuse a call

ASSUME KeysAssumption     == NoKey \notin Keys
ASSUME RequestsAssumption == IsFiniteSet(Requests) /\ NoRequest \notin Requests
ASSUME BoundsAssumption   == /\ MaxAttempts \in Nat \ {0}
                             /\ ProbeEvery \in Nat \ {0}
                             /\ CapFrom \in Nat
                             /\ MaxStep \in Nat \ {0}
                             /\ BenchMinutes \in Nat \ {0}
                             /\ StoreMayFail \in BOOLEAN

(***************************************************************************)
(* Health as far as routing depends on it: the cooldown reason (a key with *)
(* one must prove itself) and the consecutive failures, counted up to the  *)
(* step where cooldownForFailures stops growing.                           *)
(***************************************************************************)
FailureClasses == {"unauthorized", "rate_limited", "upstream_5xx"}
NoReason  == "none"
Health    == [reason : FailureClasses \cup {NoReason}, fails : 0..MaxStep]
ColdStart == [reason |-> NoReason, fails |-> 0]

ASSUME HealthAssumption == NoHealth \notin Health

(* cooldownForFailures: one minute, doubled per further failure. *)
Cooldown(fails) ==
  CASE fails <= 1 -> 1 [] fails = 2 -> 2 [] fails = 3 -> 4 [] fails = 4 -> 8
    [] OTHER -> 16

(***************************************************************************)
(* What one dial may answer, and what it means to the request and to the   *)
(* key.  "net" is a network error, "gone" a cancelled or expired context.  *)
(***************************************************************************)
ASSUME AnswersAssumption ==
  Answers \subseteq {"200", "400", "401", "403", "429", "5xx", "net", "gone"}

ShouldFailover(answer) == answer \in {"401", "429", "5xx", "net"}

(* Through an egress proxy 429, 403 and 5xx blame the proxy, not the key.  *)
EgressAttributed(answer) == answer \in {"429", "403", "5xx"}

Classify(answer, egress) ==
  CASE answer = "200" -> "ok"
    [] egress /\ EgressAttributed(answer) -> "neutral"
    [] answer = "401" -> "unauthorized"
    [] answer = "429" -> "rate_limited"
    [] answer = "5xx" -> "upstream_5xx"
    [] OTHER -> "neutral"

Classes == FailureClasses \cup {"ok", "neutral"}

VARIABLES
  row,       \* zen_keys: "unborn", "on", "off" or "gone" (enabled is on/off)
  opens,     \* keys whose ciphertext the process's secret box can open
  cool,      \* zen_keys.cooldown_until as minutes left
  health,    \* zen_key_health; ColdStart stands for no row
  bench,     \* Service.benched as minutes left
  dirty,     \* Service.healthDirty
  inflight,  \* healthRuntime.inflight
  busy,      \* healthRuntime.probing
  probeSeq,  \* Service.probeSequence modulo ProbeEvery
  recent,    \* healthRuntime.requestTimes, all keys together, counted up to CapFrom
  lock,      \* holder of Service.outcomeMu
  pc,        \* where each request is
  view,      \* the rows a request's AcquireFor has listed
  pick,      \* Selected.ID
  probing,   \* Selected.Probing
  tried,     \* keys this request has dialled
  class,     \* what the last dial means for the key
  retry,     \* whether ProxyPaid goes on after a failure
  verdict    \* the health RecordPaidOutcome is about to write

stored == <<row, opens, cool, health>>
memory == <<bench, dirty, inflight, busy, probeSeq, recent>>
locals == <<view, pick, probing, tried, class, retry, verdict>>
vars   == <<stored, memory, lock, pc, locals>>

Phases == {"idle", "list", "pick", "note", "dial", "record",
           "rest", "persist", "settle", "release"}

InFlight(r) == pc[r] \in {"dial", "record", "rest", "persist", "settle", "release"}

Live == {k \in Keys : row[k] \in {"on", "off"}}

(* What admin pages and later outcomes see: memory over SQLite. *)
Effective(k) == IF dirty[k] # NoHealth THEN dirty[k] ELSE health[k]
Proven(k)    == Effective(k).reason = NoReason

View == [on : SUBSET Keys, opens : SUBSET Keys, cool : [Keys -> Nat],
         clean : SUBSET Keys, proven : SUBSET Keys]
NoView == [on |-> {}, opens |-> {}, cool |-> [k \in Keys |-> 0],
           clean |-> {}, proven |-> {}]

-----------------------------------------------------------------------------
(* What a fresh process starts from, whatever SQLite holds. *)
MemoryInit ==
  /\ bench = [k \in Keys |-> 0] /\ dirty = [k \in Keys |-> NoHealth]
  /\ inflight = [k \in Keys |-> 0] /\ busy = [k \in Keys |-> FALSE]
  /\ probeSeq = 0 /\ recent = 0 /\ lock = NoRequest
  /\ pc = [r \in Requests |-> "idle"] /\ view = [r \in Requests |-> NoView]
  /\ pick = [r \in Requests |-> NoKey] /\ probing = [r \in Requests |-> FALSE]
  /\ tried = [r \in Requests |-> {}] /\ class = [r \in Requests |-> "neutral"]
  /\ retry = [r \in Requests |-> FALSE] /\ verdict = [r \in Requests |-> ColdStart]

Init ==
  /\ row = [k \in Keys |-> "unborn"] /\ opens = {}
  /\ cool = [k \in Keys |-> 0] /\ health = [k \in Keys |-> ColdStart]
  /\ MemoryInit

Goto(r, phase) == pc' = [pc EXCEPT ![r] = phase]

(* A request that ends forgets everything it knew. *)
Finish(r) ==
  /\ Goto(r, "idle")
  /\ view' = [view EXCEPT ![r] = NoView]
  /\ pick' = [pick EXCEPT ![r] = NoKey]
  /\ probing' = [probing EXCEPT ![r] = FALSE]
  /\ tried' = [tried EXCEPT ![r] = {}]
  /\ class' = [class EXCEPT ![r] = "neutral"]
  /\ retry' = [retry EXCEPT ![r] = FALSE]
  /\ verdict' = [verdict EXCEPT ![r] = ColdStart]

(***************************************************************************)
(* AcquireFor reads the rows first, and everything in memory afterwards.   *)
(* view.proven is a history variable: the keys that were proven when the   *)
(* rows were read.                                                         *)
(***************************************************************************)
Enabled == {k \in Keys : row[k] = "on"}

Listing == [on |-> Enabled, opens |-> Enabled \cap opens,
            cool |-> [k \in Keys |-> IF k \in Enabled THEN cool[k] ELSE 0],
            clean |-> {k \in Enabled : health[k].reason = NoReason},
            proven |-> {k \in Enabled : Proven(k)}]

List(r) ==
  /\ pc[r] \in {"idle", "list"}
  /\ Goto(r, "pick")
  /\ view' = [view EXCEPT ![r] = Listing]
  /\ UNCHANGED <<stored, memory, lock, pick, probing, tried, class, retry, verdict>>

ListFails(r) ==
  /\ pc[r] = "list" /\ StoreMayFail
  /\ Finish(r)
  /\ UNCHANGED <<stored, memory, lock>>

SeenClean(r, k) == IF dirty[k] # NoHealth THEN dirty[k].reason = NoReason
                                          ELSE k \in view[r].clean

UsableAgain(r) == {k \in view[r].on : bench[k] = 0 /\ view[r].cool[k] = 0}
Usable(r) == {k \in view[r].on \ tried[r] : bench[k] = 0 /\ view[r].cool[k] = 0}
ActiveAnyway(r) == Usable(r)
Active(r) == {k \in Usable(r) : SeenClean(r, k)}
Probes(r) == {k \in Usable(r) : ~SeenClean(r, k) /\ ~busy[k]}

NextSeq == (probeSeq + 1) % ProbeEvery
ProbeTurn(r) == Probes(r) # {} /\ (Active(r) = {} \/ NextSeq = 0)
Candidates(r) == IF ProbeTurn(r) THEN Probes(r) ELSE Active(r)

(* The share cap may set an active key aside, as long as others remain and *)
(* CapFrom acquisitions have been counted: no two keys can hold more than  *)
(* 70% of the recent traffic.  Which key does is left open.                *)
Spreads(r) ==
  {Candidates(r)} \cup
  IF ProbeTurn(r) \/ Cardinality(Active(r)) <= 1 \/ recent < CapFrom THEN {}
  ELSE {Active(r) \ {k} : k \in Active(r)}

Pick(r) ==
  /\ pc[r] = "pick"
  /\ probeSeq' = NextSeq
  /\ \E k \in Candidates(r) \cap view[r].opens :
       /\ pick' = [pick EXCEPT ![r] = k]
       /\ probing' = [probing EXCEPT ![r] = ProbeTurn(r)]
  /\ Goto(r, "note")
  /\ view' = [view EXCEPT ![r] = NoView]
  /\ UNCHANGED <<stored, bench, dirty, inflight, busy, recent, lock, tried, class, retry, verdict>>

(* ErrNoHealthyKey: nothing to choose from, or nothing that decrypts. *)
NothingToPick(r) ==
  /\ pc[r] = "pick"
  /\ \E spread \in Spreads(r) : spread \cap view[r].opens = {}
  /\ probeSeq' = IF Candidates(r) = {} THEN probeSeq ELSE NextSeq
  /\ Finish(r)
  /\ UNCHANGED <<stored, bench, dirty, inflight, busy, recent, lock>>

NoteAcquire(r) ==
  /\ pc[r] = "note"
  /\ inflight' = [inflight EXCEPT ![pick[r]] = @ + 1]
  /\ busy' = IF probing[r] THEN [busy EXCEPT ![pick[r]] = TRUE] ELSE busy
  /\ recent' = IF recent < CapFrom THEN recent + 1 ELSE recent
  /\ Goto(r, "dial")
  /\ UNCHANGED <<stored, bench, dirty, probeSeq, lock, locals>>

Dial(r) ==
  /\ pc[r] = "dial"
  /\ \E answer \in Answers, egress \in BOOLEAN :
       /\ class' = [class EXCEPT ![r] = Classify(answer, egress)]
       /\ retry' = [retry EXCEPT ![r] = ShouldFailover(answer)]
  /\ Goto(r, "record")
  /\ UNCHANGED <<stored, memory, lock, view, pick, probing, tried, verdict>>

-----------------------------------------------------------------------------
(***************************************************************************)
(* RecordPaidOutcome.  outcomeMu makes outcomes one at a time; the store   *)
(* and the maps are written one after another, and AcquireFor does not     *)
(* take outcomeMu.                                                         *)
(***************************************************************************)

TakeLockUnasked(r) == lock' = r
TakeLock(r) == lock = NoRequest /\ lock' = r

UnlockForgotten == UNCHANGED lock
Unlock == lock' = NoRequest

(* ctx.Err() # nil: nothing is recorded and the request stops. *)
RecordSkipped(r) ==
  /\ pc[r] = "record"
  /\ Goto(r, "release")
  /\ retry' = [retry EXCEPT ![r] = FALSE]
  /\ UNCHANGED <<stored, memory, lock, view, pick, probing, tried, class, verdict>>

(* GetHealth fails, the failure says nothing of the key, or the provider's *)
(* 5xx storm guard is on (it may be, whenever the answer was a 5xx).       *)
RecordNothing(r) ==
  /\ pc[r] = "record" /\ lock = NoRequest
  /\ StoreMayFail \/ class[r] \in {"neutral", "upstream_5xx"}
  /\ Goto(r, "release")
  /\ UNCHANGED <<stored, memory, lock, locals>>

Succeeded == ColdStart
Failed(before, reason) ==
  [reason |-> reason, fails |-> IF before.fails < MaxStep THEN before.fails + 1 ELSE MaxStep]

RecordBegin(r) ==
  /\ pc[r] = "record" /\ class[r] # "neutral"
  /\ TakeLock(r)
  /\ verdict' = [verdict EXCEPT ![r] =
       IF class[r] = "ok" THEN Succeeded ELSE Failed(Effective(pick[r]), class[r])]
  /\ Goto(r, "rest")
  /\ UNCHANGED <<stored, memory, view, pick, probing, tried, class, retry>>

(* SetCooldown: an error when the row is gone. *)
StoreCooldown(k, minutes) ==
  /\ row[k] \in {"on", "off"}
  /\ cool' = [cool EXCEPT ![k] = minutes]
  /\ UNCHANGED bench

(* MarkBench rests the key in memory.                                      *)
BenchNothing(k, minutes) == UNCHANGED <<bench, cool>>
Bench(k, minutes) ==
  /\ bench' = [bench EXCEPT ![k] = minutes]
  /\ UNCHANGED cool

StoreRefuses(k) == StoreMayFail \/ row[k] \notin {"on", "off"}

RecordRest(r) ==
  LET k == pick[r] IN
  /\ pc[r] = "rest"
  /\ \/ /\ class[r] = "ok"
        /\ \/ StoreCooldown(k, 0)
           \/ StoreRefuses(k) /\ UNCHANGED <<cool, bench>>
     \/ /\ class[r] = "unauthorized"
        /\ Bench(k, BenchMinutes)
     \/ /\ class[r] \in {"rate_limited", "upstream_5xx"}
        /\ \/ StoreCooldown(k, Cooldown(verdict[r].fails))
           \/ StoreRefuses(k) /\ Bench(k, 1)
  /\ Goto(r, "persist")
  /\ UNCHANGED <<row, opens, health, dirty, inflight, busy, probeSeq, recent, lock, locals>>

MustFlushFailures(r) == class[r] # "ok"

(* A success that changes no verdict may wait for the 30 s flush window. *)
MustFlush(r) == \/ class[r] # "ok" \/ probing[r]
                \/ Effective(pick[r]).reason # NoReason
                \/ Effective(pick[r]).fails > 0

RecordPersist(r) ==
  LET k == pick[r] IN
  /\ pc[r] = "persist" /\ row[k] \in {"on", "off"}
  /\ health' = [health EXCEPT ![k] = verdict[r]]
  /\ Goto(r, "settle")
  /\ UNCHANGED <<row, opens, cool, memory, lock, locals>>

Recorded(r) ==
  /\ Unlock
  /\ Goto(r, "release")
  /\ verdict' = [verdict EXCEPT ![r] = ColdStart]
  /\ UNCHANGED <<view, pick, probing, tried, class, retry>>

RecordDirty(r) ==
  LET k == pick[r] IN
  /\ pc[r] = "persist"
  /\ StoreRefuses(k) \/ ~MustFlush(r)
  /\ dirty' = [dirty EXCEPT ![k] = verdict[r]]
  /\ Recorded(r)
  /\ UNCHANGED <<stored, bench, inflight, busy, probeSeq, recent>>

RecordSettle(r) ==
  /\ pc[r] = "settle"
  /\ dirty' = [dirty EXCEPT ![pick[r]] = NoHealth]
  /\ Recorded(r)
  /\ UNCHANGED <<stored, bench, inflight, busy, probeSeq, recent>>

ReleaseInflightOnly(k) ==
  /\ inflight' = [inflight EXCEPT ![k] = IF @ > 0 THEN @ - 1 ELSE 0]
  /\ UNCHANGED busy

ReleaseProbingOnly(k) ==
  /\ busy' = [busy EXCEPT ![k] = FALSE]
  /\ UNCHANGED inflight

(* The deferred noteRelease; Failover and Return are ProxyPaid's loop.     *)
ReleaseRuntime(k) ==
  /\ inflight' = [inflight EXCEPT ![k] = IF @ > 0 THEN @ - 1 ELSE 0]
  /\ busy' = [busy EXCEPT ![k] = FALSE]

GoesOn(r) == /\ class[r] # "ok" /\ retry[r]
             /\ Cardinality(tried[r] \cup {pick[r]}) < MaxAttempts

Failover(r) ==
  /\ pc[r] = "release" /\ GoesOn(r)
  /\ ReleaseRuntime(pick[r])
  /\ tried' = [tried EXCEPT ![r] = @ \cup {pick[r]}]
  /\ pick' = [pick EXCEPT ![r] = NoKey]
  /\ probing' = [probing EXCEPT ![r] = FALSE]
  /\ class' = [class EXCEPT ![r] = "neutral"]
  /\ retry' = [retry EXCEPT ![r] = FALSE]
  /\ Goto(r, "list")
  /\ UNCHANGED <<stored, bench, dirty, probeSeq, recent, lock, view, verdict>>

Return(r) ==
  /\ pc[r] = "release" /\ ~GoesOn(r)
  /\ ReleaseRuntime(pick[r])
  /\ Finish(r)
  /\ UNCHANGED <<stored, bench, dirty, probeSeq, recent, lock>>

-----------------------------------------------------------------------------
(* The admin surface. *)
Create(k) ==
  /\ row[k] = "unborn"
  /\ row' = [row EXCEPT ![k] = "on"]
  /\ opens' = opens \cup {k}
  /\ UNCHANGED <<cool, health, memory, lock, pc, locals>>

SetEnabled(k) ==
  /\ row[k] \in {"on", "off"}
  /\ row' = [row EXCEPT ![k] = IF @ = "on" THEN "off" ELSE "on"]
  /\ UNCHANGED <<opens, cool, health, memory, lock, pc, locals>>

UpdateSecretForgives(k) ==
  /\ row[k] \in {"on", "off"} /\ k \notin opens
  /\ opens' = opens \cup {k}
  /\ health' = [health EXCEPT ![k] = ColdStart]
  /\ UNCHANGED <<row, cool, memory, lock, pc, locals>>

(* Update with a new secret keeps health, cooldown and bench. *)
UpdateSecret(k) ==
  /\ row[k] \in {"on", "off"} /\ k \notin opens
  /\ opens' = opens \cup {k}
  /\ UNCHANGED <<row, cool, health, memory, lock, pc, locals>>

(* The health row goes with the key (ON DELETE CASCADE); memory stays. *)
Delete(k) ==
  /\ row[k] \in {"on", "off"}
  /\ row' = [row EXCEPT ![k] = "gone"]
  /\ opens' = opens \ {k}
  /\ cool' = [cool EXCEPT ![k] = 0]
  /\ health' = [health EXCEPT ![k] = ColdStart]
  /\ UNCHANGED <<memory, lock, pc, locals>>

(* A catalog refresh acquires without ForAttempt: it never probes, but it  *)
(* does advance probeSequence when it finds an active key.                 *)
GenericAcquire ==
  /\ \E k \in Keys : row[k] = "on" /\ cool[k] = 0 /\ bench[k] = 0 /\ Proven(k)
  /\ probeSeq' = NextSeq
  /\ UNCHANGED <<stored, bench, dirty, inflight, busy, recent, lock, pc, locals>>

LessPastZero(f) == [k \in Keys |-> f[k] - 1]
Less(f) == [k \in Keys |-> IF f[k] > 0 THEN f[k] - 1 ELSE 0]
Aged(v) == [on |-> v.on, opens |-> v.opens, cool |-> Less(v.cool),
            clean |-> v.clean, proven |-> v.proven]

(* A minute passes, never in the middle of recording one outcome, and any  *)
(* number of acquisitions may leave the rolling window.                    *)
Tick ==
  /\ lock = NoRequest
  /\ cool' = Less(cool) /\ bench' = Less(bench)
  /\ recent' \in 0..recent
  /\ view' = [r \in Requests |-> Aged(view[r])]
  /\ UNCHANGED <<row, opens, health, dirty, inflight, busy, probeSeq, lock, pc,
                 pick, probing, tried, class, retry, verdict>>

(* A new process: the same secret, or another one that opens nothing yet.  *)
Restart ==
  /\ opens' \in {opens, {}}
  /\ bench' = [k \in Keys |-> 0] /\ dirty' = [k \in Keys |-> NoHealth]
  /\ inflight' = [k \in Keys |-> 0] /\ busy' = [k \in Keys |-> FALSE]
  /\ probeSeq' = 0 /\ recent' = 0 /\ lock' = NoRequest
  /\ pc' = [r \in Requests |-> "idle"] /\ view' = [r \in Requests |-> NoView]
  /\ pick' = [r \in Requests |-> NoKey] /\ probing' = [r \in Requests |-> FALSE]
  /\ tried' = [r \in Requests |-> {}] /\ class' = [r \in Requests |-> "neutral"]
  /\ retry' = [r \in Requests |-> FALSE] /\ verdict' = [r \in Requests |-> ColdStart]
  /\ UNCHANGED <<row, cool, health>>

Progress(r) ==
  \/ List(r) \/ ListFails(r) \/ Pick(r) \/ NothingToPick(r) \/ NoteAcquire(r) \/ Dial(r)
  \/ RecordNothing(r) \/ RecordBegin(r) \/ RecordRest(r)
  \/ RecordPersist(r) \/ RecordDirty(r) \/ RecordSettle(r) \/ Failover(r) \/ Return(r)

RequestStep(r) == Progress(r) \/ RecordSkipped(r)

Next ==
  \/ \E r \in Requests : RequestStep(r)
  \/ \E k \in Keys : Create(k) \/ SetEnabled(k) \/ UpdateSecret(k) \/ Delete(k)
  \/ GenericAcquire \/ Tick \/ Restart

Spec == Init /\ [][Next]_vars

(* Goroutines are scheduled, dials time out, and outcomeMu is handed to    *)
(* its waiters (sync.Mutex does not starve them).  Nothing obliges a       *)
(* context to be cancelled, so RecordSkipped is not part of Progress.      *)
Fairness == \A r \in Requests :
  /\ WF_vars(pc[r] # "idle" /\ Progress(r))
  /\ SF_vars(RecordNothing(r) \/ RecordBegin(r))

FairSpec == Spec /\ Fairness
-----------------------------------------------------------------------------
(* Every variable keeps its type. *)
TypeOK ==
  /\ row \in [Keys -> {"unborn", "on", "off", "gone"}] /\ opens \in SUBSET Keys
  /\ cool \in [Keys -> Nat] /\ health \in [Keys -> Health]
  /\ bench \in [Keys -> Nat] /\ dirty \in [Keys -> Health \cup {NoHealth}]
  /\ inflight \in [Keys -> Nat] /\ busy \in [Keys -> BOOLEAN]
  /\ probeSeq \in 0..(ProbeEvery - 1) /\ recent \in 0..CapFrom
  /\ lock \in Requests \cup {NoRequest}
  /\ pc \in [Requests -> Phases]
  /\ view \in [Requests -> View]
  /\ pick \in [Requests -> Keys \cup {NoKey}] /\ probing \in [Requests -> BOOLEAN]
  /\ tried \in [Requests -> SUBSET Keys] /\ class \in [Requests -> Classes]
  /\ retry \in [Requests -> BOOLEAN] /\ verdict \in [Requests -> Health]

(* A request holds a key exactly from its selection to its release, and    *)
(* outcomeMu is held exactly by the request that is writing an outcome:    *)
(* RecordPaidOutcome calls are serialised.                                 *)
Recording(r) == pc[r] \in {"rest", "persist", "settle"}

LockHeld ==
  /\ \A r \in Requests : pick[r] \in Keys <=> pc[r] = "note" \/ InFlight(r)
  /\ \A r \in Requests : Recording(r) <=> lock = r

(* healthRuntime.inflight counts the requests in flight on the key, across *)
(* failovers, cancellations, store errors, deletions and restarts: a leak  *)
(* would lower the key's selection score for good.                         *)
OnKey(k) == {r \in Requests : InFlight(r) /\ pick[r] = k}
InflightExact == \A k \in Keys : inflight[k] = Cardinality(OnKey(k))

(* A key marked busy probing has a probe in flight: a leaked flag would    *)
(* keep the key out of the pool until the process restarts.                *)
BusyIsBacked ==
  \A k \in Keys : busy[k] => \E r \in Requests : InFlight(r) /\ pick[r] = k /\ probing[r]

(* ProxyPaid dials each key once, and at most MaxAttempts keys: the dials  *)
(* so far are the tried keys and the one it holds.                         *)
NoKeyTwice ==
  \A r \in Requests :
    /\ pick[r] \notin tried[r]
    /\ Cardinality(tried[r]) + (IF pick[r] = NoKey THEN 0 ELSE 1) <= MaxAttempts

(* Status of a key as the admin page shows it: a failed key rests          *)
(* (cooling or benched) and is on trial once the rest is over.             *)
OnTrial(k) == k \in Live /\ ~Proven(k) /\ cool[k] = 0 /\ bench[k] = 0

(* A failing key rests before it is tried again: no step of a running      *)
(* process takes a proven key straight to trial.  RecordPaidOutcome writes *)
(* the rest before the verdict so that AcquireFor, which runs between the  *)
(* two, cannot probe a key that has only just failed.                      *)
RestBeforeTrial ==
  [][\A k \in Live : Proven(k) /\ OnTrial(k)' => Restart]_vars

(* Normal traffic only goes to keys that were proven while AcquireFor ran: *)
(* when it read the rows or when it chose.  The rows it read may be stale, *)
(* and healthDirty may have been written or cleared since.                 *)
NormalPickWasProven ==
  [][\A r \in Requests :
       pc[r] = "pick" /\ pc'[r] = "note" /\ ~probing'[r]
         => pick'[r] \in view[r].proven \/ Proven(pick'[r])]_vars

(* Only a success restores a key: it takes a recorded 200 on that key, and *)
(* neither a restart nor an admin edit nor time does it.                   *)
OnlySuccessRestores ==
  [][\A k \in Live : ~Proven(k) /\ Proven(k)' /\ row'[k] # "gone"
       => \E r \in Requests : Recording(r) /\ pick[r] = k /\ class[r] = "ok"]_vars

(* Between two outcomes a restart loses no verdict: the successes still    *)
(* waiting in healthDirty change no verdict, so the store alone agrees.    *)
RestartKeepsVerdicts ==
  [][Restart /\ lock = NoRequest => \A k \in Live : Proven(k)' = Proven(k)]_vars

(* Every paid request ends, whatever the answers, the store and the other  *)
(* requests do.                                                            *)
RequestsEnd == \A r \in Requests : pc[r] = "pick" ~> pc[r] = "idle"

(* "A single bad ciphertext never fails the whole pool" (service.go): an   *)
(* acquire does not come back empty-handed while a proven, rested key      *)
(* whose ciphertext opens is among the rows it read.                       *)
BadCiphertextIsSkipped ==
  [][\A r \in Requests :
       NothingToPick(r) => Active(r) \cap view[r].opens = {}]_vars
=============================================================================
