------------------------------ MODULE LocalKeys ------------------------------
(***************************************************************************)
(* The local gateway keys of internal/keys: clients present a key, Verify  *)
(* reads the clock and then charges the key's day and minute windows in    *)
(* one SQLite write transaction, while admins create, edit, toggle and     *)
(* revoke keys, minutes pass and the process may restart.                  *)
(*                                                                         *)
(* SQLite has one writer: lock is its write lock, taken by BEGIN IMMEDIATE *)
(* and by every single statement that writes.  A request waits for it with *)
(* the clock it has already read, which is what this model is about.       *)
(***************************************************************************)
EXTENDS Integers

CONSTANTS
  Keys,        \* identifiers that may ever be created
  Requests,    \* requests that may be in the gateway at the same time
  NoRequest,   \* nobody holds the write lock
  NoCell,      \* no row in local_key_usage
  Policies,    \* pairs of limits an admin may set; 0 is unlimited
  DayLength,   \* minutes in a day, 1440 in the code
  LastMinute   \* the clock stops here

ASSUME RequestsAssumption == NoRequest \notin Requests
ASSUME ClockAssumption == LastMinute \in Nat /\ DayLength \in Nat \ {0}

Kinds   == {"day", "minute"}
ASSUME PoliciesAssumption == Policies \subseteq [Kinds -> Nat]

Minutes == 0..LastMinute
StartRounded(kind, minute) == IF kind = "day" THEN minute \div DayLength ELSE minute + 1
Start(kind, minute) == IF kind = "day" THEN minute \div DayLength ELSE minute

Cell == [start : Minutes, count : Nat]
ASSUME CellAssumption == NoCell \notin Cell

VARIABLES
  now,       \* the clock, in minutes
  row,       \* local_api_keys: "unborn", "on", "off" or "gone"
  limit,     \* daily_limit and rpm_limit
  usage,     \* local_key_usage: the window row of each kind
  logged,    \* keys that some request_logs row refers to
  removing,  \* keys whose Revoke has detached the logs and not yet deleted
  lock,      \* who holds the write lock
  pc,        \* where each request is
  key,       \* the key it presents
  at,        \* the clock its Verify has read
  draft,     \* the usage rows as its open transaction sees them
  charged,   \* history: requests charged to each window since the key exists
  late       \* history: keys charged for a window that was over already

tables  == <<row, limit, usage, logged>>
locals  == <<key, at, draft>>
history == <<charged, late>>
vars    == <<now, tables, removing, lock, pc, locals, history>>

NoUsage == [kind \in Kinds |-> NoCell]
NoCharge == [kind \in Kinds |-> [start \in Minutes |-> 0]]
Live(k) == row[k] \in {"on", "off"}

Init ==
  /\ now = 0
  /\ row = [k \in Keys |-> "unborn"] /\ limit = [k \in Keys |-> [kind \in Kinds |-> 0]]
  /\ usage = [k \in Keys |-> NoUsage] /\ logged = {} /\ removing = {}
  /\ lock = NoRequest /\ pc = [r \in Requests |-> "idle"]
  /\ key \in [Requests -> Keys] /\ at = [r \in Requests |-> 0]
  /\ draft = [r \in Requests |-> NoUsage]
  /\ charged = [k \in Keys |-> NoCharge] /\ late = {}

Goto(r, phase) == pc' = [pc EXCEPT ![r] = phase]

(* Verify returns: its clock and its transaction are forgotten.            *)
Verified(r, phase) ==
  /\ Goto(r, phase)
  /\ at' = [at EXCEPT ![r] = 0]
  /\ draft' = [draft EXCEPT ![r] = NoUsage]

-----------------------------------------------------------------------------
(* Service.Verify reads the clock, then asks for a connection and for the  *)
(* write lock.                                                             *)
Arrive(r) ==
  /\ pc[r] = "idle"
  /\ \E k \in Keys : row[k] # "unborn" /\ key' = [key EXCEPT ![r] = k]
  /\ at' = [at EXCEPT ![r] = now]
  /\ Goto(r, "waiting")
  /\ UNCHANGED <<now, tables, removing, lock, draft, history>>

(* busy_timeout runs out or the client goes away. *)
GiveUp(r) ==
  /\ pc[r] = "waiting"
  /\ Verified(r, "idle")
  /\ UNCHANGED <<now, tables, removing, lock, key, history>>

(* BEGIN IMMEDIATE and loadKey. *)
Begin(r) ==
  /\ pc[r] = "waiting" /\ lock = NoRequest /\ row[key[r]] = "on"
  /\ lock' = r
  /\ draft' = [draft EXCEPT ![r] = usage[key[r]]]
  /\ Goto(r, "day")
  /\ UNCHANGED <<now, tables, removing, key, at, history>>

Unauthorized(r) ==
  /\ pc[r] = "waiting" /\ lock = NoRequest /\ row[key[r]] # "on"
  /\ Verified(r, "idle")
  /\ UNCHANGED <<now, tables, removing, lock, key, history>>

(* consumeWindow on the row it has read: unlimited, first use, next window, *)
(* refused, or one more.                                                    *)
Limit(r, kind) == limit[key[r]][kind]

ExhaustedLater(r, kind) ==
  LET cell == draft[r][kind] IN
  /\ Limit(r, kind) # 0 /\ cell # NoCell
  /\ cell.start = Start(kind, at[r]) /\ cell.count > Limit(r, kind)

Exhausted(r, kind) ==
  LET cell == draft[r][kind] IN
  /\ Limit(r, kind) # 0 /\ cell # NoCell
  /\ cell.start = Start(kind, at[r]) /\ cell.count >= Limit(r, kind)

Consumed(r, kind) ==
  LET cell == draft[r][kind] IN
  IF Limit(r, kind) = 0 THEN cell
  ELSE IF cell = NoCell \/ cell.start # Start(kind, at[r])
       THEN [start |-> Start(kind, at[r]), count |-> 1]
       ELSE [cell EXCEPT !.count = @ + 1]

Charge(r, kind, next) ==
  /\ pc[r] = kind /\ ~Exhausted(r, kind)
  /\ draft' = [draft EXCEPT ![r][kind] = Consumed(r, kind)]
  /\ Goto(r, next)
  /\ UNCHANGED <<now, tables, removing, lock, key, at, history>>

RollbackKeeps(r) == usage' = [usage EXCEPT ![key[r]] = draft[r]]
Rollback(r) == UNCHANGED usage

(* ErrRateLimited, or a store error at any statement: ROLLBACK.            *)
Refuse(r) ==
  /\ pc[r] \in {"day", "minute", "commit"}
  /\ Rollback(r)
  /\ lock' = NoRequest
  /\ Verified(r, "idle")
  /\ UNCHANGED <<now, row, limit, logged, removing, key, history>>

(* What the transaction has charged: the kinds that are limited.           *)
Charged(r) == {kind \in Kinds : Limit(r, kind) # 0}
IsLate(r) ==
  \E kind \in Charged(r) :
    /\ usage[key[r]][kind] # NoCell
    /\ usage[key[r]][kind].start > Start(kind, at[r])

Commit(r) ==
  LET k == key[r] IN
  /\ pc[r] = "commit"
  /\ usage' = [usage EXCEPT ![k] = draft[r]]
  /\ charged' = [charged EXCEPT ![k] = [kind \in Kinds |->
       IF kind \in Charged(r) THEN [charged[k][kind] EXCEPT ![Start(kind, at[r])] = @ + 1]
                              ELSE charged[k][kind]]]
  /\ late' = IF IsLate(r) THEN late \cup {k} ELSE late
  /\ lock' = NoRequest
  /\ Verified(r, "serving")
  /\ UNCHANGED <<now, row, limit, logged, removing, key>>

(* observe writes the request log last; the row's foreign key refuses it   *)
(* when the key is gone, and a cancelled request writes none.              *)
Log(r) ==
  /\ pc[r] = "serving" /\ lock = NoRequest
  /\ logged' \in {logged, logged \cup {k \in {key[r]} : Live(k)}}
  /\ Goto(r, "idle")
  /\ UNCHANGED <<now, row, limit, usage, removing, lock, locals, history>>

-----------------------------------------------------------------------------
(* The admin surface; each statement takes the write lock for itself.      *)
Create(k) ==
  /\ row[k] = "unborn" /\ lock = NoRequest
  /\ row' = [row EXCEPT ![k] = "on"]
  /\ limit' \in {[limit EXCEPT ![k] = p] : p \in Policies}
  /\ UNCHANGED <<now, usage, logged, removing, lock, pc, locals, history>>

SetEnabled(k) ==
  /\ Live(k) /\ lock = NoRequest
  /\ row' = [row EXCEPT ![k] = IF @ = "on" THEN "off" ELSE "on"]
  /\ UNCHANGED <<now, limit, usage, logged, removing, lock, pc, locals, history>>

Update(k) ==
  /\ Live(k) /\ lock = NoRequest
  /\ limit' \in {[limit EXCEPT ![k] = p] : p \in Policies}
  /\ UNCHANGED <<now, row, usage, logged, removing, lock, pc, locals, history>>

(* Revoke is two statements: the logs are detached, then the row goes and  *)
(* its usage with it, unless a request has been logged in between.         *)
RevokeDetach(k) ==
  /\ row[k] # "unborn" /\ lock = NoRequest
  /\ logged' = logged \ {k}
  /\ removing' = removing \cup {k}
  /\ UNCHANGED <<now, row, limit, usage, lock, pc, locals, history>>

RevokeDelete(k) ==
  /\ k \in removing /\ lock = NoRequest
  /\ removing' = removing \ {k}
  /\ IF Live(k) /\ k \notin logged
     THEN /\ row' = [row EXCEPT ![k] = "gone"]
          /\ usage' = [usage EXCEPT ![k] = NoUsage]
     ELSE UNCHANGED <<row, usage>>
  /\ UNCHANGED <<now, limit, logged, lock, pc, locals, history>>

Tick ==
  /\ now < LastMinute
  /\ now' = now + 1
  /\ UNCHANGED <<tables, removing, lock, pc, locals, history>>

(* SQLite rolls an open transaction back. *)
Restart ==
  /\ pc' = [r \in Requests |-> "idle"] /\ lock' = NoRequest /\ removing' = {}
  /\ draft' = [r \in Requests |-> NoUsage] /\ at' = [r \in Requests |-> 0]
  /\ UNCHANGED <<now, tables, key, history>>

Next ==
  \/ \E r \in Requests :
       \/ Arrive(r) \/ GiveUp(r) \/ Begin(r) \/ Unauthorized(r)
       \/ Charge(r, "day", "minute") \/ Charge(r, "minute", "commit")
       \/ Refuse(r) \/ Commit(r) \/ Log(r)
  \/ \E k \in Keys : \/ Create(k) \/ SetEnabled(k) \/ Update(k)
                     \/ RevokeDetach(k) \/ RevokeDelete(k)
  \/ Tick \/ Restart

Spec == Init /\ [][Next]_vars
-----------------------------------------------------------------------------
(* Every variable keeps its type. *)
Phases == {"idle", "waiting", "day", "minute", "commit", "serving"}
Usage  == [Kinds -> Cell \cup {NoCell}]

TypeOK ==
  /\ now \in Minutes
  /\ row \in [Keys -> {"unborn", "on", "off", "gone"}]
  /\ limit \in [Keys -> [Kinds -> Nat]] /\ usage \in [Keys -> Usage]
  /\ logged \in SUBSET Keys /\ removing \in SUBSET Keys
  /\ lock \in Requests \cup {NoRequest} /\ pc \in [Requests -> Phases]
  /\ key \in [Requests -> Keys] /\ at \in [Requests -> Minutes]
  /\ draft \in [Requests -> Usage]
  /\ charged \in [Keys -> [Kinds -> [Minutes -> Nat]]] /\ late \in SUBSET Keys

(* The stored count is the number of requests that were let through and    *)
(* charged to the stored window: a request refused by the minute window    *)
(* after its day was charged, a failed commit and a restart cost nothing,  *)
(* and nobody is let through uncounted.                                    *)
CountsMatch ==
  \A k \in Keys \ late : Live(k) => \A kind \in Kinds :
    IF usage[k][kind] = NoCell
    THEN \A start \in Minutes : charged[k][kind][start] = 0
    ELSE usage[k][kind].count = charged[k][kind][usage[k][kind].start]

(* The limits hold for every window, however requests, edits of the limits *)
(* and restarts interleave, until a request is charged that has read the   *)
(* clock in an earlier window than one charged before it.                  *)
OvershootNeedsStraggler ==
  [][\A k \in Keys \ late', kind \in Kinds, start \in Minutes :
       charged'[k][kind][start] > charged[k][kind][start]
         => charged'[k][kind][start] <= limit[k][kind]]_vars

(* "Optional RPM / daily limits" (README.en.md): no request is let through *)
(* in a window that has reached its limit.                                 *)
WindowLimit ==
  [][\A k \in Keys, kind \in Kinds, start \in Minutes :
       charged'[k][kind][start] > charged[k][kind][start]
         => charged'[k][kind][start] <= limit[k][kind]]_vars
=============================================================================
