------------------------------ MODULE AdminAuth ------------------------------
(***************************************************************************)
(* The administrator's password and sessions, internal/auth.               *)
(*                                                                         *)
(* The password lives twice: in the settings table and, read at start, in  *)
(* the Service.  Login and ChangePassword check what is in memory and      *)
(* write the database first; nothing orders one call's two writes with     *)
(* another's.  Login failures are counted for each source by loginLimiter, *)
(* with the clock that the login has read when it came in.                 *)
(***************************************************************************)
EXTENDS Integers, Sequences, FiniteSets, FiniteSetsExt

CONSTANTS
  Calls,         \* Login and ChangePassword calls that may run at once
  Sources,       \* addresses logins come from
  Passwords,     \* what may be typed in
  Trimmed,       \* the passwords that TrimSpace leaves as they are
  Env,           \* the password of the configuration
  NoOverride,    \* settings has no password
  Tokens,        \* session tokens that may ever be minted
  NoToken,       \* a row that does not exist
  AttemptLimit,  \* DefaultLoginAttemptLimit
  AttemptWindow, \* DefaultLoginAttemptWindow, in ticks
  Lifetime,      \* DefaultSessionLifetime, in ticks
  LastTick       \* the clock stops here

ASSUME PasswordsAssumption == Env \in Passwords /\ Trimmed \subseteq Passwords
ASSUME DisjointAssumption == Calls \cap Tokens = {}
ASSUME NumbersAssumption ==
  /\ AttemptLimit \in Nat \ {0} /\ AttemptWindow \in Nat \ {0}
  /\ Lifetime \in Nat /\ LastTick \in Nat

Hash    == [password : Passwords, legacy : BOOLEAN]
ASSUME NoOverrideAssumption == NoOverride \notin Hash

Ticks   == 0..LastTick
Session == [password : Passwords, expires : Nat, revoked : BOOLEAN]

VARIABLES
  now,       \* the clock
  settings,  \* the stored hash, or NoOverride
  memory,    \* Service.passwordHash
  session,   \* admin_sessions
  attempts,  \* loginLimiter.attempts
  pc,        \* where each call is
  typed,     \* the password it has been given, or, in a change, the new one
  source,    \* where a login comes from
  at,        \* the clock it has read
  failed,    \* history: when logins from a source were refused, since its last success
  newest,    \* history: the latest clock the limiter was called with
  clash,     \* history: two password writes have overlapped
  crossed    \* history: logins, then tokens, that overlapped a change

locals  == <<typed, source, at>>
history == <<failed, newest, clash, crossed>>
stored  == <<settings, memory, session>>
vars    == <<now, stored, attempts, pc, locals, history>>

Bcrypt(p) == [password |-> p, legacy |-> FALSE]

(* NewService hashes the configured password and loadPasswordOverride puts *)
(* the stored one, bcrypt or legacy, in its place.                         *)
LoadedVerbatim(hash) == hash
Loaded(hash) == IF hash = NoOverride THEN Bcrypt(Env) ELSE hash

Init ==
  /\ now = 0
  /\ settings \in Hash \cup {NoOverride} /\ memory = Loaded(settings)
  /\ session = [t \in Tokens |-> NoToken]
  /\ attempts = [s \in Sources |-> <<>>]
  /\ pc = [c \in Calls |-> "idle"]
  /\ typed = [c \in Calls |-> Env] /\ at = [c \in Calls |-> 0]
  /\ source \in [Calls -> Sources]
  /\ failed = [s \in Sources |-> <<>>] /\ newest = [s \in Sources |-> 0]
  /\ clash = FALSE /\ crossed = {}

Goto(c, phase) == pc' = [pc EXCEPT ![c] = phase]

(* A call returns: what it knew is forgotten. *)
Returned(c) ==
  /\ Goto(c, "idle")
  /\ typed' = [typed EXCEPT ![c] = Env]
  /\ at' = [at EXCEPT ![c] = 0]
  /\ UNCHANGED source

(* Between the check of a password and the last write that rests on it.    *)
Writing  == {"upgrading", "upgraded", "changing", "changed"}
Admitted == {"upgrading", "upgraded", "matched", "cleared"}
Clashes(c) == \E d \in Calls \ {c} : pc[d] \in Writing
-----------------------------------------------------------------------------
(* loginLimiter: the attempts are in the order they were recorded, and     *)
(* only the leading ones are dropped.                                      *)
Prune(s, t) ==
  LET valid == {i \in DOMAIN attempts[s] : attempts[s][i] > t - AttemptWindow}
  IN  IF valid = {} THEN <<>> ELSE SubSeq(attempts[s], Min(valid), Len(attempts[s]))

Blocked(s, t) == Len(Prune(s, t)) >= AttemptLimit

Saw(s, t) == newest' = [newest EXCEPT ![s] = IF t > @ THEN t ELSE @]

LoginArrive(c) ==
  /\ pc[c] = "idle"
  /\ \E p \in Passwords : typed' = [typed EXCEPT ![c] = p]
  /\ \E s \in Sources : source' = [source EXCEPT ![c] = s]
  /\ at' = [at EXCEPT ![c] = now]
  /\ Goto(c, "arrived")
  /\ UNCHANGED <<now, stored, attempts, history>>

LoginBlocked(c) ==
  LET s == source[c] IN
  /\ pc[c] = "arrived"
  /\ attempts' = [attempts EXCEPT ![s] = Prune(s, at[c])]
  /\ Saw(s, at[c])
  /\ IF Blocked(s, at[c]) THEN Returned(c) ELSE Goto(c, "checking") /\ UNCHANGED locals
  /\ UNCHANGED <<now, stored, failed, clash, crossed>>

(* The password is compared with the hash in memory.                       *)
LoginMatch(c) ==
  /\ pc[c] = "checking" /\ memory.password = typed[c]
  /\ Goto(c, IF memory.legacy THEN "upgrading" ELSE "matched")
  /\ clash' = (clash \/ (memory.legacy /\ Clashes(c)))
  /\ crossed' = IF \E d \in Calls : pc[d] = "changed" THEN crossed \cup {c} ELSE crossed
  /\ UNCHANGED <<now, stored, attempts, locals, failed, newest>>

LoginMismatch(c) ==
  /\ pc[c] = "checking" /\ memory.password # typed[c]
  /\ Goto(c, "failing")
  /\ UNCHANGED <<now, stored, attempts, locals, history>>

ReserveUnchecked(s, t) == TRUE
Reserve(s, t) == ~Blocked(s, t)

(* reserveFailure: a racer that finds the ceiling reached leaves no record. *)
LoginFail(c) ==
  LET s == source[c] IN
  /\ pc[c] = "failing"
  /\ IF Reserve(s, at[c])
     THEN /\ attempts' = [attempts EXCEPT ![s] = Append(Prune(s, at[c]), at[c])]
          /\ failed' = [failed EXCEPT ![s] = Append(@, at[c])]
     ELSE /\ attempts' = [attempts EXCEPT ![s] = Prune(s, at[c])]
          /\ UNCHANGED failed
  /\ Saw(s, at[c])
  /\ Returned(c)
  /\ UNCHANGED <<now, stored, clash, crossed>>

(* upgradePasswordHash; when the database refuses, the login goes on.      *)
UpgradeStore(c) ==
  /\ pc[c] = "upgrading"
  /\ settings' = Bcrypt(typed[c])
  /\ Goto(c, "upgraded")
  /\ UNCHANGED <<now, memory, session, attempts, locals, history>>

UpgradeRefused(c) ==
  /\ pc[c] = "upgrading"
  /\ Goto(c, "matched")
  /\ UNCHANGED <<now, stored, attempts, locals, history>>

UpgradeMemory(c) ==
  /\ pc[c] = "upgraded"
  /\ memory' = Bcrypt(typed[c])
  /\ Goto(c, "matched")
  /\ UNCHANGED <<now, settings, session, attempts, locals, history>>

LoginClear(c) ==
  LET s == source[c] IN
  /\ pc[c] = "matched"
  /\ attempts' = [attempts EXCEPT ![s] = <<>>]
  /\ failed' = [failed EXCEPT ![s] = <<>>]
  /\ Goto(c, "cleared")
  /\ UNCHANGED <<now, stored, locals, newest, clash, crossed>>

(* The session starts its lifetime when the login came in.                 *)
LoginInsert(c) ==
  /\ pc[c] = "cleared"
  /\ \E t \in {t \in Tokens : session[t] = NoToken} :
       /\ session' = [session EXCEPT ![t] =
            [password |-> typed[c], expires |-> at[c] + Lifetime, revoked |-> FALSE]]
       /\ crossed' = (crossed \ {c}) \cup (IF c \in crossed THEN {t} ELSE {})
  /\ Returned(c)
  /\ UNCHANGED <<now, settings, memory, attempts, failed, newest, clash>>

LoginInsertFails(c) ==
  /\ pc[c] = "cleared"
  /\ crossed' = crossed \ {c}
  /\ Returned(c)
  /\ UNCHANGED <<now, stored, attempts, failed, newest, clash>>
-----------------------------------------------------------------------------
RevokedFor(t) ==
  IF session[t] = NoToken THEN NoToken ELSE [session[t] EXCEPT !.revoked = TRUE]
RevokeAllForgotten == session
RevokeAll == [t \in Tokens |-> RevokedFor(t)]

(* Both passwords are trimmed; the current one is compared with the hash   *)
(* in memory.                                                              *)
ChangeVerify(c) ==
  /\ pc[c] = "idle" /\ memory.password \in Trimmed
  /\ \E next \in Trimmed \ {memory.password} : typed' = [typed EXCEPT ![c] = next]
  /\ Goto(c, "changing")
  /\ clash' = (clash \/ Clashes(c))
  /\ UNCHANGED <<now, stored, attempts, source, at, failed, newest, crossed>>

(* One transaction: the new hash, and every session revoked.               *)
ChangeCommit(c) ==
  /\ pc[c] = "changing"
  /\ settings' = Bcrypt(typed[c])
  /\ session' = RevokeAll
  /\ Goto(c, "changed")
  /\ crossed' = crossed \cup {d \in Calls : pc[d] \in Admitted}
  /\ UNCHANGED <<now, memory, attempts, locals, failed, newest, clash>>

ChangeGoesOn(c) == Goto(c, "changed") /\ UNCHANGED locals
ChangeGivesUp(c) == Returned(c)

ChangeRollsBack(c) ==
  /\ pc[c] = "changing"
  /\ ChangeGivesUp(c)
  /\ UNCHANGED <<now, stored, attempts, history>>

ChangeMemory(c) ==
  /\ pc[c] = "changed"
  /\ memory' = Bcrypt(typed[c])
  /\ Returned(c)
  /\ UNCHANGED <<now, settings, session, attempts, history>>

Logout(t) ==
  /\ session[t] # NoToken
  /\ session' = [session EXCEPT ![t] = RevokedFor(t)]
  /\ UNCHANGED <<now, settings, memory, attempts, pc, locals, history>>

RevokeAllSessions ==
  /\ session' = RevokeAll
  /\ UNCHANGED <<now, settings, memory, attempts, pc, locals, history>>

Tick ==
  /\ now < LastTick
  /\ now' = now + 1
  /\ UNCHANGED <<stored, attempts, pc, locals, history>>

(* The limiter and the calls are gone, the password is read again.         *)
Restart ==
  /\ memory' = Loaded(settings)
  /\ attempts' = [s \in Sources |-> <<>>] /\ failed' = [s \in Sources |-> <<>>]
  /\ newest' = [s \in Sources |-> 0]
  /\ pc' = [c \in Calls |-> "idle"] /\ typed' = [c \in Calls |-> Env]
  /\ at' = [c \in Calls |-> 0] /\ crossed' = crossed \ Calls
  /\ UNCHANGED <<now, settings, session, source, clash>>

Next ==
  \/ \E c \in Calls :
       \/ LoginArrive(c) \/ LoginBlocked(c) \/ LoginMatch(c) \/ LoginMismatch(c)
       \/ LoginFail(c) \/ UpgradeStore(c) \/ UpgradeRefused(c) \/ UpgradeMemory(c)
       \/ LoginClear(c) \/ LoginInsert(c) \/ LoginInsertFails(c)
       \/ ChangeVerify(c) \/ ChangeCommit(c) \/ ChangeRollsBack(c) \/ ChangeMemory(c)
  \/ \E t \in Tokens : Logout(t)
  \/ RevokeAllSessions \/ Tick \/ Restart

Spec == Init /\ [][Next]_vars
-----------------------------------------------------------------------------
Phases == {"idle", "arrived", "checking", "failing", "matched", "cleared"} \cup Writing

(* Every variable keeps its type. *)
TypeOK ==
  /\ now \in Ticks
  /\ settings \in Hash \cup {NoOverride} /\ memory \in Hash
  /\ session \in [Tokens -> Session \cup {NoToken}]
  /\ attempts \in [Sources -> Seq(Ticks)]
  /\ pc \in [Calls -> Phases] /\ typed \in [Calls -> Passwords]
  /\ source \in [Calls -> Sources] /\ at \in [Calls -> Ticks]
  /\ failed \in [Sources -> Seq(Ticks)] /\ newest \in [Sources -> Ticks]
  /\ clash \in BOOLEAN /\ crossed \in SUBSET (Calls \cup Tokens)

(* Verify lets a token in. *)
Accepted(t) ==
  session[t] # NoToken /\ ~session[t].revoked /\ now < session[t].expires

(* A password change ends every session: one that is still accepted was    *)
(* opened with the stored password, or its login overlapped the change.    *)
SessionsAreCurrent ==
  \A t \in Tokens : Accepted(t) /\ t \notin crossed /\ ~clash
    => session[t].password = Loaded(settings).password

(* When no password is being written, the password logins are checked      *)
(* against is the one the next start will load, across refused             *)
(* transactions and crashes, unless two writes have ever overlapped.       *)
MemoryMatchesSettings ==
  ~clash /\ (\A c \in Calls : pc[c] \notin Writing) => memory = Loaded(settings)

(* loginLimiter: however many logins run at once, at most AttemptLimit are *)
(* told that their password is wrong in one window, as long as they reach  *)
(* the limiter in the order of their clocks.                               *)
FailuresAreLimited ==
  [][\A s \in Sources, c \in Calls :
       /\ source[c] = s /\ at[c] >= newest[s]
       /\ failed'[s] # failed[s] /\ failed'[s] # <<>> /\ pc[c] = "failing" /\ pc'[c] = "idle"
       => Cardinality({i \in DOMAIN failed'[s] : failed'[s][i] > at[c] - AttemptWindow})
            <= AttemptLimit]_vars

(* "Legacy SHA-256 hashes are transparently upgraded to bcrypt after a     *)
(* successful match" (Login): only ChangePassword changes the password.    *)
UpgradeIsTransparent ==
  [][Loaded(settings').password # Loaded(settings).password
       => \E c \in Calls : pc[c] = "changing"]_vars
=============================================================================
