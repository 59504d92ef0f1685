--------------------------- MODULE AdminAuthProofs ---------------------------
(***************************************************************************)
(* Proofs about AdminAuth for any number of calls, sources and tokens.     *)
(*                                                                         *)
(* What a password write relies on is Agreement: while no two writes have  *)
(* overlapped there is one writer at most, memory is behind settings only  *)
(* while that writer stands between its two writes, and an upgrade rewrites *)
(* the password memory has already.  Sessions and the logins that will     *)
(* open one follow settings from there.                                    *)
(***************************************************************************)
EXTENDS AdminAuth, TLAPS, FiniteSetTheorems, SequenceTheorems, WellFoundedInduction

Types ==
  /\ settings \in Hash \cup {NoOverride} /\ memory \in Hash
  /\ pc \in [Calls -> Phases] /\ typed \in [Calls -> Passwords]
  /\ session \in [Tokens -> Session \cup {NoToken}]
  /\ at \in [Calls -> Ticks] /\ now \in Ticks /\ clash \in BOOLEAN

Behind   == {"upgraded", "changed"}
Upgrades == {"upgrading", "upgraded"}

OneWriter == \A c, d \in Calls : pc[c] \in Writing /\ pc[d] \in Writing => c = d
Level     == (\A c \in Calls : pc[c] \notin Behind) => memory = Loaded(settings)
Ahead     == \A c \in Calls : pc[c] \in Behind => settings = Bcrypt(typed[c])
SameAgain == \A c \in Calls : pc[c] \in Upgrades => typed[c] = memory.password

Agreement == ~clash => OneWriter /\ Level /\ Ahead /\ SameAgain

Current == Loaded(settings).password
LoginsFollow ==
  \A c \in Calls : pc[c] \in Admitted /\ c \notin crossed => typed[c] = Current
SessionsFollow ==
  \A t \in Tokens : session[t] # NoToken /\ session[t].revoked = FALSE /\ t \notin crossed
    => session[t].password = Current
Following == ~clash => LoginsFollow /\ SessionsFollow

(* RevokeAll leaves no row unrevoked and touches nothing else of it.       *)
LEMMA RevokedRow ==
  ASSUME Types, NEW t \in Tokens
  PROVE  /\ RevokedFor(t) \in Session \cup {NoToken}
         /\ session[t] = NoToken => RevokedFor(t) = NoToken
         /\ session[t] # NoToken => RevokedFor(t).revoked = TRUE
<1>1. CASE session[t] = NoToken
  BY <1>1 DEF RevokedFor
<1>2. CASE session[t] # NoToken
  <2>1. session[t] \in Session
    BY <1>2 DEF Types
  <2>2. RevokedFor(t) = [session[t] EXCEPT !.revoked = TRUE]
    BY <1>2 DEF RevokedFor
  <2> QED
    BY <2>1, <2>2, <1>2 DEF Session
<1> QED
  BY <1>1, <1>2

(* The half of TypeOK that the password and the sessions rest on.          *)
LEMMA TypesStep == ASSUME Types, [Next]_vars PROVE Types'
<1> USE PasswordsAssumption, NumbersAssumption DEF Types, Ticks, Hash, Bcrypt, Phases, Writing
<1>1. ASSUME NEW c \in Calls, LoginArrive(c) PROVE Types'
  BY <1>1 DEF LoginArrive, Goto, stored, history
<1>2. ASSUME NEW c \in Calls, LoginBlocked(c) PROVE Types'
  BY <1>2 DEF LoginBlocked, Returned, Goto, stored, locals
<1>3. ASSUME NEW c \in Calls, LoginMatch(c) PROVE Types'
  BY <1>3 DEF LoginMatch, Goto, stored, locals, Clashes
<1>4. ASSUME NEW c \in Calls, LoginMismatch(c) PROVE Types'
  BY <1>4 DEF LoginMismatch, Goto, stored, locals, history
<1>5. ASSUME NEW c \in Calls, LoginFail(c) PROVE Types'
  BY <1>5 DEF LoginFail, Returned, Goto, stored
<1>6. ASSUME NEW c \in Calls, UpgradeStore(c) \/ UpgradeRefused(c) \/ UpgradeMemory(c)
      PROVE Types'
  <2>1. CASE UpgradeStore(c)
    BY <2>1 DEF UpgradeStore, Goto, locals, history
  <2>2. CASE UpgradeRefused(c)
    BY <2>2 DEF UpgradeRefused, Goto, stored, locals, history
  <2>3. CASE UpgradeMemory(c)
    BY <2>3 DEF UpgradeMemory, Goto, locals, history
  <2> QED
    BY <1>6, <2>1, <2>2, <2>3
<1>7. ASSUME NEW c \in Calls, LoginClear(c) PROVE Types'
  BY <1>7 DEF LoginClear, Goto, stored, locals
<1>8. ASSUME NEW c \in Calls, LoginInsert(c) PROVE Types'
  BY <1>8 DEF LoginInsert, Session, Returned, Goto
<1>9. ASSUME NEW c \in Calls, LoginInsertFails(c) PROVE Types'
  BY <1>9 DEF LoginInsertFails, Returned, Goto, stored
<1>10. ASSUME NEW c \in Calls, ChangeVerify(c) PROVE Types'
  BY <1>10 DEF ChangeVerify, Goto, stored, Clashes
<1>11. ASSUME NEW c \in Calls, ChangeCommit(c) PROVE Types'
  BY <1>11, RevokedRow DEF ChangeCommit, RevokeAll, Goto, locals
<1>12. ASSUME NEW c \in Calls, ChangeRollsBack(c) PROVE Types'
  BY <1>12 DEF ChangeRollsBack, ChangeGivesUp, Returned, Goto, stored, history
<1>13. ASSUME NEW c \in Calls, ChangeMemory(c) PROVE Types'
  BY <1>13 DEF ChangeMemory, Returned, Goto, history
<1>14. ASSUME NEW t \in Tokens, Logout(t) PROVE Types'
  BY <1>14, RevokedRow DEF Logout, locals, history
<1>15. CASE RevokeAllSessions
  BY <1>15, RevokedRow DEF RevokeAllSessions, RevokeAll, locals, history
<1>16. CASE Tick
  BY <1>16 DEF Tick, stored, locals, history
<1>17. CASE Restart
  BY <1>17 DEF Restart, Loaded
<1>18. CASE UNCHANGED vars
  BY <1>18 DEF vars, stored, locals, history
<1> QED
  BY <1>1, <1>2, <1>3, <1>4, <1>5, <1>6, <1>7, <1>8, <1>9, <1>10, <1>11, <1>12, <1>13,
     <1>14, <1>15, <1>16, <1>17, <1>18 DEF Next

(* While no two writes have overlapped, memory and settings differ only    *)
(* under the one call that stands between its two writes.                  *)
LEMMA AgreementStep == ASSUME Types, Agreement, [Next]_vars PROVE Agreement'
<1> DEFINE A == OneWriter /\ Level /\ Ahead /\ SameAgain
<1> SUFFICES ASSUME ~clash' PROVE A'
  BY DEF Agreement
<1> USE DEF Types, Writing, Behind, Upgrades, Phases
<1>1. ASSUME ~clash, NEW c \in Calls, NEW p \in Phases \ Writing, Goto(c, p),
             pc[c] \notin Behind, \A d \in Calls \ {c} : typed'[d] = typed[d],
             UNCHANGED <<settings, memory>>
      PROVE  A'
  BY <1>1 DEF Agreement, OneWriter, Level, Ahead, SameAgain, Goto
<1>2. ASSUME NEW c \in Calls, LoginArrive(c) PROVE A'
  BY <1>1, <1>2 DEF LoginArrive, Goto, stored, history
<1>3. ASSUME NEW c \in Calls, LoginBlocked(c) PROVE A'
  BY <1>1, <1>3 DEF LoginBlocked, Returned, Goto, stored, locals
<1>4. ASSUME NEW c \in Calls, LoginMatch(c) PROVE A'
  <2>1. ~clash /\ UNCHANGED <<settings, memory, typed>> /\ typed[c] = memory.password
    BY <1>4 DEF LoginMatch, stored, locals
  <2>2. CASE memory.legacy
    <3>1. pc[c] = "checking" /\ Goto(c, "upgrading") /\ \A d \in Calls \ {c} : pc[d] \notin Writing
      BY <1>4, <2>2 DEF LoginMatch, Clashes
    <3> QED
      BY <2>1, <3>1 DEF Agreement, OneWriter, Level, Ahead, SameAgain, Goto
  <2>3. CASE ~memory.legacy
    BY <1>1, <1>4, <2>1, <2>3 DEF LoginMatch
  <2> QED
    BY <2>2, <2>3
<1>5. ASSUME NEW c \in Calls, LoginMismatch(c) PROVE A'
  BY <1>1, <1>5 DEF LoginMismatch, stored, locals, history
<1>6. ASSUME NEW c \in Calls, LoginFail(c) PROVE A'
  BY <1>1, <1>6 DEF LoginFail, Returned, stored
<1>7. ASSUME NEW c \in Calls, UpgradeStore(c) PROVE A'
  <2>1. ~clash /\ UNCHANGED <<memory, typed>> /\ Goto(c, "upgraded")
    BY <1>7 DEF UpgradeStore, locals, history
  <2>2. settings' = Bcrypt(typed[c]) /\ pc[c] = "upgrading"
    BY <1>7 DEF UpgradeStore
  <2> QED
    BY <2>1, <2>2 DEF Agreement, OneWriter, Level, Ahead, SameAgain, Goto
<1>8. ASSUME NEW c \in Calls, UpgradeRefused(c) PROVE A'
  BY <1>1, <1>8 DEF UpgradeRefused, stored, locals, history
<1>9. ASSUME NEW c \in Calls, UpgradeMemory(c) \/ ChangeMemory(c) PROVE A'
  <2>1. ~clash /\ pc[c] \in Behind /\ UNCHANGED settings
    BY <1>9 DEF UpgradeMemory, ChangeMemory, history
  <2>2. memory' = Bcrypt(typed[c]) /\ (Goto(c, "matched") \/ Goto(c, "idle"))
    BY <1>9 DEF UpgradeMemory, ChangeMemory, Returned
  <2>3. settings = Bcrypt(typed[c]) /\ \A d \in Calls \ {c} : pc[d] \notin Writing
    BY <2>1 DEF Agreement, OneWriter, Ahead
  <2>4. Loaded(settings) = memory'
    <3>1. settings \in Hash
      BY <2>3 DEF Bcrypt, Hash
    <3> QED
      BY <2>2, <2>3, <3>1, NoOverrideAssumption DEF Loaded
  <2>5. \A d \in Calls : pc'[d] \notin Writing
    BY <2>2, <2>3 DEF Goto
  <2> QED
    BY <2>1, <2>4, <2>5 DEF OneWriter, Level, Ahead, SameAgain, Loaded
<1>10. ASSUME NEW c \in Calls, LoginClear(c) PROVE A'
  BY <1>1, <1>10 DEF LoginClear, stored, locals
<1>11. ASSUME NEW c \in Calls, LoginInsert(c) \/ LoginInsertFails(c) PROVE A'
  BY <1>1, <1>11 DEF LoginInsert, LoginInsertFails, Returned, stored
<1>12. ASSUME NEW c \in Calls, ChangeVerify(c) PROVE A'
  <2>1. ~clash /\ UNCHANGED <<settings, memory>> /\ pc[c] = "idle" /\ Goto(c, "changing")
    BY <1>12 DEF ChangeVerify, stored
  <2>2. \A d \in Calls \ {c} : pc[d] \notin Writing /\ typed'[d] = typed[d]
    BY <1>12 DEF ChangeVerify, Clashes
  <2> QED
    BY <2>1, <2>2 DEF Agreement, OneWriter, Level, Ahead, SameAgain, Goto
<1>13. ASSUME NEW c \in Calls, ChangeCommit(c) PROVE A'
  <2>1. ~clash /\ UNCHANGED <<memory, typed>> /\ Goto(c, "changed")
    BY <1>13 DEF ChangeCommit, locals
  <2>2. settings' = Bcrypt(typed[c]) /\ pc[c] = "changing"
    BY <1>13 DEF ChangeCommit
  <2> QED
    BY <2>1, <2>2 DEF Agreement, OneWriter, Level, Ahead, SameAgain, Goto
<1>14. ASSUME NEW c \in Calls, ChangeRollsBack(c) PROVE A'
  BY <1>1, <1>14 DEF ChangeRollsBack, ChangeGivesUp, Returned, stored, history
<1>15. ASSUME UNCHANGED <<settings, memory, pc, typed, clash>> PROVE A'
  BY <1>15 DEF Agreement, OneWriter, Level, Ahead, SameAgain, Loaded
<1>16. ASSUME NEW t \in Tokens, Logout(t) PROVE A'
  BY <1>15, <1>16 DEF Logout, locals, history
<1>17. CASE RevokeAllSessions \/ Tick \/ UNCHANGED vars
  BY <1>15, <1>17 DEF RevokeAllSessions, Tick, vars, stored, locals, history
<1>18. CASE Restart
  BY <1>18 DEF Restart, OneWriter, Level, Ahead, SameAgain, Loaded
<1> QED
  BY <1>2, <1>3, <1>4, <1>5, <1>6, <1>7, <1>8, <1>9, <1>10, <1>11, <1>12, <1>13,
     <1>14, <1>16, <1>17, <1>18 DEF Next

(* A login that matches while no change stands between its two writes has  *)
(* given the stored password.                                              *)
LEMMA MemoryIsCurrent ==
  ASSUME Types, Agreement, ~clash, \A d \in Calls : pc[d] # "changed"
  PROVE  memory.password = Current
<1>1. CASE \E d \in Calls : pc[d] = "upgraded"
  <2>1. PICK d \in Calls : pc[d] = "upgraded"
    BY <1>1
  <2>2. settings = Bcrypt(typed[d]) /\ typed[d] = memory.password
    BY <2>1 DEF Agreement, Ahead, SameAgain, Behind, Upgrades
  <2>3. settings \in Hash
    BY <2>2 DEF Types, Bcrypt, Hash
  <2> QED
    BY <2>2, <2>3, NoOverrideAssumption DEF Current, Loaded, Bcrypt
<1>2. CASE \A d \in Calls : pc[d] # "upgraded"
  BY <1>2 DEF Agreement, Level, Behind, Current
<1> QED
  BY <1>1, <1>2

(* A session that is open, and a login about to open one, has the stored   *)
(* password unless it overlapped a change.                                 *)
LEMMA FollowingStep ==
  ASSUME Types, Agreement, Following, [Next]_vars PROVE Following'
<1> DEFINE F == LoginsFollow /\ SessionsFollow
<1> SUFFICES ASSUME ~clash' PROVE F'
  BY DEF Following
<1> USE DEF Types, Writing, Admitted, Phases, LoginsFollow, SessionsFollow
<1>1. ASSUME ~clash, NEW c \in Calls, NEW p, Goto(c, p),
             p \in Admitted => pc[c] \in Admitted /\ typed'[c] = typed[c],
             \A d \in Calls \ {c} : typed'[d] = typed[d],
             Current' = Current, UNCHANGED <<session, crossed>>
      PROVE  F'
  BY <1>1 DEF Following, Goto
<1>2. ASSUME NEW c \in Calls, LoginArrive(c) PROVE F'
  BY <1>1, <1>2 DEF LoginArrive, stored, history, Current, Loaded
<1>3. ASSUME NEW c \in Calls, LoginBlocked(c) PROVE F'
  BY <1>1, <1>3 DEF LoginBlocked, Returned, stored, locals, Current, Loaded
<1>4. ASSUME NEW c \in Calls, LoginMatch(c) PROVE F'
  <2>1. ~clash /\ UNCHANGED <<settings, session, typed>> /\ typed[c] = memory.password
    BY <1>4 DEF LoginMatch, stored, locals
  <2>2. PICK p : Goto(c, p)
    BY <1>4 DEF LoginMatch
  <2>3. CASE \A d \in Calls : pc[d] # "changed"
    BY <1>4, <2>1, <2>2, <2>3, MemoryIsCurrent
    DEF LoginMatch, Following, Goto, Current, Loaded
  <2>4. CASE \E d \in Calls : pc[d] = "changed"
    BY <1>4, <2>1, <2>2, <2>4 DEF LoginMatch, Following, Goto, Current, Loaded
  <2> QED
    BY <2>3, <2>4
<1>5. ASSUME NEW c \in Calls, LoginMismatch(c) PROVE F'
  BY <1>1, <1>5 DEF LoginMismatch, stored, locals, history, Current, Loaded
<1>6. ASSUME NEW c \in Calls, LoginFail(c) PROVE F'
  BY <1>1, <1>6 DEF LoginFail, Returned, stored, Current, Loaded
<1>7. ASSUME NEW c \in Calls, UpgradeStore(c) PROVE F'
  <2>1. ~clash /\ UNCHANGED <<typed, session, crossed>> /\ Goto(c, "upgraded")
    BY <1>7 DEF UpgradeStore, locals, history
  <2>2. pc[c] = "upgrading" /\ settings' = Bcrypt(typed[c])
    BY <1>7 DEF UpgradeStore
  <2>3. typed[c] = memory.password /\ \A d \in Calls : pc[d] # "changed"
    BY <2>1, <2>2 DEF Agreement, OneWriter, SameAgain, Upgrades
  <2>4. settings' \in Hash
    BY <2>2 DEF Bcrypt, Hash
  <2>5. Current' = typed[c]
    BY <2>2, <2>4, NoOverrideAssumption DEF Current, Loaded, Bcrypt
  <2>6. Current' = Current
    BY <2>1, <2>3, <2>5, MemoryIsCurrent
  <2> QED
    BY <1>1, <2>1, <2>2, <2>6
<1>8. ASSUME NEW c \in Calls, UpgradeRefused(c) PROVE F'
  BY <1>1, <1>8 DEF UpgradeRefused, stored, locals, history, Current, Loaded
<1>9. ASSUME NEW c \in Calls, UpgradeMemory(c) PROVE F'
  BY <1>1, <1>9 DEF UpgradeMemory, locals, history, Current, Loaded
<1>10. ASSUME NEW c \in Calls, LoginClear(c) PROVE F'
  BY <1>1, <1>10 DEF LoginClear, stored, locals, Current, Loaded
<1>11. ASSUME NEW c \in Calls, LoginInsert(c) PROVE F'
  <2>1. ~clash /\ UNCHANGED settings /\ pc[c] = "cleared"
    BY <1>11 DEF LoginInsert
  <2>2. PICK t \in Tokens :
          /\ session[t] = NoToken
          /\ session' = [session EXCEPT ![t] =
               [password |-> typed[c], expires |-> at[c] + Lifetime, revoked |-> FALSE]]
          /\ crossed' = (crossed \ {c}) \cup (IF c \in crossed THEN {t} ELSE {})
    BY <1>11 DEF LoginInsert
  <2>3. Current' = Current
    BY <2>1 DEF Current, Loaded
  <2>4. LoginsFollow'
    BY <1>11, <2>1, <2>2, <2>3, DisjointAssumption
    DEF LoginInsert, Following, Returned, Goto
  <2>5. SessionsFollow'
    BY <2>1, <2>2, <2>3, DisjointAssumption DEF Following
  <2> QED
    BY <2>4, <2>5
<1>12. ASSUME NEW c \in Calls, LoginInsertFails(c) PROVE F'
  <2>1. Current' = Current /\ ~clash
    BY <1>12 DEF LoginInsertFails, stored, Current, Loaded
  <2> QED
    BY <1>12, <2>1, DisjointAssumption
    DEF LoginInsertFails, Following, Returned, Goto, stored
<1>13. ASSUME NEW c \in Calls, ChangeVerify(c) PROVE F'
  BY <1>1, <1>13 DEF ChangeVerify, stored, Current, Loaded
<1>14. ASSUME NEW c \in Calls, ChangeCommit(c) PROVE F'
  <2>1. UNCHANGED typed /\ crossed' = crossed \cup {d \in Calls : pc[d] \in Admitted}
    BY <1>14 DEF ChangeCommit, locals
  <2>2. LoginsFollow'
    BY <1>14, <2>1 DEF ChangeCommit, Goto
  <2>3. \A t \in Tokens : session'[t] = RevokedFor(t)
    BY <1>14 DEF ChangeCommit, RevokeAll
  <2>4. SessionsFollow'
    BY <2>3, RevokedRow
  <2> QED
    BY <2>2, <2>4
<1>15. ASSUME NEW c \in Calls, ChangeRollsBack(c) \/ ChangeMemory(c) PROVE F'
  BY <1>1, <1>15 DEF ChangeRollsBack, ChangeGivesUp, ChangeMemory, Returned, stored,
                     history, Current, Loaded
<1>16. ASSUME UNCHANGED <<settings, pc, typed, crossed, clash>>,
              \A t \in Tokens : session'[t] \in {session[t], RevokedFor(t)}
       PROVE  F'
  <2>1. Current' = Current /\ ~clash
    BY <1>16 DEF Current, Loaded
  <2>2. LoginsFollow'
    BY <1>16, <2>1 DEF Following
  <2>3. SessionsFollow'
    BY <1>16, <2>1, RevokedRow DEF Following
  <2> QED
    BY <2>2, <2>3
<1>17. ASSUME NEW t \in Tokens, Logout(t) PROVE F'
  BY <1>16, <1>17 DEF Logout, locals, history
<1>18. CASE RevokeAllSessions \/ Tick \/ UNCHANGED vars
  BY <1>16, <1>18 DEF RevokeAllSessions, RevokeAll, Tick, vars, stored, locals, history
<1>19. CASE Restart
  <2>1. Current' = Current /\ ~clash
    BY <1>19 DEF Restart, Current, Loaded
  <2> QED
    BY <1>19, <2>1, DisjointAssumption DEF Restart, Following
<1> QED
  BY <1>2, <1>3, <1>4, <1>5, <1>6, <1>7, <1>8, <1>9, <1>10, <1>11, <1>12, <1>13,
     <1>14, <1>15, <1>17, <1>18, <1>19 DEF Next
-----------------------------------------------------------------------------
IInv == Types /\ Agreement /\ Following

LEMMA Inductive == Spec => []IInv
<1>1. Init => IInv
  <2> SUFFICES ASSUME Init PROVE IInv
    OBVIOUS
  <2>1. Types
    <3>1. memory \in Hash
      BY PasswordsAssumption DEF Init, Loaded, Bcrypt, Hash
    <3>2. at \in [Calls -> Ticks] /\ now \in Ticks
      BY NumbersAssumption DEF Init, Ticks
    <3>3. session \in [Tokens -> Session \cup {NoToken}] /\ clash \in BOOLEAN
      BY DEF Init
    <3> QED
      BY <3>1, <3>2, <3>3, PasswordsAssumption DEF Init, Types, Phases
  <2>2. Agreement
    BY DEF Init, Agreement, OneWriter, Level, Ahead, SameAgain, Writing, Behind, Upgrades
  <2>3. Following
    BY DEF Init, Following, LoginsFollow, SessionsFollow, Admitted
  <2> QED
    BY <2>1, <2>2, <2>3 DEF IInv
<1>2. IInv /\ [Next]_vars => IInv'
  BY TypesStep, AgreementStep, FollowingStep DEF IInv
<1> QED
  BY <1>1, <1>2, PTL DEF Spec

(* Logins are checked against the stored password whenever none is being   *)
(* written, through refused transactions, upgrades and restarts.           *)
THEOREM MemoryCorrect == Spec => []MemoryMatchesSettings
<1>1. IInv => MemoryMatchesSettings
  BY DEF IInv, Agreement, Level, Behind, Writing, MemoryMatchesSettings
<1> QED
  BY <1>1, Inductive, PTL

(* Every accepted session was opened with the stored password, unless its  *)
(* login overlapped a change of password.                                  *)
THEOREM SessionsCorrect == Spec => []SessionsAreCurrent
<1>1. IInv => SessionsAreCurrent
  BY DEF IInv, Types, Session, Following, SessionsFollow, Current, Accepted, SessionsAreCurrent
<1> QED
  BY <1>1, Inductive, PTL
-----------------------------------------------------------------------------
(***************************************************************************)
(* The limiter.  Remembered relates what it keeps to what it has refused:  *)
(* attempts is the end of failed, and what it has dropped was older than   *)
(* the window of the latest login it has seen.                             *)
(***************************************************************************)
LimiterTypes ==
  /\ attempts \in [Sources -> Seq(Ticks)] /\ failed \in [Sources -> Seq(Ticks)]
  /\ newest \in [Sources -> Ticks] /\ source \in [Calls -> Sources]
  /\ crossed \in SUBSET (Calls \cup Tokens)

EndOf(short, long) ==
  /\ Len(short) <= Len(long)
  /\ \A i \in 1..Len(short) : short[i] = long[i + (Len(long) - Len(short))]
OlderThan(dropped, long, t) ==
  \A i \in 1..dropped : long[i] <= t - AttemptWindow

RememberedFor(s) ==
  /\ EndOf(attempts[s], failed[s])
  /\ OlderThan(Len(failed[s]) - Len(attempts[s]), failed[s], newest[s])
Remembered == \A s \in Sources : RememberedFor(s)

LEMMA LeastIndex ==
  ASSUME NEW S \in SUBSET Nat, S # {}
  PROVE  Min(S) \in S /\ \A i \in S : Min(S) <= i
<1>1. PICK m \in S : \A i \in S : ~(<<i, m>> \in OpToRel(<, Nat))
  BY NatLessThanWellFounded, WFMin
<1>2. ASSUME NEW i \in S PROVE m <= i
  <2>1. i \in Nat /\ m \in Nat
    OBVIOUS
  <2>2. ~(i < m)
    <3>1. ~(<<i, m>> \in OpToRel(<, Nat)) /\ <<i, m>> \in Nat \X Nat
      BY <1>1, <2>1
    <3> QED
      BY <3>1 DEF OpToRel
  <2> QED
    BY <2>1, <2>2
<1> QED
  BY <1>2 DEF Min

(* Prune keeps the end of what is there, in order, and drops no attempt    *)
(* that the window still covers.                                           *)
LEMMA PruneKeepsTheEnd ==
  ASSUME LimiterTypes, NEW s \in Sources, NEW t \in Ticks
  PROVE  /\ Prune(s, t) \in Seq(Ticks)
         /\ EndOf(Prune(s, t), attempts[s])
         /\ OlderThan(Len(attempts[s]) - Len(Prune(s, t)), attempts[s], t)
<1> DEFINE a == attempts[s]
           valid == {i \in DOMAIN a : a[i] > t - AttemptWindow}
<1>1. a \in Seq(Ticks) /\ Len(a) \in Nat /\ DOMAIN a = 1..Len(a)
      /\ \A i \in 1..Len(a) : a[i] \in Ticks
  BY DEF LimiterTypes
<1>2. Prune(s, t) = IF valid = {} THEN <<>> ELSE SubSeq(a, Min(valid), Len(a))
  BY DEF Prune
<1>3. \A i \in 1..Len(a) : i \notin valid => a[i] <= t - AttemptWindow
  BY <1>1, NumbersAssumption DEF Ticks
<1> HIDE DEF a
<1>4. CASE valid = {}
  <2>1. Prune(s, t) = <<>>
    BY <1>2, <1>4
  <2> QED
    BY <1>1, <1>3, <1>4, <2>1 DEF EndOf, OlderThan, a
<1>5. CASE valid # {}
  <2> DEFINE m == Min(valid)
  <2>1. valid \in SUBSET Nat
    BY <1>1
  <2>2. m \in valid /\ \A i \in valid : m <= i
    <3> HIDE DEF valid
    <3> QED
      BY <1>5, <2>1, LeastIndex
  <2>3. m \in 1..Len(a) /\ \A i \in 1..(m - 1) : a[i] <= t - AttemptWindow
    <3>1. m \in 1..Len(a)
      BY <1>1, <2>2
    <3>2. ASSUME NEW i \in 1..(m - 1) PROVE i \in 1..Len(a) /\ i \notin valid
      <4> HIDE DEF m, valid
      <4>1. i \in 1..Len(a) /\ i < m /\ m \in Int
        BY <1>1, <3>1
      <4> QED
        BY <2>1, <2>2, <4>1
    <3> QED
      BY <1>3, <3>1, <3>2
  <2> HIDE DEF m, valid
  <2>4. Prune(s, t) = SubSeq(a, m, Len(a))
    BY <1>2, <1>5 DEF m
  <2>5. /\ SubSeq(a, m, Len(a)) \in Seq(Ticks)
        /\ Len(SubSeq(a, m, Len(a))) = Len(a) - m + 1
        /\ \A i \in 1..(Len(a) - m + 1) : SubSeq(a, m, Len(a))[i] = a[m + i - 1]
    BY <1>1, <2>3, SubSeqProperties
  <2> QED
    BY <1>1, <2>3, <2>4, <2>5 DEF EndOf, OlderThan, a
<1> QED
  BY <1>4, <1>5

(* What each call does to the limiter.  A login that is turned away at the *)
(* door prunes; a wrong password prunes and, below the limit, is recorded; *)
(* a right one clears; everything else but a restart leaves it alone.      *)
Prunes(c) ==
  LET s == source[c] IN
  /\ attempts' = [attempts EXCEPT ![s] = Prune(s, at[c])]
  /\ failed' = failed
  /\ Saw(s, at[c])
Records(c) ==
  LET s == source[c] IN
  /\ Reserve(s, at[c])
  /\ attempts' = [attempts EXCEPT ![s] = Append(Prune(s, at[c]), at[c])]
  /\ failed' = [failed EXCEPT ![s] = Append(@, at[c])]
  /\ Saw(s, at[c])
Clears(c) ==
  LET s == source[c] IN
  /\ attempts' = [attempts EXCEPT ![s] = <<>>]
  /\ failed' = [failed EXCEPT ![s] = <<>>]
  /\ newest' = newest
Forgets ==
  /\ attempts' = [s \in Sources |-> <<>>] /\ failed' = [s \in Sources |-> <<>>]
  /\ newest' = [s \in Sources |-> 0]

LEMMA LimiterMoves ==
  ASSUME [Next]_vars
  PROVE  \/ \E c \in Calls : Prunes(c) \/ Records(c) \/ Clears(c)
         \/ Forgets
         \/ UNCHANGED <<attempts, failed, newest>>
<1>1. ASSUME NEW c \in Calls, LoginBlocked(c) PROVE Prunes(c)
  BY <1>1 DEF LoginBlocked, Prunes
<1>2. ASSUME NEW c \in Calls, LoginFail(c) PROVE Prunes(c) \/ Records(c)
  BY <1>2 DEF LoginFail, Prunes, Records
<1>3. ASSUME NEW c \in Calls, LoginClear(c) PROVE Clears(c)
  BY <1>3 DEF LoginClear, Clears
<1>4. CASE Restart
  BY <1>4 DEF Restart, Forgets
<1>5. ASSUME NEW c \in Calls,
             \/ LoginArrive(c) \/ LoginMatch(c) \/ LoginMismatch(c)
             \/ UpgradeStore(c) \/ UpgradeRefused(c) \/ UpgradeMemory(c)
             \/ LoginInsert(c) \/ LoginInsertFails(c)
             \/ ChangeVerify(c) \/ ChangeCommit(c) \/ ChangeRollsBack(c) \/ ChangeMemory(c)
      PROVE  UNCHANGED <<attempts, failed, newest>>
  BY <1>5
  DEF LoginArrive, LoginMatch, LoginMismatch, UpgradeStore, UpgradeRefused, UpgradeMemory,
      LoginInsert, LoginInsertFails, ChangeVerify, ChangeCommit, ChangeRollsBack, ChangeMemory,
      history
<1>6. CASE (\E t \in Tokens : Logout(t)) \/ RevokeAllSessions \/ Tick \/ UNCHANGED vars
  BY <1>6 DEF Logout, RevokeAllSessions, Tick, vars, history
<1> QED
  BY <1>1, <1>2, <1>3, <1>4, <1>5, <1>6 DEF Next

LEMMA LimiterTypesStep ==
  ASSUME Types, LimiterTypes, [Next]_vars PROVE LimiterTypes'
<1>1. \A c \in Calls : source[c] \in Sources /\ at[c] \in Ticks
      /\ Prune(source[c], at[c]) \in Seq(Ticks)
  BY PruneKeepsTheEnd DEF Types, LimiterTypes
<1>2. <<>> \in Seq(Ticks) /\ 0 \in Ticks
      /\ \A q \in Seq(Ticks), n \in Ticks : Append(q, n) \in Seq(Ticks)
  BY NumbersAssumption DEF Ticks
<1> DEFINE Kept == /\ attempts' \in [Sources -> Seq(Ticks)]
                   /\ failed' \in [Sources -> Seq(Ticks)]
                   /\ newest' \in [Sources -> Ticks]
<1>3. ASSUME NEW c \in Calls, Prunes(c) \/ Records(c) PROVE Kept
  <2>1. Append(Prune(source[c], at[c]), at[c]) \in Seq(Ticks)
    BY <1>1, <1>2
  <2>2. attempts' \in [Sources -> Seq(Ticks)]
    BY <1>1, <1>3, <2>1 DEF Prunes, Records, LimiterTypes
  <2>3. Append(failed[source[c]], at[c]) \in Seq(Ticks)
    BY <1>1, <1>2 DEF LimiterTypes
  <2>4. failed' \in [Sources -> Seq(Ticks)]
    BY <1>1, <1>3, <2>3 DEF Prunes, Records, LimiterTypes
  <2>5. newest' \in [Sources -> Ticks]
    BY <1>1, <1>3 DEF Prunes, Records, Saw, LimiterTypes
  <2> QED
    BY <2>2, <2>4, <2>5
<1>4. ASSUME NEW c \in Calls, Clears(c) PROVE Kept
  BY <1>1, <1>2, <1>4 DEF Clears, LimiterTypes
<1>f. ASSUME Forgets PROVE Kept
  BY <1>2, <1>f DEF Forgets
<1>k. Kept
  BY <1>3, <1>4, <1>f, LimiterMoves DEF LimiterTypes
<1>5. source' \in [Calls -> Sources]
  <2>1. ASSUME NEW c \in Calls, LoginArrive(c) PROVE source' \in [Calls -> Sources]
    BY <2>1 DEF LoginArrive, LimiterTypes
  <2>2. ASSUME ~\E c \in Calls : LoginArrive(c) PROVE source' = source
    BY <2>2
    DEF Next, LoginBlocked, LoginMatch, LoginMismatch, LoginFail, UpgradeStore, UpgradeRefused,
        UpgradeMemory, LoginClear, LoginInsert, LoginInsertFails, ChangeVerify, ChangeCommit,
        ChangeRollsBack, ChangeGivesUp, ChangeMemory, Logout, RevokeAllSessions, Tick, Restart,
        Returned, vars, locals
  <2> QED
    BY <2>1, <2>2 DEF LimiterTypes
<1>6. crossed' \in SUBSET (Calls \cup Tokens)
  BY DEF LimiterTypes, Next, LoginArrive, LoginBlocked, LoginMatch, LoginMismatch, LoginFail,
         UpgradeStore, UpgradeRefused, UpgradeMemory, LoginClear, LoginInsert, LoginInsertFails,
         ChangeVerify, ChangeCommit, ChangeRollsBack, ChangeMemory, Logout,
         RevokeAllSessions, Tick, Restart, vars, history
<1> QED
  BY <1>k, <1>5, <1>6 DEF LimiterTypes

(* The end of the end is an end, and what either has dropped is old.       *)
LEMMA EndOfTheEnd ==
  ASSUME NEW x \in Seq(Ticks), NEW y \in Seq(Ticks), NEW z \in Seq(Ticks),
         NEW t \in Ticks, NEW u \in Ticks, NEW v \in Ticks, t <= v, u <= v,
         EndOf(x, y), OlderThan(Len(y) - Len(x), y, t),
         EndOf(y, z), OlderThan(Len(z) - Len(y), z, u)
  PROVE  EndOf(x, z) /\ OlderThan(Len(z) - Len(x), z, v)
<1>1. Len(x) \in Nat /\ Len(y) \in Nat /\ Len(z) \in Nat /\ Len(x) <= Len(y) /\ Len(y) <= Len(z)
  BY LenProperties DEF EndOf
<1>t. t \in Int /\ u \in Int /\ v \in Int /\ AttemptWindow \in Int
  BY NumbersAssumption DEF Ticks
<1>2. EndOf(x, z)
  <2>1. ASSUME NEW i \in 1..Len(x) PROVE x[i] = z[i + (Len(z) - Len(x))]
    <3>1. i + (Len(y) - Len(x)) \in 1..Len(y)
      BY <1>1
    <3>2. x[i] = y[i + (Len(y) - Len(x))]
      BY DEF EndOf
    <3>3. y[i + (Len(y) - Len(x))] = z[(i + (Len(y) - Len(x))) + (Len(z) - Len(y))]
      BY <3>1 DEF EndOf
    <3>4. (i + (Len(y) - Len(x))) + (Len(z) - Len(y)) = i + (Len(z) - Len(x))
      BY <1>1
    <3> QED
      BY <3>2, <3>3, <3>4
  <2> QED
    BY <1>1, <2>1 DEF EndOf
<1>3. ASSUME NEW i \in 1..(Len(z) - Len(x)) PROVE z[i] <= v - AttemptWindow
  <2>1. CASE i <= Len(z) - Len(y)
    <3>1. i \in 1..(Len(z) - Len(y)) /\ i \in 1..Len(z) /\ z[i] \in Ticks
      BY <1>1, <2>1
    <3>2. z[i] <= u - AttemptWindow /\ z[i] \in Int
      BY <3>1 DEF OlderThan, Ticks
    <3> QED
      BY <1>t, <3>2
  <2>2. CASE i > Len(z) - Len(y)
    <3> DEFINE j == i - (Len(z) - Len(y))
    <3>1. j \in 1..(Len(y) - Len(x)) /\ j \in 1..Len(y) /\ j + (Len(z) - Len(y)) = i
      BY <1>1, <2>2
    <3>2. y[j] <= t - AttemptWindow /\ y[j] \in Ticks /\ y[j] = z[j + (Len(z) - Len(y))]
      BY <3>1 DEF OlderThan, EndOf
    <3>3. z[i] \in Int /\ z[i] <= t - AttemptWindow
      BY <3>1, <3>2 DEF Ticks
    <3> QED
      BY <1>t, <3>3
  <2> QED
    BY <1>1, <2>1, <2>2
<1> QED
  BY <1>2, <1>3 DEF OlderThan

LEMMA RememberedStep ==
  ASSUME Types, LimiterTypes, LimiterTypes', Remembered, [Next]_vars PROVE Remembered'
<1> SUFFICES ASSUME NEW s \in Sources PROVE RememberedFor(s)'
  BY DEF Remembered
<1>s. RememberedFor(s)
  BY DEF Remembered
<1>t. /\ attempts[s] \in Seq(Ticks) /\ failed[s] \in Seq(Ticks) /\ newest[s] \in Ticks
      /\ attempts'[s] \in Seq(Ticks) /\ failed'[s] \in Seq(Ticks) /\ newest'[s] \in Ticks
  BY DEF LimiterTypes
<1>0. attempts'[s] = <<>> /\ failed'[s] = <<>> => RememberedFor(s)'
  BY DEF RememberedFor, EndOf, OlderThan
<1>1. UNCHANGED <<attempts[s], failed[s], newest[s]>> => RememberedFor(s)'
  BY <1>s DEF RememberedFor
<1>2. ASSUME NEW c \in Calls, source[c] = s, Saw(s, at[c]) 
      PROVE  at[c] \in Ticks /\ at[c] <= newest'[s] /\ newest[s] <= newest'[s]
  BY <1>2 DEF Saw, Types, LimiterTypes, Ticks
<1>3. ASSUME NEW c \in Calls, source[c] = s, Prunes(c) PROVE RememberedFor(s)'
  <2>1. attempts'[s] = Prune(s, at[c]) /\ failed'[s] = failed[s] /\ Saw(s, at[c])
    BY <1>3 DEF Prunes, LimiterTypes
  <2>2. /\ EndOf(Prune(s, at[c]), failed[s])
        /\ OlderThan(Len(failed[s]) - Len(Prune(s, at[c])), failed[s], newest'[s])
    BY <1>2, <1>3, <1>s, <1>t, <2>1, PruneKeepsTheEnd, EndOfTheEnd DEF RememberedFor
  <2> QED
    BY <2>1, <2>2 DEF RememberedFor
<1>4. ASSUME NEW c \in Calls, source[c] = s, Records(c) PROVE RememberedFor(s)'
  <2> DEFINE p == Prune(s, at[c])
  <2>1. /\ attempts'[s] = Append(p, at[c]) /\ failed'[s] = Append(failed[s], at[c])
        /\ Saw(s, at[c])
    BY <1>4 DEF Records, LimiterTypes
  <2>2. p \in Seq(Ticks) /\ at[c] \in Ticks
        /\ EndOf(p, failed[s]) /\ OlderThan(Len(failed[s]) - Len(p), failed[s], newest'[s])
    BY <1>2, <1>4, <1>s, <1>t, <2>1, PruneKeepsTheEnd, EndOfTheEnd DEF RememberedFor
  <2> HIDE DEF p
  <2> DEFINE f == failed[s]
             n == at[c]
  <2>3. /\ p \in Seq(Ticks) /\ f \in Seq(Ticks) /\ n \in Ticks
        /\ EndOf(p, f) /\ OlderThan(Len(f) - Len(p), f, newest'[s])
    BY <1>t, <2>2
  <2>4. attempts'[s] = Append(p, n) /\ failed'[s] = Append(f, n)
    BY <2>1
  <2> HIDE DEF f, n
  <2>5. /\ Len(p) \in Nat /\ Len(f) \in Nat /\ Len(p) <= Len(f)
        /\ Len(Append(p, n)) = Len(p) + 1 /\ Len(Append(f, n)) = Len(f) + 1
        /\ \A i \in 1..Len(p) : Append(p, n)[i] = p[i]
        /\ \A i \in 1..Len(f) : Append(f, n)[i] = f[i]
        /\ Append(p, n)[Len(p) + 1] = n /\ Append(f, n)[Len(f) + 1] = n
    BY <2>3, AppendProperties, LenProperties DEF EndOf
  <2>6. EndOf(Append(p, n), Append(f, n))
    <3>1. ASSUME NEW i \in 1..(Len(p) + 1)
          PROVE  Append(p, n)[i] = Append(f, n)[i + (Len(f) - Len(p))]
      <4>1. CASE i = Len(p) + 1
        <5>1. i + (Len(f) - Len(p)) = Len(f) + 1
          BY <2>5, <4>1
        <5> QED
          BY <2>5, <4>1, <5>1
      <4>2. CASE i # Len(p) + 1
        <5>1. i \in 1..Len(p) /\ i + (Len(f) - Len(p)) \in 1..Len(f)
          BY <2>5, <4>2
        <5>2. p[i] = f[i + (Len(f) - Len(p))]
          BY <2>3, <5>1 DEF EndOf
        <5> QED
          BY <2>5, <5>1, <5>2
      <4> QED
        BY <4>1, <4>2
    <3>2. (Len(f) + 1) - (Len(p) + 1) = Len(f) - Len(p)
      BY <2>5
    <3> QED
      BY <2>5, <3>1, <3>2 DEF EndOf
  <2>7. OlderThan(Len(Append(f, n)) - Len(Append(p, n)), Append(f, n), newest'[s])
    <3>1. (Len(f) + 1) - (Len(p) + 1) = Len(f) - Len(p)
      BY <2>5
    <3>2. \A i \in 1..(Len(f) - Len(p)) : i \in 1..Len(f)
      BY <2>5
    <3> QED
      BY <2>3, <2>5, <3>1, <3>2 DEF OlderThan
  <2> QED
    BY <2>4, <2>6, <2>7 DEF RememberedFor
<1>5. ASSUME NEW c \in Calls, source[c] = s, Clears(c) PROVE RememberedFor(s)'
  BY <1>0, <1>5 DEF Clears, LimiterTypes
<1>6. ASSUME NEW c \in Calls, source[c] # s, Prunes(c) \/ Records(c) \/ Clears(c)
      PROVE  RememberedFor(s)'
  BY <1>1, <1>6 DEF Prunes, Records, Clears, Saw, LimiterTypes
<1>7. CASE Forgets
  BY <1>0, <1>7 DEF Forgets
<1> QED
  BY <1>1, <1>3, <1>4, <1>5, <1>6, <1>7, LimiterMoves

LEMMA LimiterInductive == Spec => [](Types /\ LimiterTypes /\ Remembered)
<1>1. Init => LimiterTypes /\ Remembered
  BY NumbersAssumption
  DEF Init, LimiterTypes, Remembered, RememberedFor, EndOf, OlderThan, Ticks
<1>2. Types /\ LimiterTypes /\ Remembered /\ [Next]_vars => (LimiterTypes /\ Remembered)'
  BY LimiterTypesStep, RememberedStep
<1>3. IInv => Types
  BY DEF IInv
<1> QED
  BY <1>1, <1>2, <1>3, Inductive, PTL DEF Spec

(* Every variable keeps its type.                                          *)
THEOREM TypeCorrect == Spec => []TypeOK
<1>1. Types /\ LimiterTypes => TypeOK
  BY DEF Types, LimiterTypes, TypeOK
<1> QED
  BY <1>1, LimiterInductive, PTL

(***************************************************************************)
(* Whatever logins run at once, and however large the window and the       *)
(* limit, a source is told at most AttemptLimit times in one window that   *)
(* its password is wrong, by calls that reach the limiter in the order of  *)
(* their clocks.  What counts is the end of failed that Prune keeps, and   *)
(* Reserve has measured it.                                                *)
(***************************************************************************)
THEOREM FailuresCorrect == Spec => FailuresAreLimited
<1>1. ASSUME Types, LimiterTypes, Remembered, [Next]_vars, NEW s \in Sources, NEW c \in Calls,
             source[c] = s, at[c] >= newest[s], failed'[s] # failed[s], failed'[s] # <<>>,
             pc[c] = "failing", pc'[c] = "idle"
      PROVE  Cardinality({i \in DOMAIN failed'[s] : failed'[s][i] > at[c] - AttemptWindow})
               <= AttemptLimit
  <2>1. Records(c)
    <3>1. LoginFail(c) \/ Restart
      BY <1>1
      DEF Next, LoginArrive, LoginBlocked, LoginMatch, LoginMismatch, LoginFail, UpgradeStore,
          UpgradeRefused, UpgradeMemory, LoginClear, LoginInsert, LoginInsertFails,
          ChangeVerify, ChangeCommit, ChangeRollsBack, ChangeGivesUp, ChangeMemory, Logout,
          RevokeAllSessions, Tick, Returned, Goto, Types, vars
    <3>2. ~Restart
      BY <1>1 DEF Restart
    <3>3. LoginFail(c)
      BY <3>1, <3>2
    <3> QED
      BY <1>1, <3>3 DEF LoginFail, Records
  <2> DEFINE p == Prune(s, at[c])
             f == failed[s]
             n == at[c]
             counted == {i \in DOMAIN failed'[s] : failed'[s][i] > n - AttemptWindow}
             late == (Len(f) - Len(p) + 1)..(Len(f) + 1)
  <2>2. /\ p \in Seq(Ticks) /\ f \in Seq(Ticks) /\ n \in Ticks
        /\ Len(p) <= Len(f) /\ OlderThan(Len(f) - Len(p), f, n)
    <3>1. /\ attempts[s] \in Seq(Ticks) /\ f \in Seq(Ticks) /\ newest[s] \in Ticks /\ n \in Ticks
      BY <1>1 DEF Types, LimiterTypes
    <3>2. newest[s] <= n
      BY <1>1, <3>1 DEF Ticks
    <3>3. /\ EndOf(attempts[s], f)
          /\ OlderThan(Len(f) - Len(attempts[s]), f, newest[s])
      BY <1>1 DEF Remembered, RememberedFor
    <3>4. /\ p \in Seq(Ticks) /\ EndOf(p, attempts[s])
          /\ OlderThan(Len(attempts[s]) - Len(p), attempts[s], n)
      BY <1>1, <3>1, PruneKeepsTheEnd
    <3>5. n <= n
      BY <3>1 DEF Ticks
    <3> HIDE DEF p, f, n
    <3>6. EndOf(p, f) /\ OlderThan(Len(f) - Len(p), f, n)
      BY <3>1, <3>2, <3>3, <3>4, <3>5, EndOfTheEnd
    <3> QED
      BY <3>1, <3>4, <3>6 DEF EndOf
  <2>3. Len(p) < AttemptLimit
    BY <1>1, <2>1, <2>2, LenProperties, NumbersAssumption DEF Records, Reserve, Blocked
  <2>4. failed'[s] = Append(f, n)
    BY <1>1, <2>1 DEF Records, LimiterTypes
  <2> HIDE DEF p, f, n
  <2>5. /\ Len(p) \in Nat /\ Len(f) \in Nat /\ DOMAIN Append(f, n) = 1..(Len(f) + 1)
        /\ \A i \in 1..Len(f) : Append(f, n)[i] = f[i] /\ f[i] \in Ticks
    BY <2>2, AppendProperties, LenProperties
  <2>6. ASSUME NEW i \in counted PROVE i \in late
    <3>1. i \in 1..(Len(f) + 1) /\ Append(f, n)[i] > n - AttemptWindow
      BY <2>4, <2>5
    <3>2. ASSUME i \in 1..(Len(f) - Len(p)) PROVE FALSE
      <4>1. i \in 1..Len(f) /\ Append(f, n)[i] = f[i] /\ f[i] \in Ticks
        BY <2>5, <3>2
      <4>2. f[i] <= n - AttemptWindow
        BY <2>2, <3>2 DEF OlderThan
      <4> QED
        BY <2>2, <3>1, <4>1, <4>2, NumbersAssumption DEF Ticks
    <3> QED
      BY <2>2, <2>5, <3>1, <3>2
  <2>7. IsFiniteSet(late) /\ Cardinality(late) = Len(p) + 1
    <3>1. Len(f) - Len(p) + 1 \in Int /\ Len(f) + 1 \in Int
          /\ ~(Len(f) - Len(p) + 1 > Len(f) + 1)
          /\ (Len(f) + 1) - (Len(f) - Len(p) + 1) + 1 = Len(p) + 1
      BY <2>5
    <3> QED
      BY <3>1, FS_Interval
  <2> HIDE DEF counted, late
  <2>8. counted \in SUBSET late /\ Cardinality(counted) <= Cardinality(late)
        /\ Cardinality(counted) \in Nat
    <3>1. counted \in SUBSET late
      BY <2>6
    <3> QED
      BY <2>7, <3>1, FS_Subset, FS_CardinalityType
  <2>9. Cardinality(counted) <= AttemptLimit
    BY <2>3, <2>5, <2>7, <2>8, NumbersAssumption
  <2> QED
    BY <2>9 DEF counted, n
<1>2. Types /\ LimiterTypes /\ Remembered /\ [Next]_vars
        => [\A s \in Sources, c \in Calls :
              /\ source[c] = s /\ at[c] >= newest[s]
              /\ failed'[s] # failed[s] /\ failed'[s] # <<>> /\ pc[c] = "failing" /\ pc'[c] = "idle"
              => Cardinality({i \in DOMAIN failed'[s] : failed'[s][i] > at[c] - AttemptWindow})
                   <= AttemptLimit]_vars
  BY <1>1
<1> QED
  BY <1>2, LimiterInductive, PTL DEF Spec, FailuresAreLimited
=============================================================================
