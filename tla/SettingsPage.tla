----------------------------- MODULE SettingsPage -----------------------------
(***************************************************************************)
(* The settings page (SettingsPage.tsx) and the settings it is about: the  *)
(* pool policy the server holds in memory (ops_handlers.go), four fields   *)
(* that handlers store and read one by one with no lock around them.  The  *)
(* page keeps a snapshot of it (live) and a form (draft); every answer     *)
(* that brings settings overwrites both.                                   *)
(***************************************************************************)
EXTENDS AdminPage

CONSTANTS
    BenchTyped,  \* what a user types into the bench field, in tenths of a minute
    Elsewhere    \* the policies another admin may set

VARIABLES
    srv,         \* server: the policy in effect
    asked,       \* the policy of the PATCH that began to store last
    overlapped,  \* it began while another was storing, or one began meanwhile
    live, draft, have,   \* the snapshot, the form, settings # null
    sLoading, sError, savingPool, savingPassword,
    sCall,       \* call -> what it carries and how far its handler is
    sFresh       \* nothing was stored since the answer in live began to be read

settingsVars == <<srv, asked, overlapped, live, draft, have, sLoading, sError,
                  savingPool, savingPassword, sCall, sFresh>>

(***************************************************************************)
(* Policies.                                                               *)
(***************************************************************************)
MinBenchMinutes == 1
MaxBenchMinutes == 60

ClampAttempts(n) == IF n <= 2 THEN 2 ELSE IF n >= 4 THEN 4 ELSE 3

(* Mutant: no upper bound. *)
ClampBenchBelow(tenths) ==
    IF tenths < 10 * MinBenchMinutes THEN MinBenchMinutes ELSE (tenths + 5) \div 10

(* Of tenths: the range is checked first and the rest is rounded. *)
ClampBenchMinutes(tenths) ==
    IF tenths < 10 * MinBenchMinutes THEN MinBenchMinutes
    ELSE IF tenths > 10 * MaxBenchMinutes THEN MaxBenchMinutes
    ELSE (tenths + 5) \div 10

Policy == [load : {"spread", "sticky"}, attempts : Nat, bench : Nat, proxy : BOOLEAN]
DefaultPolicy == [load |-> "spread", attempts |-> 2, bench |-> 10, proxy |-> FALSE]
Snapshot(p) == [p EXCEPT !.attempts = ClampAttempts(p.attempts),
                         !.bench = ClampBenchMinutes(10 * p.bench)]

(* The fields are numbered in the order patchSettings stores them and      *)
(* getSettings reads them.                                                 *)
FieldValid(i, p) ==
    /\ i = 2 => p.attempts \in 2 .. 4
    /\ i = 3 => p.bench \in MinBenchMinutes .. MaxBenchMinutes
Valid(p) == \A i \in 1 .. 4 : FieldValid(i, p)

(* p with field i of q. *)
Taking(p, i, q) ==
    [load     |-> IF i = 1 THEN q.load ELSE p.load,
     attempts |-> IF i = 2 THEN q.attempts ELSE p.attempts,
     bench    |-> IF i = 3 THEN q.bench ELSE p.bench,
     proxy    |-> IF i = 4 THEN q.proxy ELSE p.proxy]

ASSUME SettingsAssumption ==
    /\ BenchTyped \subseteq Nat
    /\ \A p \in Elsewhere : p \in Policy /\ Valid(p)

(***************************************************************************)
(* Calls in flight.  A PATCH stores four fields and then reads four for    *)
(* its answer, as a load does: done counts the stores and the reads, from  *)
(* 0 for a PATCH and from 4 for a load.  A PATCH that nobody on this page  *)
(* waits for is one from elsewhere.                                        *)
(***************************************************************************)
Idle == [kind |-> "none", sent |-> DefaultPolicy, done |-> 0, ans |-> "none",
         got |-> DefaultPolicy, fresh |-> FALSE]
LoadCall == [Idle EXCEPT !.kind = "load", !.done = 4]
CallRecord == [kind : {"none", "load", "save", "password", "elsewhere"}, sent : Policy, done : 0 .. 8,
               ans : {"none", "ok", "error"}, got : Policy, fresh : BOOLEAN]
InCall(kind) == \E c \in Calls : sCall[c].kind = kind
Send(c, call) == Click /\ sCall[c] = Idle /\ sCall' = [sCall EXCEPT ![c] = call]
Settle(c) == sCall' = [sCall EXCEPT ![c] = Idle]

(* The handler of a PATCH that has fields to store, and has stored some.   *)
Stores(c) == sCall[c].kind \in {"save", "elsewhere"} /\ sCall[c].ans = "none" /\ sCall[c].done < 4
MidPatch(c) == Stores(c) /\ sCall[c].done > 0
Reads(c) == sCall[c].kind \in {"load", "save"} /\ sCall[c].ans = "none" /\ sCall[c].done \in 4 .. 7

SettingsTypeOK ==
    /\ {srv, asked, live, draft} \subseteq Policy
    /\ {overlapped, have, sLoading, sError, savingPool, savingPassword, sFresh} \subseteq BOOLEAN
    /\ sCall \in [Calls -> CallRecord]

SettingsInit ==
    /\ srv \in {DefaultPolicy} \cup Elsewhere /\ asked = srv /\ overlapped = FALSE
    /\ live = DefaultPolicy /\ draft = DefaultPolicy /\ have = FALSE
    /\ sLoading = TRUE /\ sError = FALSE /\ savingPool = FALSE /\ savingPassword = FALSE
    /\ sCall = [c \in Calls |-> IF c = FirstCall THEN LoadCall ELSE Idle]
    /\ sFresh = FALSE

(***************************************************************************)
(* The forms stand under an error too, but not under the skeleton.         *)
(***************************************************************************)
FormsShown == ~sLoading /\ have
PoolDirty == draft # live
ServerKeeps == UNCHANGED <<srv, asked, overlapped, sFresh>>

(* The header's refresh is never disabled. *)
RefreshSettings(c) ==
    /\ Send(c, LoadCall) /\ sLoading' = TRUE
    /\ UNCHANGED <<live, draft, have, sError, savingPool, savingPassword>> /\ ServerKeeps

(* The controls of the pool form are not disabled while it is being saved. *)
EditDraft ==
    /\ FormsShown /\ Click
    /\ \/ \E load \in {"spread", "sticky"} : draft' = [draft EXCEPT !.load = load]
       \/ \E n \in 2 .. 4 : draft' = [draft EXCEPT !.attempts = ClampAttempts(n)]
       \/ \E tenths \in BenchTyped : draft' = [draft EXCEPT !.bench = ClampBenchMinutes(tenths)]
       \/ \E on \in BOOLEAN : draft' = [draft EXCEPT !.proxy = on]
    /\ UNCHANGED <<live, have, sLoading, sError, savingPool, savingPassword, sCall>> /\ ServerKeeps

DiscardPoolDraft ==
    /\ FormsShown /\ PoolDirty /\ ~savingPool /\ Click
    /\ draft' = live
    /\ UNCHANGED <<live, have, sLoading, sError, savingPool, savingPassword, sCall>> /\ ServerKeeps

OnSavePool(c) ==
    /\ FormsShown /\ PoolDirty /\ ~savingPool /\ Send(c, [Idle EXCEPT !.kind = "save", !.sent = draft])
    /\ savingPool' = TRUE
    /\ UNCHANGED <<live, draft, have, sLoading, sError, savingPassword>> /\ ServerKeeps

OnChangePassword(c) ==
    /\ FormsShown /\ ~savingPassword /\ Send(c, [Idle EXCEPT !.kind = "password"])
    /\ savingPassword' = TRUE
    /\ UNCHANGED <<live, draft, have, sLoading, sError, savingPool>> /\ ServerKeeps

(***************************************************************************)
(* The server: the handlers take turns between any two fields.             *)
(***************************************************************************)
PageWaits == UNCHANGED <<live, draft, have, sLoading, sError, savingPool, savingPassword>>

(* What has been read of the policy, or shown of it, may be old now. *)
Outdates == [c \in Calls |-> [sCall[c] EXCEPT !.fresh = FALSE]]

(* patchSettings checks a field and stores it, one after the other; at the *)
(* first that is out of bounds it stops, and those before it stay stored.  *)
StoreField(c) ==
    /\ Stores(c) /\ Arrives
    /\ LET call == sCall[c]
           i == call.done + 1
           over(end) == IF call.kind = "elsewhere" THEN Idle ELSE end
       IN  IF FieldValid(i, call.sent)
           THEN /\ srv' = Taking(srv, i, call.sent)
                /\ asked' = IF i = 1 THEN call.sent ELSE asked
                /\ overlapped' = IF i = 1 THEN \E d \in Calls : MidPatch(d) ELSE overlapped
                /\ sCall' = [Outdates EXCEPT ![c] = IF i = 4 THEN over([call EXCEPT !.done = i])
                                                    ELSE [call EXCEPT !.done = i]]
                /\ sFresh' = FALSE
           ELSE /\ sCall' = [sCall EXCEPT ![c] = over([call EXCEPT !.ans = "error"])]
                /\ UNCHANGED <<srv, asked, overlapped, sFresh>>
    /\ PageWaits

(* getSettings reads a field for a load, or for the answer to a PATCH. *)
ReadField(c) ==
    /\ Reads(c) /\ Arrives
    /\ LET done == sCall[c].done
       IN  sCall' = [sCall EXCEPT ![c].got = Taking(sCall[c].got, done - 3, srv), ![c].done = done + 1,
                                  ![c].fresh = done = 4 \/ sCall[c].fresh,
                                  ![c].ans = IF done = 7 THEN "ok" ELSE "none"]
    /\ UNCHANGED <<srv, asked, overlapped, sFresh>> /\ PageWaits

(* Another admin saves. *)
PatchElsewhere(c) ==
    /\ Fails /\ sCall[c] = Idle
    /\ \E p \in Elsewhere : sCall' = [sCall EXCEPT ![c] = [Idle EXCEPT !.kind = "elsewhere", !.sent = p]]
    /\ UNCHANGED <<srv, asked, overlapped, sFresh>> /\ PageWaits

(* The process restarts: the policy is in memory only, and the handlers    *)
(* that have begun are gone.                                               *)
Begun(c) == MidPatch(c) \/ (Reads(c) /\ (sCall[c].kind = "save" \/ sCall[c].done > 4))
Restart ==
    /\ Fails
    /\ srv' = DefaultPolicy /\ asked' = DefaultPolicy /\ overlapped' = FALSE /\ sFresh' = FALSE
    /\ sCall' = [c \in Calls |->
                    IF ~Begun(c) THEN Outdates[c]
                    ELSE IF sCall[c].kind = "elsewhere" THEN Idle
                    ELSE [Outdates[c] EXCEPT !.ans = "error"]]
    /\ PageWaits

(***************************************************************************)
(* Answers.                                                                *)
(***************************************************************************)
(* Mutant: what the form holds is taken for what was saved. *)
ApplyPoolDraft(c) ==
    /\ sCall[c].ans = "ok" /\ Arrives
    /\ live' = draft /\ UNCHANGED draft
    /\ have' = TRUE /\ sFresh' = sCall[c].fresh
    /\ Settle(c)
    /\ UNCHANGED <<srv, asked, overlapped, savingPassword>>

(* applyPoolSnapshot: live and draft alike, whatever was typed meanwhile. *)
ApplyPoolSnapshot(c) ==
    /\ sCall[c].ans = "ok" /\ Arrives
    /\ live' = Snapshot(sCall[c].got) /\ draft' = Snapshot(sCall[c].got)
    /\ have' = TRUE /\ sFresh' = sCall[c].fresh
    /\ Settle(c)
    /\ UNCHANGED <<srv, asked, overlapped, savingPassword>>

SettingsArrive(c) ==
    /\ sCall[c].kind = "load" /\ ApplyPoolSnapshot(c)
    /\ sError' = FALSE /\ sLoading' = FALSE /\ UNCHANGED savingPool

PoolSaved(c) ==
    /\ sCall[c].kind = "save" /\ ApplyPoolSnapshot(c)
    /\ savingPool' = FALSE /\ UNCHANGED <<sError, sLoading>>

(* Mutant: the save button is left spinning. *)
LowersOthers(c) == /\ sLoading' = (sLoading /\ sCall[c].kind # "load")
                   /\ savingPassword' = (savingPassword /\ sCall[c].kind # "password")
                   /\ UNCHANGED savingPool

Lowers(c) == /\ sLoading' = (sLoading /\ sCall[c].kind # "load")
             /\ savingPool' = (savingPool /\ sCall[c].kind # "save")
             /\ savingPassword' = (savingPassword /\ sCall[c].kind # "password")

(* Failed, refused, or the answer is lost; the handler of a PATCH whose    *)
(* answer is no longer waited for goes on, or is yet to begin.             *)
CallFailed(c) ==
    /\ sCall[c].kind \in {"load", "save", "password"}
    /\ IF sCall[c].ans = "error" THEN Arrives ELSE Fails
    /\ sError' = (sError \/ sCall[c].kind = "load")
    /\ Lowers(c)
    /\ \/ ~MidPatch(c) /\ Settle(c)
       \/ Stores(c) /\ sCall' = [sCall EXCEPT ![c].kind = "elsewhere"]
    /\ UNCHANGED <<live, draft, have>> /\ ServerKeeps

(* A 401; for a password change it is a toast about the password instead. *)
CallUnauthorized(c) ==
    /\ sCall[c].kind \in {"load", "save", "password"} /\ sCall[c].ans = "none" /\ ~Begun(c)
    /\ IF sCall[c].kind = "password" THEN Fails ELSE SignsOut
    /\ Lowers(c) /\ Settle(c)
    /\ UNCHANGED <<live, draft, have, sError>> /\ ServerKeeps

(* A changed password ends every session. *)
PasswordChanged(c) ==
    /\ sCall[c].kind = "password" /\ at = "page" /\ at' = "login" /\ UNCHANGED <<clicks, faults>>
    /\ Lowers(c) /\ Settle(c)
    /\ UNCHANGED <<live, draft, have, sError>> /\ ServerKeeps

SettingsNext ==
    \/ EditDraft \/ DiscardPoolDraft \/ Restart
    \/ \E c \in Calls :
          \/ RefreshSettings(c) \/ OnSavePool(c) \/ OnChangePassword(c)
          \/ StoreField(c) \/ ReadField(c) \/ PatchElsewhere(c)
          \/ SettingsArrive(c) \/ PoolSaved(c) \/ PasswordChanged(c)
          \/ CallFailed(c) \/ CallUnauthorized(c)

SettingsSpec == InitPage /\ SettingsInit /\ [][SettingsNext]_<<pageVars, settingsVars>>

(***************************************************************************)
(* Properties.                                                             *)
(***************************************************************************)
(* "Snapshot = last known server/runtime values": what the page shows is   *)
(* the policy in effect, unless a field was stored since the answer it     *)
(* shows began to be read, as when a GET and a PATCH run side by side or   *)
(* an older answer overtakes a newer one.                                  *)
LiveIsServer == at = "page" /\ sFresh => live = srv

(* A PATCH that begins with no other half way, and that none joins, leaves *)
(* the policy it was sent in effect and whole, whatever was in effect      *)
(* before: nothing the form lets a user save is refused half way through.  *)
LonePatchTakesEffect == ~overlapped /\ (\A c \in Calls : ~MidPatch(c)) => srv = asked

(* The buttons that save spin exactly while their call is in flight, the   *)
(* skeleton only while a load is.                                          *)
SettingsFlagsBacked ==
    at = "page" => /\ savingPool <=> InCall("save")
                   /\ savingPassword <=> InCall("password")
                   /\ sLoading => InCall("load")
===============================================================================
