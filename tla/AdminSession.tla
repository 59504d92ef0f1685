----------------------------- MODULE AdminSession -----------------------------
(***************************************************************************)
(* The session of the admin UI.  Below /app everything stands behind       *)
(* AuthGate, which asks the server (me) who it is whenever it is mounted,  *)
(* retried, or told of a new language; /login asks the same when it is     *)
(* mounted and sends back whoever has a session.  Each effect drops the    *)
(* answer to the check of the effect before it.  The cookie is out of the  *)
(* page's reach: it changes with the answers to login and logout.          *)
(***************************************************************************)
EXTENDS AdminPage

VARIABLES
    gate,        \* AuthGate's state; "guest" redirects as it is rendered
    checking,    \* LoginPage: me() has not been answered
    logging,     \* LoginPage: loading
    hint,        \* the session hint of auth-session.ts
    cookie,      \* the browser's cookie, 0 for none
    valid,       \* the sessions the server honours
    minted,      \* sessions there have been
    hCall        \* call -> what it is, whose answer is still wanted, its cookie

sessionVars == <<gate, checking, logging, hint, cookie, valid, minted, hCall>>

Unused == [kind |-> "none", live |-> FALSE, sent |-> 0, ans |-> "none", token |-> 0]
Request(kind, token) == [Unused EXCEPT !.kind = kind, !.live = TRUE, !.sent = token]
HttpCall == [kind : {"none", "me", "login", "logout", "page"}, live : BOOLEAN, sent : Nat,
             ans : {"none", "ok", "unauthorized"}, token : Nat]

SessionTypeOK ==
    /\ gate \in {"loading", "authed", "error"}
    /\ {checking, logging, hint} \subseteq BOOLEAN
    /\ minted \in Nat /\ cookie \in 0 .. minted /\ valid \subseteq 1 .. minted
    /\ hCall \in [Calls -> HttpCall]

(* A browser that has no session, one that has, one whose session is over. *)
SessionInit ==
    /\ minted = 1 /\ cookie \in {0, 1} /\ valid \in {{}, {1}}
    /\ hint = FALSE /\ gate = "loading" /\ checking = TRUE /\ logging = FALSE
    /\ hCall = [c \in Calls |-> IF c = FirstCall THEN Request("me", cookie) ELSE Unused]

(***************************************************************************)
(* Routes.                                                                 *)
(***************************************************************************)
(* The calls when an effect asks me() in c: what the effect before it has  *)
(* asked is cancelled.                                                     *)
Cancelled(call) == [call EXCEPT !.live = call.live /\ call.kind # "me"]
AskMe(c, calls) == [d \in Calls |-> IF d = c THEN Request("me", cookie') ELSE Cancelled(calls[d])]

(* The two routes; each is mounted anew and asks in c. *)
Mounted(route, c, calls) ==
    /\ at' = route /\ gate' = "loading" /\ checking' = TRUE /\ logging' = FALSE
    /\ hCall' = AskMe(c, calls)

IsUnused(c) == hCall[c] = Unused
Done(c) == [hCall EXCEPT ![c] = Unused]
Touch == clicks < MaxClicks /\ clicks' = clicks + 1 /\ UNCHANGED faults
ServerStays == UNCHANGED <<valid, minted>>
ShellShown == at = "page" /\ gate = "authed"
FormShown == at = "login" /\ ~checking

(***************************************************************************)
(* What the user can do.                                                   *)
(***************************************************************************)
RetryGate(c) ==
    /\ at = "page" /\ gate = "error" /\ Touch /\ IsUnused(c)
    /\ gate' = "loading" /\ UNCHANGED cookie /\ hCall' = AskMe(c, hCall)
    /\ UNCHANGED <<at, checking, logging, hint>> /\ ServerStays

(* Another language is another t, on which the gate's effect depends: the  *)
(* session is checked again, and the page unmounts meanwhile.              *)
SwitchLanguage(c) ==
    /\ ShellShown /\ Touch /\ IsUnused(c)
    /\ gate' = "loading" /\ UNCHANGED cookie /\ hCall' = AskMe(c, hCall)
    /\ UNCHANGED <<at, checking, logging, hint>> /\ ServerStays

(* handleLogout does not wait for its own call. *)
HandleLogout(c, d) ==
    /\ ShellShown /\ Touch /\ c # d /\ IsUnused(c) /\ IsUnused(d)
    /\ hint' = FALSE /\ UNCHANGED cookie
    /\ Mounted("login", d, [hCall EXCEPT ![c] = Request("logout", cookie)])
    /\ ServerStays

(* Any call of any page. *)
CallFromPage(c) ==
    /\ ShellShown /\ Touch /\ IsUnused(c)
    /\ hCall' = [hCall EXCEPT ![c] = Request("page", cookie)]
    /\ UNCHANGED <<at, gate, checking, logging, hint, cookie>> /\ ServerStays

OnSubmit(c) ==
    /\ FormShown /\ ~logging /\ Touch /\ IsUnused(c)
    /\ logging' = TRUE
    /\ hCall' = [hCall EXCEPT ![c] = Request("login", cookie)]
    /\ UNCHANGED <<at, gate, checking, hint, cookie>> /\ ServerStays

(***************************************************************************)
(* The server: each call is served once, in any order.                     *)
(***************************************************************************)
Unanswered(c) == hCall[c].kind # "none" /\ hCall[c].ans = "none"
BrowserWaits == UNCHANGED <<pageVars, gate, checking, logging, hint, cookie>>
Admitted(c) == IF hCall[c].sent \in valid THEN "ok" ELSE "unauthorized"

ServeCall(c) ==
    /\ Unanswered(c) /\ hCall[c].kind \in {"me", "page"}
    /\ hCall' = [hCall EXCEPT ![c].ans = Admitted(c)]
    /\ ServerStays /\ BrowserWaits

ServeLogin(c) ==
    /\ Unanswered(c) /\ hCall[c].kind = "login"
    /\ \/ /\ minted' = minted + 1 /\ valid' = valid \cup {minted'}
          /\ hCall' = [hCall EXCEPT ![c].ans = "ok", ![c].token = minted']
       \/ hCall' = [hCall EXCEPT ![c].ans = "unauthorized"] /\ ServerStays
    /\ BrowserWaits

(* The route is behind requireAuth, as the others are. *)
ServeLogout(c) ==
    /\ Unanswered(c) /\ hCall[c].kind = "logout"
    /\ valid' = valid \ {hCall[c].sent}
    /\ hCall' = [hCall EXCEPT ![c].ans = Admitted(c)]
    /\ UNCHANGED minted /\ BrowserWaits

(* The sessions expire, or the password is changed elsewhere. *)
SessionsEnd ==
    /\ faults < MaxFaults /\ faults' = faults + 1 /\ valid # {} /\ valid' = {}
    /\ UNCHANGED <<at, clicks, gate, checking, logging, hint, cookie, minted, hCall>>

(***************************************************************************)
(* Answers.                                                                *)
(***************************************************************************)
Answered(c, kind, ans) == hCall[c].kind = kind /\ hCall[c].ans = ans /\ UNCHANGED <<clicks, faults>>
Stays == UNCHANGED <<at, gate, checking, logging>>

MeDropped(c) ==
    /\ hCall[c].kind = "me" /\ ~hCall[c].live /\ hCall[c].ans # "none"
    /\ hCall' = Done(c)
    /\ UNCHANGED <<clicks, faults, hint, cookie>> /\ Stays /\ ServerStays

MeOk(c) ==
    /\ Answered(c, "me", "ok") /\ hCall[c].live
    /\ hint' = TRUE /\ UNCHANGED cookie
    /\ IF at = "page"
       THEN gate' = "authed" /\ hCall' = Done(c) /\ UNCHANGED <<at, checking, logging>>
       ELSE Mounted("page", c, hCall)
    /\ ServerStays

(* Mutant: the login page takes any answer for a session. *)
MeUnauthorizedTrusted(c) ==
    /\ Answered(c, "me", "unauthorized") /\ hCall[c].live
    /\ hint' = FALSE /\ UNCHANGED cookie
    /\ Mounted(IF at = "page" THEN "login" ELSE "page", c, hCall)
    /\ ServerStays

MeUnauthorized(c) ==
    /\ Answered(c, "me", "unauthorized") /\ hCall[c].live
    /\ hint' = FALSE /\ UNCHANGED cookie
    /\ IF at = "page"
       THEN Mounted("login", c, hCall)
       ELSE checking' = FALSE /\ hCall' = Done(c) /\ UNCHANGED <<at, gate, logging>>
    /\ ServerStays

LoginOk(c) ==
    /\ Answered(c, "login", "ok")
    /\ cookie' = hCall[c].token /\ hint' = TRUE
    /\ Mounted("page", c, hCall) /\ ServerStays

LoginRefused(c) ==
    /\ Answered(c, "login", "unauthorized")
    /\ logging' = FALSE /\ hCall' = Done(c)
    /\ UNCHANGED <<at, gate, checking, hint, cookie>> /\ ServerStays

(* The answer clears the cookie, the one of a newer session as well. *)
LogoutOk(c) ==
    /\ Answered(c, "logout", "ok")
    /\ cookie' = 0 /\ hCall' = Done(c) /\ UNCHANGED hint /\ Stays /\ ServerStays

(* A logout of a dead session: the cookie stays, and nobody looks at the 401. *)
LogoutRefused(c) ==
    /\ Answered(c, "logout", "unauthorized")
    /\ hCall' = Done(c) /\ UNCHANGED <<hint, cookie>> /\ Stays /\ ServerStays

PageOk(c) == /\ Answered(c, "page", "ok") /\ hCall' = Done(c)
             /\ UNCHANGED <<hint, cookie>> /\ Stays /\ ServerStays

(* handleUnauthorized, called from a page that may be gone by now. *)
PageUnauthorized(c) ==
    /\ Answered(c, "page", "unauthorized")
    /\ hint' = FALSE /\ UNCHANGED cookie
    /\ IF at = "page" THEN Mounted("login", c, hCall) ELSE hCall' = Done(c) /\ Stays
    /\ ServerStays

(* No answer, or one that is an error: the hint stays as it is. *)
NoAnswer(c) ==
    /\ hCall[c].kind # "none" /\ faults < MaxFaults /\ faults' = faults + 1
    /\ LET wanted == hCall[c].kind = "me" /\ hCall[c].live
       IN  /\ gate' = IF wanted /\ at = "page" THEN "error" ELSE gate
           /\ checking' = (checking /\ ~(wanted /\ at = "login"))
    /\ logging' = (logging /\ hCall[c].kind # "login")
    /\ hCall' = Done(c)
    /\ UNCHANGED <<at, clicks, hint, cookie>> /\ ServerStays

(***************************************************************************)
(* A call that has been sent is served, and its answer gets to the page.   *)
(***************************************************************************)
Served(c) == ServeCall(c) \/ ServeLogin(c) \/ ServeLogout(c)
Returns(c) ==
    \/ MeDropped(c) \/ MeOk(c) \/ MeUnauthorized(c)
    \/ LoginOk(c) \/ LoginRefused(c) \/ LogoutOk(c) \/ LogoutRefused(c)
    \/ PageOk(c) \/ PageUnauthorized(c)

SessionNext ==
    \/ SessionsEnd
    \/ \E c \in Calls : RetryGate(c) \/ SwitchLanguage(c) \/ CallFromPage(c) \/ OnSubmit(c)
    \/ \E c, d \in Calls : HandleLogout(c, d)
    \/ \E c \in Calls : Served(c) \/ Returns(c) \/ NoAnswer(c)

AnswersCome == \A c \in Calls :
    WF_<<pageVars, sessionVars>>(Served(c)) /\ WF_<<pageVars, sessionVars>>(Returns(c))

SessionSpec == InitPage /\ SessionInit /\ [][SessionNext]_<<pageVars, sessionVars>> /\ AnswersCome

(***************************************************************************)
(* Properties.                                                             *)
(***************************************************************************)
Wanted(kind) == \E c \in Calls : hCall[c].kind = kind /\ hCall[c].live

(* The gate and the login page wait exactly while the answer to their own  *)
(* check is on its way: neither decides by the answer to an older check,   *)
(* of an earlier mount or of the language before, and neither is left      *)
(* waiting for an answer that will be dropped.                             *)
SessionWaitsBacked ==
    /\ at = "page" => (gate = "loading" <=> Wanted("me"))
    /\ at = "login" => (checking <=> Wanted("me")) /\ (logging <=> Wanted("login"))

(* Whatever is clicked and whatever becomes of the session, the UI comes   *)
(* to rest at the shell, the form or the retry: the gate and the login     *)
(* page do not send the user to one another for ever, and none of their    *)
(* skeletons stays.                                                        *)
AtRest == IF at = "page" THEN gate # "loading" ELSE ~checking /\ ~logging
SessionSettles == <>[]AtRest
===============================================================================
