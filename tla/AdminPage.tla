------------------------------- MODULE AdminPage ------------------------------
(***************************************************************************)
(* What the single pages of the admin UI share: the page a browser tab is  *)
(* on and the bounds on what may happen to it.  UsagePanel, ReadPanels,    *)
(* OverviewPage, SettingsPage and AdminSession extend this module.         *)
(***************************************************************************)
EXTENDS Naturals

CONSTANTS
    Calls,       \* calls a page may have in flight together
    MaxClicks,   \* clicks that start something
    MaxFaults    \* calls that fail or are refused

ASSUME PageAssumption == Calls # {} /\ MaxClicks \in Nat /\ MaxFaults \in Nat

VARIABLES
    at,          \* "page", or "login" once a 401 has been handled
    clicks, faults

pageVars == <<at, clicks, faults>>

(* The call in which a page sends what it asks as it is mounted. *)
FirstCall == CHOOSE c \in Calls : TRUE

PageTypeOK == at \in {"page", "login"} /\ clicks \in 0 .. MaxClicks /\ faults \in 0 .. MaxFaults

InitPage == at = "page" /\ clicks = 0 /\ faults = 0

(* A click on the page; something the page awaited arrives, fails, or is   *)
(* refused with a 401, which handleUnauthorized answers with /login.       *)
Click == at = "page" /\ clicks < MaxClicks /\ clicks' = clicks + 1 /\ UNCHANGED <<at, faults>>
Arrives == at = "page" /\ UNCHANGED pageVars
Fault == at = "page" /\ faults < MaxFaults /\ faults' = faults + 1 /\ UNCHANGED clicks
Fails == Fault /\ UNCHANGED at
SignsOut == Fault /\ at' = "login"
===============================================================================
