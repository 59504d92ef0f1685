---------------------------- MODULE WebPagesProofs ----------------------------
(***************************************************************************)
(* Proofs about the other single pages of the admin UI and about all of    *)
(* them in one tab: ReadPanels, AdminSession, DateRangePicker, the flags   *)
(* of SettingsPage, and MCWebPages, for any calls, versions, page sizes,   *)
(* days and bounds.                                                        *)
(***************************************************************************)
EXTENDS MCWebPages, SinglePagesProofs, FiniteSetTheorems

(***************************************************************************)
(* The panels.  In those of the logs page a call in flight keeps the       *)
(* skeleton up, and the button that would start another is not on screen:  *)
(* there is one call (OneAtATime), it answers the last click on refresh    *)
(* (AnswersTheClick), and so does the list it leaves (ShowsTheClick).      *)
(***************************************************************************)
InFlight(c) == pCall[c] # NoCall

OneAtATime == \A c, d \in Calls : InFlight(c) /\ InFlight(d) => c = d /\ pLoading
AnswersTheClick == \A c \in Calls : pCall[c].ans = "given" => pWanted <= pCall[c].version
ShowsTheClick == at = "page" /\ ~pError /\ (\A c \in Calls : ~InFlight(c)) => pWanted <= pShown

LogPanelInv == OneAtATime /\ AnswersTheClick /\ ShowsTheClick

PanelInv ==
    /\ PanelsTypeOK
    /\ panel \in LogPanels => LogPanelInv
    /\ PanelSpinnersBacked
    /\ pRefreshing => panel \in {"models", "ollama"}

PanelCall(n) == [ans : {"none", "awaited", "given"}, version : 0 .. n]

LEMMA CallTypes ==
    ASSUME NEW n \in Nat
    PROVE  /\ NoCall \in PanelCall(n) /\ Asked \in PanelCall(n) /\ Asked # NoCall
           /\ NoCall.ans = "none" /\ Asked.ans = "awaited"
           /\ [ans |-> "given", version |-> n] \in PanelCall(n)
           /\ [ans |-> "given", version |-> n].ans = "given"
           /\ [ans |-> "given", version |-> n].version = n
           /\ [ans |-> "given", version |-> n] # NoCall
  BY DEF NoCall, Asked, PanelCall

(* A list has at least one page. *)
LEMMA DivIsNat ==
    ASSUME NEW a \in Nat, NEW s \in Nat \ {0} PROVE a \div s \in Nat
  BY SMTT(30)

LEMMA PagesArePositive ==
    ASSUME NEW n \in Nat PROVE TotalPages(n, PanelSize) \in Nat \ {0}
<1>1. PanelSize \in Nat \ {0} BY PanelAssumption
<1>2. PICK a \in Nat : a = n + PanelSize - 1 BY <1>1
<1>3. a \div PanelSize \in Nat BY <1>1, DivIsNat
<1> QED BY <1>2, <1>3 DEF TotalPages, AtLeast1

(* The pager leaves a page alone that the list has. *)
LEMMA SafeIsKept ==
    ASSUME NEW n \in Nat, NEW p \in Nat \ {0}
    PROVE  p = SafePage(n, p, PanelSize) <=> p <= TotalPages(n, PanelSize)
<1>1. TotalPages(n, PanelSize) \in Nat \ {0} BY PagesArePositive
<1> QED BY <1>1 DEF SafePage, AtMost, AtLeast1

(* What the pager offers is a page of the list. *)
LEMMA TargetsArePages ==
    ASSUME NEW n \in Nat, NEW p \in Nat \ {0}, NEW t \in PagerTargets(n, p, PanelSize)
    PROVE  t \in Nat \ {0} /\ t <= TotalPages(n, PanelSize)
<1>1. TotalPages(n, PanelSize) \in Nat \ {0} BY PagesArePositive
<1> QED BY <1>1 DEF PagerTargets, PageWindow

LEMMA MatchedCounts ==
    ASSUME pRows \in SUBSET Rows, NEW filter PROVE Cardinality(Matched(filter)) \in Nat
<1>1. IsFiniteSet(Rows) BY PanelAssumption, FS_Interval DEF Rows
<1>2. Matched(filter) \subseteq Rows BY DEF Matched
<1> QED BY <1>1, <1>2, FS_Subset, FS_CardinalityType

LEMMA TotalType == PanelsTypeOK => Total \in Nat
  BY MatchedCounts DEF PanelsTypeOK, Total

LEMMA PanelInitInv == InitPage /\ PanelInit => PanelInv
<1> SUFFICES ASSUME InitPage, PanelInit PROVE PanelInv OBVIOUS
<1>1. FirstCall \in Calls BY PageAssumption DEF FirstCall
<1>2. onHand = 1 /\ pShown = 0 /\ pRows = {} /\ pWanted = 1 /\ pPage = 1
      /\ pLoading = TRUE /\ pRefreshing = FALSE /\ pError = FALSE
      /\ panel \in Panels /\ pFilter = "all"
      /\ pCall = [c \in Calls |-> IF c = FirstCall THEN Asked ELSE NoCall]
  BY DEF PanelInit
<1>3. NoCall \in PanelCall(1) /\ Asked \in PanelCall(1) /\ Asked # NoCall /\ NoCall.ans = "none"
      /\ Asked.ans = "awaited"
  BY CallTypes
<1>4. pCall \in [Calls -> PanelCall(onHand)] BY <1>2, <1>3
<1>5. PanelsTypeOK
  <2>1. onHand \in 1 .. MaxVersion + 1 /\ pShown \in 0 .. onHand /\ pWanted \in 1 .. onHand
    BY <1>2, PanelAssumption
  <2>2. {pLoading, pRefreshing, pError} \subseteq BOOLEAN BY <1>2
  <2>3. pFilter \in Filters /\ pPage \in Nat \ {0} BY <1>2 DEF Filters
  <2>4. panel \in Panels /\ pRows \in SUBSET Rows BY <1>2
  <2> QED BY <1>4, <2>1, <2>2, <2>3, <2>4 DEF PanelsTypeOK, PanelCall
<1>6. OneAtATime
  <2>1. \A c \in Calls : InFlight(c) => c = FirstCall BY <1>2 DEF InFlight
  <2> QED BY <1>2, <2>1 DEF OneAtATime
<1>7. AnswersTheClick BY <1>2, <1>3 DEF AnswersTheClick
<1>8. ShowsTheClick
  <2>1. InFlight(FirstCall) BY <1>1, <1>2, <1>3 DEF InFlight
  <2> QED BY <1>1, <2>1 DEF ShowsTheClick
<1>9. PanelSpinnersBacked BY <1>1, <1>2, <1>3 DEF PanelSpinnersBacked
<1> QED BY <1>2, <1>5, <1>6, <1>7, <1>8, <1>9 DEF PanelInv, LogPanelInv

(***************************************************************************)
(* Steps.                                                                  *)
(***************************************************************************)
(* No list is reloaded from the logs page while one is on its way. *)
LEMMA RefreshWaits ==
    ASSUME panel \in LogPanels, RefreshOffered PROVE ~pLoading
  BY Zenon DEF RefreshOffered, ListOnScreen, LogPanels

LEMMA RefreshStep ==
    ASSUME PanelInv, NEW c \in Calls, Refresh(c) PROVE PanelInv'
<1>1. /\ pCall' = [pCall EXCEPT ![c] = Asked]
      /\ pLoading' = (pLoading \/ panel # "models")
      /\ pRefreshing' = (pRefreshing \/ panel \in {"models", "ollama"})
      /\ pWanted' = onHand
      /\ UNCHANGED <<panel, onHand, pShown, pRows, pError, pFilter, pPage>>
      /\ RefreshOffered
  BY DEF Refresh
<1>2. PanelsTypeOK /\ onHand \in Nat \ {0} /\ pCall \in [Calls -> PanelCall(onHand)]
  BY DEF PanelInv, PanelsTypeOK, PanelCall
<1>3. Asked \in PanelCall(onHand) /\ Asked # NoCall /\ Asked.ans # "given" /\ NoCall.ans # "given"
  BY <1>2, CallTypes
<1>4. /\ pCall' \in [Calls -> PanelCall(onHand)] /\ pCall'[c] = Asked
      /\ \A d \in Calls \ {c} : pCall'[d] = pCall[d]
  BY <1>1, <1>2, <1>3
<1>5. PanelsTypeOK' BY <1>1, <1>2, <1>4 DEF PanelsTypeOK, PanelCall
<1>6. ASSUME panel \in LogPanels PROVE LogPanelInv'
  <2>1. OneAtATime BY <1>6 DEF PanelInv, LogPanelInv
  <2>2. ~pLoading BY <1>1, <1>6, RefreshWaits
  <2>3. \A d \in Calls : ~InFlight(d) BY <2>1, <2>2 DEF OneAtATime
  <2>4. pLoading' = TRUE BY <1>1, <1>6 DEF LogPanels
  <2>5. \A d \in Calls : InFlight(d)' => d = c BY <1>4, <2>3 DEF InFlight
  <2>6. OneAtATime' BY <2>4, <2>5 DEF OneAtATime
  <2>7. AnswersTheClick' BY <1>3, <1>4, <2>5 DEF AnswersTheClick, InFlight
  <2>8. ShowsTheClick' BY <1>3, <1>4 DEF ShowsTheClick, InFlight
  <2> QED BY <2>6, <2>7, <2>8 DEF LogPanelInv
<1>7. PanelSpinnersBacked' BY <1>3, <1>4 DEF PanelSpinnersBacked
<1>8. pRefreshing' => panel' \in {"models", "ollama"} BY <1>1 DEF PanelInv
<1> QED BY <1>1, <1>5, <1>6, <1>7, <1>8 DEF PanelInv

LEMMA ServePanelStep ==
    ASSUME PanelInv, NEW c \in Calls, ServePanel(c) PROVE PanelInv'
<1> DEFINE given == [ans |-> "given", version |-> onHand]
<1>1. /\ pCall[c] = Asked /\ pCall' = [pCall EXCEPT ![c] = given] /\ at' = at
      /\ UNCHANGED <<panel, onHand, pShown, pRows, pWanted, pLoading, pRefreshing, pError, pFilter, pPage>>
  BY DEF ServePanel, Arrives, pageVars
<1>2. PanelsTypeOK /\ onHand \in Nat /\ pCall \in [Calls -> PanelCall(onHand)] /\ pWanted \in 1 .. onHand
  BY DEF PanelInv, PanelsTypeOK, PanelCall
<1>3. /\ given \in PanelCall(onHand) /\ given # NoCall /\ given.version = onHand /\ Asked # NoCall
  BY <1>2, CallTypes
<1> HIDE DEF given
<1>4. /\ pCall' \in [Calls -> PanelCall(onHand)] /\ pCall'[c] = given
      /\ \A d \in Calls \ {c} : pCall'[d] = pCall[d]
  BY <1>1, <1>2, <1>3
<1>5. \A d \in Calls : InFlight(d)' <=> InFlight(d) BY <1>1, <1>3, <1>4 DEF InFlight
<1>6. PanelsTypeOK' BY <1>1, <1>2, <1>4 DEF PanelsTypeOK, PanelCall
<1>7. ASSUME panel \in LogPanels PROVE LogPanelInv'
  <2>1. OneAtATime /\ AnswersTheClick /\ ShowsTheClick BY <1>7 DEF PanelInv, LogPanelInv
  <2>2. OneAtATime' BY <1>1, <1>5, <2>1 DEF OneAtATime
  <2>3. AnswersTheClick' BY <1>1, <1>2, <1>3, <1>4, <2>1 DEF AnswersTheClick
  <2>4. ShowsTheClick' BY <1>1, <1>5, <2>1 DEF ShowsTheClick
  <2> QED BY <2>2, <2>3, <2>4 DEF LogPanelInv
<1>8. PanelSpinnersBacked' BY <1>1, <1>5 DEF PanelInv, PanelSpinnersBacked, InFlight
<1> QED BY <1>1, <1>6, <1>7, <1>8 DEF PanelInv

LEMMA MovesOnStep ==
    ASSUME PanelInv, ServerMovesOn PROVE PanelInv'
<1>1. /\ onHand <= MaxVersion /\ onHand' = onHand + 1 /\ at' = at
      /\ UNCHANGED <<panel, pShown, pRows, pWanted, pLoading, pRefreshing, pError, pFilter, pPage, pCall>>
  BY DEF ServerMovesOn, Arrives, pageVars
<1>2. PanelsTypeOK /\ onHand \in Nat /\ pShown \in 0 .. onHand /\ pCall \in [Calls -> PanelCall(onHand)]
  BY DEF PanelInv, PanelsTypeOK, PanelCall
<1>3. pCall \in [Calls -> PanelCall(onHand + 1)]
  <2>1. PanelCall(onHand) \subseteq PanelCall(onHand + 1) BY <1>2 DEF PanelCall
  <2> QED BY <1>2, <2>1
<1>4. MaxVersion \in Nat BY PanelAssumption
<1>5. PanelsTypeOK' BY <1>1, <1>2, <1>3, <1>4 DEF PanelsTypeOK, PanelCall
<1>6. panel \in LogPanels => LogPanelInv'
  BY <1>1 DEF PanelInv, LogPanelInv, OneAtATime, AnswersTheClick, ShowsTheClick, InFlight
<1> QED BY <1>1, <1>5, <1>6 DEF PanelInv, PanelSpinnersBacked

(* A call that is over was the only one of a log panel; both flags are down. *)
LEMMA EndCallStep ==
    ASSUME PanelInv, NEW c \in Calls, InFlight(c), EndCall(c), {pError'} \subseteq BOOLEAN,
           \/ pShown' = pShown /\ pRows' = pRows /\ (pError' \/ at' = "login")
           \/ pCall[c].ans = "given" /\ pShown' = pCall[c].version /\ pRows' \in SUBSET Rows
    PROVE  PanelInv'
<1>1. /\ pCall' = [pCall EXCEPT ![c] = NoCall] /\ pLoading' = FALSE
      /\ pRefreshing' = (pRefreshing /\ panel \in {"gateway", "quotas"})
      /\ UNCHANGED <<panel, onHand, pWanted, pFilter, pPage>>
  BY DEF EndCall
<1>2. PanelsTypeOK /\ onHand \in Nat /\ pShown \in 0 .. onHand /\ pRows \in SUBSET Rows
      /\ pCall \in [Calls -> PanelCall(onHand)]
  BY DEF PanelInv, PanelsTypeOK, PanelCall
<1>3. NoCall \in PanelCall(onHand) /\ NoCall.ans # "given" BY <1>2, CallTypes
<1>4. /\ pCall' \in [Calls -> PanelCall(onHand)] /\ pCall'[c] = NoCall
      /\ \A d \in Calls \ {c} : pCall'[d] = pCall[d]
  BY <1>1, <1>2, <1>3
<1>5. pRefreshing' = FALSE BY <1>1 DEF PanelInv
<1>6. pShown' \in 0 .. onHand /\ pRows' \in SUBSET Rows
  <2>1. pCall[c].version \in 0 .. onHand BY <1>2 DEF PanelCall
  <2> QED BY <1>2, <2>1
<1>7. PanelsTypeOK' BY <1>1, <1>2, <1>4, <1>5, <1>6 DEF PanelsTypeOK, PanelCall
<1>8. ASSUME panel \in LogPanels PROVE LogPanelInv'
  <2>1. OneAtATime /\ AnswersTheClick BY <1>8 DEF PanelInv, LogPanelInv
  <2>2. \A d \in Calls : ~InFlight(d)' BY <1>4, <2>1 DEF OneAtATime, InFlight
  <2>3. OneAtATime' BY <2>2 DEF OneAtATime
  <2>4. \A d \in Calls : pCall'[d] = NoCall BY <2>2 DEF InFlight
  <2>5. AnswersTheClick' BY <1>3, <2>4 DEF AnswersTheClick
  <2>6. CASE pCall[c].ans = "given" /\ pShown' = pCall[c].version
    <3>1. pWanted' <= pShown' BY <1>1, <2>1, <2>6 DEF AnswersTheClick
    <3> QED BY <2>3, <2>5, <3>1 DEF LogPanelInv, ShowsTheClick
  <2>7. CASE pError' \/ at' = "login"
    BY <2>3, <2>5, <2>7 DEF LogPanelInv, ShowsTheClick
  <2> QED BY <2>6, <2>7
<1>9. PanelSpinnersBacked' BY <1>1, <1>5 DEF PanelSpinnersBacked
<1> QED BY <1>1, <1>5, <1>7, <1>8, <1>9 DEF PanelInv

(* Filters and pager leave the panel where it is, on a page of its list. *)
LEMMA Browses ==
    ASSUME PanelsTypeOK, TurnPage \/ \E f \in Filters : ChooseFilter(f)
    PROVE  /\ at' = at
           /\ UNCHANGED <<panel, onHand, pShown, pRows, pWanted, pLoading, pRefreshing, pError, pCall>>
           /\ pFilter' \in Filters /\ pPage' \in Nat \ {0} /\ Total' \in Nat
           /\ pPage' <= TotalPages(Total', PanelSize)
<1>1. /\ at' = at
      /\ UNCHANGED <<panel, onHand, pShown, pRows, pWanted, pLoading, pRefreshing, pError, pCall>>
      /\ \/ pFilter' \in Filters /\ pPage' = 1
         \/ pFilter' = pFilter /\ pPage' \in PagerTargets(Total, pPage, PanelSize)
  BY DEF TurnPage, ChooseFilter, ListChanges, Click
<1>2. pPage \in Nat \ {0} /\ pFilter \in Filters /\ pRows \in SUBSET Rows BY DEF PanelsTypeOK
<1>3. Total \in Nat BY TotalType
<1>4. Total' = Cardinality(Matched(pFilter')) BY <1>1 DEF Total, Matched
<1>5. Total' \in Nat BY <1>2, <1>4, MatchedCounts
<1>6. TotalPages(Total', PanelSize) \in Nat \ {0} BY <1>5, PagesArePositive
<1>7. CASE pFilter' \in Filters /\ pPage' = 1 BY <1>1, <1>5, <1>6, <1>7
<1>8. CASE pFilter' = pFilter /\ pPage' \in PagerTargets(Total, pPage, PanelSize)
  <2>1. Total' = Total BY <1>4, <1>8 DEF Total
  <2> QED BY <1>1, <1>2, <1>3, <1>8, <2>1, TargetsArePages
<1> QED BY <1>1, <1>7, <1>8

LEMMA BrowsePanelStep ==
    ASSUME PanelInv, TurnPage \/ \E f \in Filters : ChooseFilter(f) PROVE PanelInv'
<1>1. PanelsTypeOK BY DEF PanelInv
<1>2. /\ at' = at
      /\ UNCHANGED <<panel, onHand, pShown, pRows, pWanted, pLoading, pRefreshing, pError, pCall>>
      /\ pFilter' \in Filters /\ pPage' \in Nat \ {0}
  BY <1>1, Browses
<1>3. PanelsTypeOK' BY <1>1, <1>2 DEF PanelsTypeOK
<1>4. panel \in LogPanels => LogPanelInv'
  BY <1>2 DEF PanelInv, LogPanelInv, OneAtATime, AnswersTheClick, ShowsTheClick, InFlight
<1> QED BY <1>2, <1>3, <1>4 DEF PanelInv, PanelSpinnersBacked

LEMMA PanelNextInv == PanelInv /\ [PanelNext]_<<pageVars, panelVars>> => PanelInv'
<1> SUFFICES ASSUME PanelInv, [PanelNext]_<<pageVars, panelVars>> PROVE PanelInv' OBVIOUS
<1>1. pError \in BOOLEAN BY DEF PanelInv, PanelsTypeOK
<1>2. ASSUME NEW c \in Calls, AnswerShown(c) PROVE PanelInv'
  <2>1. /\ pCall[c].ans = "given" /\ pShown' = pCall[c].version /\ pRows' \in SUBSET Rows
        /\ pError' = FALSE /\ EndCall(c)
    BY <1>2 DEF AnswerShown
  <2>2. InFlight(c) BY <2>1 DEF InFlight, NoCall
  <2> QED BY <2>1, <2>2, EndCallStep
<1>3. ASSUME NEW c \in Calls, CallFails(c) PROVE PanelInv'
  <2>1. InFlight(c) /\ EndCall(c) /\ pShown' = pShown /\ pRows' = pRows /\ {pError'} \subseteq BOOLEAN
    BY <1>1, <1>3 DEF CallFails, InFlight
  <2>2. pError' \/ at' = "login" BY <1>3 DEF CallFails, SignsOut
  <2> QED BY <2>1, <2>2, EndCallStep
<1>4. CASE PanelNext
  BY <1>2, <1>3, <1>4, RefreshStep, ServePanelStep, MovesOnStep, BrowsePanelStep DEF PanelNext
<1>5. CASE UNCHANGED <<pageVars, panelVars>>
  <2>1. UNCHANGED <<at, panel, onHand, pShown, pRows, pWanted, pLoading, pRefreshing, pError, pFilter, pPage, pCall>>
    BY <1>5 DEF pageVars, panelVars
  <2>2. PanelsTypeOK' BY <2>1 DEF PanelInv, PanelsTypeOK
  <2>3. PanelSpinnersBacked' BY <2>1 DEF PanelInv, PanelSpinnersBacked
  <2>4. panel \in LogPanels => LogPanelInv'
    BY <2>1 DEF PanelInv, LogPanelInv, OneAtATime, AnswersTheClick, ShowsTheClick, InFlight
  <2> QED BY <2>1, <2>2, <2>3, <2>4 DEF PanelInv
<1> QED BY <1>4, <1>5

(* A panel of LogsPage that shows its list after a refresh shows what the  *)
(* server had at the click, or something newer, for any number of calls    *)
(* and of clicks: load() cannot overlap itself there.                      *)
THEOREM RefreshesAreCurrent == PanelSpec => []RefreshIsCurrent
<1>1. PanelInv => RefreshIsCurrent
  <2> SUFFICES ASSUME PanelInv, panel \in LogPanels, at = "page", ListOnScreen PROVE pShown >= pWanted
    BY DEF RefreshIsCurrent
  <2>1. OneAtATime /\ ShowsTheClick BY DEF PanelInv, LogPanelInv
  <2>2. \A c \in Calls : ~InFlight(c) BY <2>1 DEF OneAtATime, ListOnScreen
  <2>3. pShown \in Nat /\ pWanted \in Nat BY DEF PanelInv, PanelsTypeOK
  <2> QED BY <2>1, <2>2, <2>3 DEF ShowsTheClick, ListOnScreen
<1> QED BY <1>1, PanelInitInv, PanelNextInv, PTL DEF PanelSpec

(* In all four panels the page chosen falls behind the end of the list     *)
(* only when an answer brings fewer rows: no filter and no click on the    *)
(* pager asks for a page that is not there, for any rows and page size.    *)
PageFits == pPage = SafePage(Total, pPage, PanelSize)

THEOREM PageLeftByReload ==
    PanelSpec => [][PageFits /\ ~PageFits' => \E c \in Calls : AnswerShown(c)]_<<pageVars, panelVars>>
<1>1. ASSUME PanelInv, PanelNext, PageFits, \A c \in Calls : ~AnswerShown(c) PROVE PageFits'
  <2>1. PanelsTypeOK BY <1>1 DEF PanelInv
  <2>2. CASE TurnPage \/ \E f \in Filters : ChooseFilter(f)
    <3>1. pPage' \in Nat \ {0} /\ Total' \in Nat /\ pPage' <= TotalPages(Total', PanelSize)
      BY <2>1, <2>2, Browses
    <3>2. pPage' = SafePage(Total', pPage', PanelSize) BY <3>1, SafeIsKept
    <3> QED BY <3>2 DEF PageFits
  <2>3. CASE ServerMovesOn \/ \E c \in Calls : Refresh(c) \/ ServePanel(c) \/ CallFails(c)
    <3>1. UNCHANGED <<pRows, pFilter, pPage>>
      BY <2>3 DEF ServerMovesOn, Refresh, ServePanel, CallFails, EndCall
    <3> QED BY <1>1, <3>1 DEF PageFits, Total, Matched
  <2> QED BY <1>1, <2>2, <2>3 DEF PanelNext
<1>2. PanelInv /\ [PanelNext]_<<pageVars, panelVars>>
        => [PageFits /\ ~PageFits' => \E c \in Calls : AnswerShown(c)]_<<pageVars, panelVars>>
  BY <1>1
<1> QED BY <1>2, PanelInitInv, PanelNextInv, PTL DEF PanelSpec

(***************************************************************************)
(* The flags of the settings page: while the page is there each of its two *)
(* forms has at most one call in flight, the one its button spins for.     *)
(***************************************************************************)
OfKind(c, kind) == sCall[c].kind = kind
OnlyCall(kind) == \A c, d \in Calls : OfKind(c, kind) /\ OfKind(d, kind) => c = d

FlagsInv == at = "page" => SettingsFlagsBacked /\ OnlyCall("save") /\ OnlyCall("password")

SettingsFlags == {sLoading, sError, savingPool, savingPassword, have} \subseteq BOOLEAN

LEMMA FlagsInit == InitPage /\ SettingsInit => FlagsInv /\ SettingsFlags
<1> SUFFICES ASSUME InitPage, SettingsInit PROVE FlagsInv /\ SettingsFlags OBVIOUS
<1>1. FirstCall \in Calls BY PageAssumption DEF FirstCall
<1>2. /\ sLoading = TRUE /\ sError = FALSE /\ savingPool = FALSE /\ savingPassword = FALSE /\ have = FALSE
      /\ sCall = [c \in Calls |-> IF c = FirstCall THEN LoadCall ELSE Idle]
  BY DEF SettingsInit
<1>3. Idle.kind = "none" /\ LoadCall.kind = "load" BY DEF Idle, LoadCall
<1>4. \A c \in Calls : OfKind(c, IF c = FirstCall THEN "load" ELSE "none") BY <1>2, <1>3 DEF OfKind
<1>5. ~InCall("save") /\ ~InCall("password") /\ InCall("load") BY <1>1, <1>4 DEF InCall, OfKind
<1>6. OnlyCall("save") /\ OnlyCall("password") BY <1>5 DEF OnlyCall, OfKind, InCall
<1> QED BY <1>2, <1>5, <1>6 DEF FlagsInv, SettingsFlags, SettingsFlagsBacked

(* A call that is sent raises its flag, and a form sends one at a time. *)
LEMMA FlagRaised ==
    ASSUME SettingsInv, FlagsInv, NEW c \in Calls, NEW kind \in {"load", "save", "password"},
           NEW call, call.kind = kind, Send(c, call),
           savingPool' <=> savingPool \/ kind = "save", kind = "save" => ~savingPool,
           savingPassword' <=> savingPassword \/ kind = "password", kind = "password" => ~savingPassword,
           sLoading' => sLoading \/ kind = "load"
    PROVE  FlagsInv'
<1>1. at = "page" /\ at' = at /\ sCall[c] = Idle /\ sCall' = [sCall EXCEPT ![c] = call]
  BY DEF Send, Click
<1>2. Idle.kind = "none" BY DEF Idle
<1>3. sCall \in [Calls -> CallRecord] BY DEF SettingsInv, PoliciesGood
<1>4. OfKind(c, "none") /\ \A k : OfKind(c, k)' <=> k = kind BY <1>1, <1>2, <1>3 DEF OfKind
<1>5. \A d \in Calls \ {c} : \A k : OfKind(d, k)' <=> OfKind(d, k) BY <1>1, <1>3 DEF OfKind
<1>6. \A k \in {"load", "save", "password"} : InCall(k)' <=> InCall(k) \/ k = kind
  BY <1>4, <1>5 DEF InCall, OfKind
<1>7. ASSUME NEW k \in {"save", "password"}, OnlyCall(k), k = kind => ~InCall(k) PROVE OnlyCall(k)'
  BY <1>4, <1>5, <1>7 DEF OnlyCall, InCall, OfKind
<1>8. SettingsFlagsBacked' BY <1>1, <1>6 DEF FlagsInv, SettingsFlagsBacked
<1> QED BY <1>1, <1>7, <1>8 DEF FlagsInv, SettingsFlagsBacked

(* A call the page waits for no more lowers its own flag, and it was the only one of its form. *)
LEMMA FlagLowered ==
    ASSUME SettingsInv, FlagsInv, NEW c \in Calls, at = "page",
           NEW over, over.kind \notin {"load", "save", "password"}, sCall' = [sCall EXCEPT ![c] = over],
           savingPool' <=> savingPool /\ sCall[c].kind # "save",
           savingPassword' <=> savingPassword /\ sCall[c].kind # "password",
           sLoading' => sLoading /\ sCall[c].kind # "load"
    PROVE  FlagsInv'
<1>1. sCall \in [Calls -> CallRecord] BY DEF SettingsInv, PoliciesGood
<1>2. \A k \in {"load", "save", "password"} : ~OfKind(c, k)' BY <1>1 DEF OfKind
<1>3. \A d \in Calls \ {c} : \A k : OfKind(d, k)' <=> OfKind(d, k) BY <1>1 DEF OfKind
<1>4. ASSUME NEW k \in {"save", "password"}, OnlyCall(k)
      PROVE  OnlyCall(k)' /\ (InCall(k)' <=> InCall(k) /\ sCall[c].kind # k)
  BY <1>2, <1>3, <1>4 DEF OnlyCall, InCall, OfKind
<1>5. InCall("load") /\ sCall[c].kind # "load" => InCall("load")'
  BY <1>2, <1>3 DEF InCall, OfKind
<1>6. SettingsFlagsBacked' BY <1>4, <1>5 DEF FlagsInv, SettingsFlagsBacked
<1> QED BY <1>4, <1>6 DEF FlagsInv

(* Nothing is sent from the page and nothing ends there. *)
LEMMA FlagsStay ==
    ASSUME SettingsInv, FlagsInv, at' = at, UNCHANGED <<sLoading, savingPool, savingPassword>>,
           \A d \in Calls : \A k \in {"load", "save", "password"} : OfKind(d, k)' <=> OfKind(d, k)
    PROVE  FlagsInv'
<1>1. \A k \in {"load", "save", "password"} : (InCall(k)' <=> InCall(k)) /\ (OnlyCall(k)' <=> OnlyCall(k))
  BY DEF InCall, OnlyCall, OfKind
<1> QED BY <1>1 DEF FlagsInv, SettingsFlagsBacked

(* A call that keeps its kind, or that the page was not waiting for and is over. *)
LEMMA SameKind ==
    ASSUME SettingsInv, NEW c \in Calls, NEW d \in Calls, NEW call,
           call.kind = sCall[c].kind \/ (sCall[c].kind \in {"none", "elsewhere"} /\ call.kind \in {"none", "elsewhere"}),
           sCall' = [sCall EXCEPT ![c] = call] \/ sCall' = [Outdates EXCEPT ![c] = call],
           NEW k \in {"load", "save", "password"}
    PROVE  OfKind(d, k)' <=> OfKind(d, k)
<1>1. sCall \in [Calls -> CallRecord] BY DEF SettingsInv, PoliciesGood
<1>2. \A e \in Calls : Outdates[e].kind = sCall[e].kind BY <1>1 DEF Outdates, CallRecord
<1>3. sCall'[d].kind = IF c = d THEN call.kind ELSE sCall[d].kind BY <1>1, <1>2 DEF Outdates
<1> QED BY <1>3 DEF OfKind

LEMMA StoreKeepsKinds ==
    ASSUME SettingsInv, NEW c \in Calls, NEW d \in Calls, NEW k \in {"load", "save", "password"},
           StoreField(c)
    PROVE  OfKind(d, k)' <=> OfKind(d, k)
<1> DEFINE call == sCall[c]
           over(end) == IF call.kind = "elsewhere" THEN Idle ELSE end
<1>1. call \in CallRecord /\ Idle.kind = "none" BY DEF SettingsInv, PoliciesGood, Idle
<1>2. PICK new \in {[call EXCEPT !.done = call.done + 1], over([call EXCEPT !.done = call.done + 1]),
                    over([call EXCEPT !.ans = "error"])} :
         sCall' = [sCall EXCEPT ![c] = new] \/ sCall' = [Outdates EXCEPT ![c] = new]
  BY Zenon DEF StoreField
<1>3. new.kind = call.kind \/ (call.kind = "elsewhere" /\ new.kind = "none")
  BY <1>1 DEF CallRecord
<1> QED BY <1>2, <1>3, SameKind

LEMMA ReadKeepsKinds ==
    ASSUME SettingsInv, NEW c \in Calls, NEW d \in Calls, NEW k \in {"load", "save", "password"},
           ReadField(c)
    PROVE  OfKind(d, k)' <=> OfKind(d, k)
<1>1. sCall \in [Calls -> CallRecord] BY DEF SettingsInv, PoliciesGood
<1>2. PICK got, done, fresh, ans :
        sCall' = [sCall EXCEPT ![c].got = got, ![c].done = done, ![c].fresh = fresh, ![c].ans = ans]
  BY Zenon DEF ReadField
<1>3. PICK end : end = [sCall[c] EXCEPT !.got = got, !.done = done, !.fresh = fresh, !.ans = ans] OBVIOUS
<1>4. sCall' = [sCall EXCEPT ![c] = end] BY <1>1, <1>2, <1>3
<1>5. end.kind = sCall[c].kind BY <1>1, <1>3 DEF CallRecord
<1> QED BY <1>4, <1>5, SameKind

LEMMA RestartKeepsKinds ==
    ASSUME SettingsInv, NEW d \in Calls, NEW k \in {"load", "save", "password"}, Restart
    PROVE  OfKind(d, k)' <=> OfKind(d, k)
<1>1. sCall[d] \in CallRecord /\ Outdates[d] = [sCall[d] EXCEPT !.fresh = FALSE] /\ Idle.kind = "none"
  BY DEF SettingsInv, PoliciesGood, Outdates, Idle
<1>2. sCall'[d] = IF ~Begun(d) THEN Outdates[d]
                  ELSE IF sCall[d].kind = "elsewhere" THEN Idle
                  ELSE [Outdates[d] EXCEPT !.ans = "error"]
  BY DEF Restart
<1>3. sCall'[d].kind = sCall[d].kind \/ (sCall[d].kind = "elsewhere" /\ sCall'[d].kind = "none")
  BY <1>1, <1>2 DEF CallRecord
<1> QED BY <1>3 DEF OfKind

LEMMA FlagsNext ==
    SettingsInv /\ FlagsInv /\ SettingsFlags /\ [SettingsNext]_<<pageVars, settingsVars>>
        => FlagsInv' /\ SettingsFlags'
<1> SUFFICES ASSUME SettingsInv, FlagsInv, SettingsFlags, [SettingsNext]_<<pageVars, settingsVars>>
             PROVE  FlagsInv' /\ SettingsFlags'
  OBVIOUS
<1>1. CASE EditDraft \/ DiscardPoolDraft
  <2>1. at' = at /\ UNCHANGED <<sLoading, sError, savingPool, savingPassword, have, sCall>>
    BY <1>1 DEF EditDraft, DiscardPoolDraft, Click
  <2> QED BY <2>1, FlagsStay DEF SettingsFlags, OfKind
<1>2. ASSUME NEW c \in Calls, RefreshSettings(c) PROVE FlagsInv' /\ SettingsFlags'
  <2>1. /\ Send(c, LoadCall) /\ LoadCall.kind = "load" /\ sLoading' = TRUE
        /\ UNCHANGED <<sError, savingPool, savingPassword, have>>
    BY <1>2 DEF RefreshSettings, LoadCall, Idle
  <2> QED BY <2>1, FlagRaised DEF SettingsFlags
<1>3. ASSUME NEW c \in Calls, OnSavePool(c) PROVE FlagsInv' /\ SettingsFlags'
  <2>1. /\ Send(c, [Idle EXCEPT !.kind = "save", !.sent = draft])
        /\ [Idle EXCEPT !.kind = "save", !.sent = draft].kind = "save"
        /\ ~savingPool /\ savingPool' = TRUE
        /\ UNCHANGED <<sLoading, sError, savingPassword, have>>
    BY <1>3 DEF OnSavePool, Idle
  <2> QED BY <2>1, FlagRaised DEF SettingsFlags
<1>4. ASSUME NEW c \in Calls, OnChangePassword(c) PROVE FlagsInv' /\ SettingsFlags'
  <2>1. /\ Send(c, [Idle EXCEPT !.kind = "password"])
        /\ [Idle EXCEPT !.kind = "password"].kind = "password"
        /\ ~savingPassword /\ savingPassword' = TRUE
        /\ UNCHANGED <<sLoading, sError, savingPool, have>>
    BY <1>4 DEF OnChangePassword, Idle
  <2> QED BY <2>1, FlagRaised DEF SettingsFlags
<1>5. CASE Restart \/ \E c \in Calls : StoreField(c) \/ ReadField(c) \/ PatchElsewhere(c)
  <2>1. at' = at /\ UNCHANGED <<sLoading, sError, savingPool, savingPassword, have>>
    BY <1>5 DEF Restart, StoreField, ReadField, PatchElsewhere, PageWaits, Arrives, Fails, pageVars
  <2>2. ASSUME NEW c \in Calls, PatchElsewhere(c), NEW d \in Calls, NEW k \in {"load", "save", "password"}
        PROVE  OfKind(d, k)' <=> OfKind(d, k)
    <3>1. PICK p \in Elsewhere : sCall' = [sCall EXCEPT ![c] = [Idle EXCEPT !.kind = "elsewhere", !.sent = p]]
      BY <2>2 DEF PatchElsewhere
    <3>2. sCall[c].kind = "none" /\ [Idle EXCEPT !.kind = "elsewhere", !.sent = p].kind = "elsewhere"
      BY <2>2 DEF PatchElsewhere, Idle
    <3> QED BY <3>1, <3>2, SameKind
  <2>3. \A d \in Calls : \A k \in {"load", "save", "password"} : OfKind(d, k)' <=> OfKind(d, k)
    BY <1>5, <2>2, StoreKeepsKinds, ReadKeepsKinds, RestartKeepsKinds
  <2> QED BY <2>1, <2>3, FlagsStay DEF SettingsFlags
<1>6. ASSUME NEW c \in Calls, SettingsArrive(c) \/ PoolSaved(c) PROVE FlagsInv' /\ SettingsFlags'
  <2>1. /\ at = "page" /\ sCall' = [sCall EXCEPT ![c] = Idle] /\ Idle.kind = "none"
        /\ have' = TRUE /\ savingPassword' = savingPassword
        /\ \/ sCall[c].kind = "load" /\ sError' = FALSE /\ sLoading' = FALSE /\ savingPool' = savingPool
           \/ sCall[c].kind = "save" /\ savingPool' = FALSE /\ UNCHANGED <<sError, sLoading>>
    BY <1>6 DEF SettingsArrive, PoolSaved, ApplyPoolSnapshot, Arrives, Settle, Idle
  <2>2. SettingsFlags' BY <2>1 DEF SettingsFlags
  <2>3. /\ savingPool' <=> savingPool /\ sCall[c].kind # "save"
        /\ savingPassword' <=> savingPassword /\ sCall[c].kind # "password"
        /\ sLoading' => sLoading /\ sCall[c].kind # "load"
    BY <2>1 DEF SettingsFlags
  <2> QED BY <2>1, <2>2, <2>3, FlagLowered
<1>7. ASSUME NEW c \in Calls, PasswordChanged(c) \/ CallFailed(c) \/ CallUnauthorized(c)
      PROVE  FlagsInv' /\ SettingsFlags'
  <2>1. /\ at = "page" /\ Lowers(c) /\ have' = have
        /\ sError' \in {sError, sError \/ sCall[c].kind = "load"}
    BY <1>7 DEF PasswordChanged, CallFailed, CallUnauthorized, Arrives, Fails, SignsOut, Fault
  <2>2. SettingsFlags' BY <2>1 DEF SettingsFlags, Lowers
  <2>3. PICK over \in {Idle, [sCall[c] EXCEPT !.kind = "elsewhere"]} : sCall' = [sCall EXCEPT ![c] = over]
    BY <1>7, Zenon DEF PasswordChanged, CallFailed, CallUnauthorized, Settle
  <2>4. over.kind \notin {"load", "save", "password"}
    BY <2>3 DEF Idle, SettingsInv, PoliciesGood, CallRecord
  <2>5. FlagsInv' BY <2>1, <2>3, <2>4, FlagLowered DEF Lowers
  <2> QED BY <2>2, <2>5
<1>8. CASE UNCHANGED <<pageVars, settingsVars>>
  <2>1. UNCHANGED <<at, sLoading, sError, savingPool, savingPassword, have, sCall>>
    BY <1>8 DEF pageVars, settingsVars
  <2> QED BY <2>1, FlagsStay DEF SettingsFlags, OfKind
<1> QED BY <1>1, <1>2, <1>3, <1>4, <1>5, <1>6, <1>7, <1>8 DEF SettingsNext

(***************************************************************************)
(* The session.  One check of me() is wanted at a time, the newest; one    *)
(* login is; and no check is wanted, nor the shell shown, while a login is *)
(* on its way (Turns).                                                     *)
(***************************************************************************)
Live(c, kind) == hCall[c].kind = kind /\ hCall[c].live
OneLive(kind) == \A c, d \in Calls : Live(c, kind) /\ Live(d, kind) => c = d

Turns ==
    /\ OneLive("me") /\ OneLive("login")
    /\ \A c \in Calls : hCall[c].kind = "login" => hCall[c].live
    /\ at = "page" \/ Wanted("me") => ~Wanted("login")

SessionInv ==
    /\ at \in {"page", "login"}
    /\ SessionTypeOK
    /\ \A c \in Calls : hCall[c].token \in 0 .. minted
    /\ Turns /\ SessionWaitsBacked

LEMMA WantedIs == \A kind : Wanted(kind) <=> \E c \in Calls : Live(c, kind)
  BY DEF Wanted, Live

LEMMA WantedWillBe == \A kind : Wanted(kind)' <=> \E c \in Calls : Live(c, kind)'
  BY DEF Wanted, Live

LEMMA RequestType ==
    ASSUME NEW kind \in {"me", "login", "logout", "page"}, NEW n \in Nat
    PROVE  /\ Request(kind, n) \in HttpCall /\ Request(kind, n).kind = kind /\ Request(kind, n).live
           /\ Request(kind, n).token = 0 /\ Request(kind, n).ans = "none"
           /\ Unused \in HttpCall /\ Unused.kind = "none" /\ ~Unused.live /\ Unused.token = 0
  BY DEF Request, Unused, HttpCall

LEMMA CancelledType ==
    ASSUME NEW call \in HttpCall
    PROVE  /\ Cancelled(call) \in HttpCall /\ Cancelled(call).kind = call.kind
           /\ Cancelled(call).token = call.token
           /\ Cancelled(call).live <=> call.live /\ call.kind # "me"
  BY DEF Cancelled, HttpCall

LEMMA SessionInitInv == InitPage /\ SessionInit => SessionInv
<1> SUFFICES ASSUME InitPage, SessionInit PROVE SessionInv OBVIOUS
<1>1. FirstCall \in Calls BY PageAssumption DEF FirstCall
<1>2. /\ minted = 1 /\ cookie \in {0, 1} /\ valid \in {{}, {1}} /\ at = "page"
      /\ hint = FALSE /\ gate = "loading" /\ checking = TRUE /\ logging = FALSE
      /\ hCall = [c \in Calls |-> IF c = FirstCall THEN Request("me", cookie) ELSE Unused]
  BY DEF SessionInit, InitPage
<1>3. PICK me \in HttpCall : me = Request("me", cookie) BY <1>2, RequestType
<1>4. me.kind = "me" /\ me.live /\ me.token = 0 BY <1>2, <1>3, RequestType
<1>5. hCall = [c \in Calls |-> IF c = FirstCall THEN me ELSE Unused] BY <1>2, <1>3
<1>6. Unused \in HttpCall /\ Unused.kind = "none" /\ Unused.token = 0 BY <1>2, RequestType
<1>7. hCall \in [Calls -> HttpCall] /\ \A c \in Calls : hCall[c].token \in 0 .. minted
  BY <1>2, <1>4, <1>5, <1>6
<1>8. SessionTypeOK
  <2>1. cookie \in 0 .. minted /\ valid \subseteq 1 .. minted /\ minted \in Nat BY <1>2
  <2> QED BY <1>2, <1>7, <2>1 DEF SessionTypeOK
<1>9. Live(FirstCall, "me") /\ \A c \in Calls : c # FirstCall => hCall[c].kind = "none"
  BY <1>1, <1>4, <1>5, <1>6 DEF Live
<1>10. hCall[FirstCall].kind = "me" BY <1>9 DEF Live
<1>11. Wanted("me") /\ ~Wanted("login") BY <1>1, <1>9, <1>10 DEF Wanted, Live
<1>12. Turns BY <1>9, <1>10, <1>11 DEF Turns, OneLive, Live
<1>13. SessionWaitsBacked BY <1>2, <1>11 DEF SessionWaitsBacked
<1> QED BY <1>2, <1>7, <1>8, <1>12, <1>13 DEF SessionInv

(***************************************************************************)
(* Steps.                                                                  *)
(***************************************************************************)
(* The types of what a step may change beside the calls. *)
SessionFlags == gate' \in {"loading", "authed", "error"} /\ {checking', logging', hint'} \subseteq BOOLEAN
SessionKept == /\ UNCHANGED minted /\ cookie' \in 0 .. minted /\ valid' \subseteq valid

(* A check is asked for in c: it is the only one wanted, and no login is. *)
LEMMA AskStep ==
    ASSUME SessionInv, NEW c \in Calls, NEW calls \in [Calls -> HttpCall], hCall' = AskMe(c, calls),
           \A d \in Calls \ {c} : calls[d].kind # "login" /\ calls[d].token \in 0 .. minted,
           SessionFlags, SessionKept,
           \/ at' = "page" /\ gate' = "loading"
           \/ at' = "login" /\ checking' = TRUE /\ logging' = FALSE
    PROVE  SessionInv'
<1>1. minted \in Nat /\ minted' = minted /\ cookie' \in Nat /\ valid \subseteq 1 .. minted
  BY DEF SessionInv, SessionTypeOK, SessionKept
<1>2. PICK me \in HttpCall : me = Request("me", cookie') BY <1>1, RequestType
<1>3. me.kind = "me" /\ me.live /\ me.token = 0 BY <1>1, <1>2, RequestType
<1>4. hCall' = [d \in Calls |-> IF d = c THEN me ELSE Cancelled(calls[d])] BY <1>2 DEF AskMe
<1>5. /\ hCall' \in [Calls -> HttpCall] /\ hCall'[c] = me
      /\ \A d \in Calls \ {c} : hCall'[d] = Cancelled(calls[d])
  BY <1>4, CancelledType
<1>6. \A d \in Calls \ {c} : /\ hCall'[d].kind # "login" /\ hCall'[d].token \in 0 .. minted
                             /\ hCall'[d].kind = "me" => ~hCall'[d].live
  <2> SUFFICES ASSUME NEW d \in Calls \ {c}
               PROVE  /\ hCall'[d].kind # "login" /\ hCall'[d].token \in 0 .. minted
                      /\ hCall'[d].kind = "me" => ~hCall'[d].live
    OBVIOUS
  <2>1. calls[d] \in HttpCall /\ hCall'[d] = Cancelled(calls[d]) BY <1>5
  <2> QED BY <2>1, CancelledType
<1>7. Live(c, "me")' /\ ~Live(c, "login")' /\ \A d \in Calls \ {c} : ~Live(d, "me")' /\ ~Live(d, "login")'
  BY <1>3, <1>5, <1>6 DEF Live
<1>8. Wanted("me")' /\ ~Wanted("login")' BY <1>7, WantedWillBe
<1>9. Turns' BY <1>3, <1>5, <1>6, <1>7, <1>8 DEF Turns, OneLive
<1>10. SessionWaitsBacked' BY <1>8 DEF SessionWaitsBacked
<1>11. SessionTypeOK' BY <1>1, <1>5 DEF SessionTypeOK, SessionFlags, SessionKept
<1>12. \A d \in Calls : hCall'[d].token \in 0 .. minted' BY <1>1, <1>3, <1>5, <1>6
<1> QED BY <1>9, <1>10, <1>11, <1>12 DEF SessionInv

(* The call in c is over: what it was wanted for is no longer waited for. *)
LEMMA OverStep ==
    ASSUME SessionInv, NEW c \in Calls, hCall' = Done(c), at' = at, SessionFlags, SessionKept,
           at = "page" => (gate' = "loading" <=> gate = "loading" /\ ~Live(c, "me")),
           at = "login" => (checking' <=> checking /\ ~Live(c, "me")),
           at = "login" => (logging' <=> logging /\ hCall[c].kind # "login")
    PROVE  SessionInv'
<1>1. minted \in Nat /\ minted' = minted /\ hCall \in [Calls -> HttpCall] /\ Turns /\ SessionWaitsBacked
      /\ \A d \in Calls : hCall[d].token \in 0 .. minted
  BY DEF SessionInv, SessionTypeOK, SessionKept
<1>2. Unused \in HttpCall /\ Unused.kind = "none" /\ Unused.token = 0 BY RequestType
<1>3. /\ hCall' \in [Calls -> HttpCall] /\ hCall'[c] = Unused
      /\ \A d \in Calls \ {c} : hCall'[d] = hCall[d]
  BY <1>1, <1>2 DEF Done
<1>4. \A kind \in {"me", "login"} : ~Live(c, kind)' BY <1>2, <1>3 DEF Live
<1>5. \A d \in Calls \ {c} : \A kind : Live(d, kind)' <=> Live(d, kind) BY <1>3 DEF Live
<1>6. \A kind \in {"me", "login"} : Wanted(kind)' <=> Wanted(kind) /\ ~Live(c, kind)
  <2>1. \A kind \in {"me", "login"} : OneLive(kind) BY <1>1 DEF Turns
  <2> QED BY <1>4, <1>5, <2>1, WantedIs, WantedWillBe DEF OneLive
<1>7. Live(c, "login") <=> hCall[c].kind = "login" BY <1>1 DEF Turns, Live
<1>8. Turns'
  <2>1. OneLive("me")' /\ OneLive("login")' BY <1>1, <1>4, <1>5 DEF Turns, OneLive
  <2>2. \A d \in Calls : hCall'[d].kind = "login" => hCall'[d].live BY <1>1, <1>2, <1>3 DEF Turns
  <2>3. at' = "page" \/ Wanted("me")' => ~Wanted("login")' BY <1>1, <1>6 DEF Turns
  <2> QED BY <2>1, <2>2, <2>3 DEF Turns
<1>9. SessionWaitsBacked' BY <1>1, <1>6, <1>7 DEF SessionWaitsBacked
<1>10. SessionTypeOK' BY <1>1, <1>3 DEF SessionTypeOK, SessionFlags, SessionKept, SessionInv
<1>11. \A d \in Calls : hCall'[d].token \in 0 .. minted' BY <1>1, <1>2, <1>3
<1> QED BY <1>8, <1>9, <1>10, <1>11 DEF SessionInv

(* A page or a login call is sent. *)
LEMMA SendStep ==
    ASSUME SessionInv, NEW c \in Calls, CallFromPage(c) \/ OnSubmit(c) PROVE SessionInv'
<1>1. PICK kind \in {"page", "login"} :
        /\ hCall[c] = Unused /\ hCall' = [hCall EXCEPT ![c] = Request(kind, cookie)]
        /\ UNCHANGED <<at, gate, checking, hint, cookie, valid, minted>>
        /\ kind = "page" => at = "page" /\ logging' = logging
        /\ kind = "login" => at = "login" /\ ~checking /\ ~logging /\ logging' = TRUE
  <2>1. CASE CallFromPage(c) BY <2>1, Zenon DEF CallFromPage, ShellShown, IsUnused, ServerStays
  <2>2. CASE OnSubmit(c) BY <2>2, Zenon DEF OnSubmit, FormShown, IsUnused, ServerStays
  <2> QED BY <2>1, <2>2
<1>2. minted \in Nat /\ cookie \in 0 .. minted /\ hCall \in [Calls -> HttpCall] /\ Turns
      /\ SessionWaitsBacked /\ \A d \in Calls : hCall[d].token \in 0 .. minted
  BY DEF SessionInv, SessionTypeOK
<1>3. PICK call \in HttpCall : call = Request(kind, cookie) BY <1>2, RequestType
<1>4. call.kind = kind /\ call.live /\ call.token = 0 BY <1>2, <1>3, RequestType
<1>5. /\ hCall' \in [Calls -> HttpCall] /\ hCall'[c] = call
      /\ \A d \in Calls \ {c} : hCall'[d] = hCall[d]
  BY <1>1, <1>2, <1>3
<1>6. \A d \in Calls \ {c} : \A k : Live(d, k)' <=> Live(d, k) BY <1>5 DEF Live
<1>7. Unused.kind = "none" BY RequestType
<1>8. \A k \in {"me", "login"} : ~Live(c, k) /\ (Live(c, k)' <=> k = kind)
  BY <1>1, <1>4, <1>5, <1>7 DEF Live
<1>9. \A k \in {"me", "login"} : Wanted(k)' <=> Wanted(k) \/ k = kind
  BY <1>6, <1>8, WantedIs, WantedWillBe
<1>10. kind = "login" => ~Wanted("login") /\ ~Wanted("me") BY <1>1, <1>2 DEF SessionWaitsBacked
<1>11. Turns'
  <2>1. \A k \in {"me", "login"} : OneLive(k)'
    BY <1>2, <1>6, <1>8, <1>10, WantedIs DEF Turns, OneLive
  <2>2. \A d \in Calls : hCall'[d].kind = "login" => hCall'[d].live BY <1>2, <1>4, <1>5 DEF Turns
  <2>3. at' = "page" \/ Wanted("me")' => ~Wanted("login")' BY <1>1, <1>2, <1>9, <1>10 DEF Turns
  <2> QED BY <2>1, <2>2, <2>3 DEF Turns
<1>12. SessionWaitsBacked' BY <1>1, <1>2, <1>9 DEF SessionWaitsBacked
<1>13. logging' \in BOOLEAN BY <1>1 DEF SessionInv, SessionTypeOK
<1>14. SessionTypeOK' BY <1>1, <1>5, <1>13 DEF SessionInv, SessionTypeOK
<1>15. \A d \in Calls : hCall'[d].token \in 0 .. minted' BY <1>1, <1>2, <1>4, <1>5
<1> QED BY <1>1, <1>11, <1>12, <1>14, <1>15 DEF SessionInv

(* The server answers in c, or forgets its sessions: the browser sees nothing yet. *)
LEMMA UnseenStep ==
    ASSUME SessionInv, UNCHANGED <<at, gate, checking, logging, hint, cookie>>,
           minted' \in Nat, minted <= minted', valid' \subseteq 1 .. minted',
           hCall' \in [Calls -> HttpCall],
           \A d \in Calls : /\ hCall'[d].kind = hCall[d].kind /\ (hCall'[d].live <=> hCall[d].live)
                            /\ hCall'[d].token \in {hCall[d].token, minted'}
    PROVE  SessionInv'
<1>1. \A d \in Calls : \A k : Live(d, k)' <=> Live(d, k) BY DEF Live
<1>2. \A k : Wanted(k)' <=> Wanted(k) BY <1>1, WantedIs, WantedWillBe
<1>3. Turns' BY <1>1, <1>2 DEF SessionInv, Turns, OneLive
<1>4. SessionWaitsBacked' BY <1>2 DEF SessionInv, SessionWaitsBacked
<1>5. minted \in Nat BY DEF SessionInv, SessionTypeOK
<1>6. SessionTypeOK' BY <1>5 DEF SessionInv, SessionTypeOK
<1>7. \A d \in Calls : hCall'[d].token \in 0 .. minted' BY <1>5 DEF SessionInv
<1> QED BY <1>3, <1>4, <1>6, <1>7 DEF SessionInv

LEMMA ServedStep ==
    ASSUME SessionInv, NEW c \in Calls, Served(c) PROVE SessionInv'
<1>1. /\ minted \in Nat /\ cookie \in 0 .. minted /\ valid \subseteq 1 .. minted
      /\ hCall \in [Calls -> HttpCall] /\ hCall[c] \in HttpCall
  BY DEF SessionInv, SessionTypeOK
<1>2. PICK r \in HttpCall : r = hCall[c] BY <1>1
<1>3. PICK call : /\ hCall' = [hCall EXCEPT ![c] = call]
                  /\ \/ \E a \in {"none", "ok", "unauthorized"} : call = [hCall[c] EXCEPT !.ans = a]
                     \/ minted' \in Nat /\ call = [hCall[c] EXCEPT !.ans = "ok", !.token = minted']
  <2>1. CASE ServeCall(c)
    <3>1. Admitted(c) \in {"none", "ok", "unauthorized"} BY DEF Admitted
    <3> QED BY <1>1, <2>1, <3>1 DEF ServeCall
  <2>2. CASE ServeLogin(c)
    <3>1. CASE minted' = minted + 1 /\ hCall' = [hCall EXCEPT ![c].ans = "ok", ![c].token = minted']
      <4>1. hCall' = [hCall EXCEPT ![c] = [hCall[c] EXCEPT !.ans = "ok", !.token = minted']]
        BY <1>1, <3>1, Zenon
      <4>2. minted' \in Nat BY <1>1, <3>1
      <4> QED BY <4>1, <4>2
    <3>2. CASE hCall' = [hCall EXCEPT ![c].ans = "unauthorized"] BY <1>1, <3>2
    <3> QED BY <2>2, <3>1, <3>2, Zenon DEF ServeLogin
  <2>3. CASE ServeLogout(c) BY <1>1, <2>3 DEF ServeLogout, Admitted
  <2> QED BY <2>1, <2>2, <2>3 DEF Served
<1>4. /\ call \in HttpCall /\ call.kind = hCall[c].kind /\ (call.live <=> hCall[c].live)
      /\ call.token \in {hCall[c].token, minted'}
  <2>1. CASE \E a \in {"none", "ok", "unauthorized"} : call = [hCall[c] EXCEPT !.ans = a]
    <3>1. PICK a \in {"none", "ok", "unauthorized"} : call = [hCall[c] EXCEPT !.ans = a]
      BY <2>1
    <3>2. call = [r EXCEPT !.ans = a] BY <1>2, <3>1
    <3>3. call \in HttpCall /\ call.kind = r.kind /\ call.live = r.live /\ call.token = r.token
      BY <3>2 DEF HttpCall
    <3> QED BY <1>2, <3>3
  <2>2. CASE minted' \in Nat /\ call = [hCall[c] EXCEPT !.ans = "ok", !.token = minted']
    <3>1. PICK n \in Nat : n = minted' BY <2>2
    <3>2. call = [r EXCEPT !.ans = "ok", !.token = n] BY <1>2, <2>2, <3>1
    <3>3. call \in HttpCall /\ call.kind = r.kind /\ call.live = r.live /\ call.token = n
      BY <3>2 DEF HttpCall
    <3> QED BY <1>2, <3>1, <3>3
  <2> QED BY <1>3, <2>1, <2>2
<1>5. hCall' \in [Calls -> HttpCall] BY <1>1, <1>3, <1>4
<1>6. \A d \in Calls : /\ hCall'[d].kind = hCall[d].kind /\ (hCall'[d].live <=> hCall[d].live)
                       /\ hCall'[d].token \in {hCall[d].token, minted'}
  BY <1>1, <1>3, <1>4
<1>7. /\ UNCHANGED <<at, gate, checking, logging, hint, cookie>>
      /\ \/ minted' = minted + 1 /\ valid' = valid \cup {minted'}
         \/ minted' = minted /\ valid' \subseteq valid
  <2>1. CASE ServeCall(c) BY <2>1 DEF ServeCall, ServerStays, BrowserWaits, pageVars
  <2>2. CASE ServeLogin(c) BY <2>2, Zenon DEF ServeLogin, ServerStays, BrowserWaits, pageVars
  <2>3. CASE ServeLogout(c) BY <2>3 DEF ServeLogout, BrowserWaits, pageVars
  <2> QED BY <2>1, <2>2, <2>3 DEF Served
<1>8. minted' \in Nat /\ minted <= minted' /\ valid' \subseteq 1 .. minted'
  <2>1. CASE minted' = minted + 1 /\ valid' = valid \cup {minted'} BY <1>1, <2>1
  <2>2. CASE minted' = minted /\ valid' \subseteq valid BY <1>1, <2>2
  <2> QED BY <1>7, <2>1, <2>2
<1> QED BY <1>5, <1>6, <1>7, <1>8, UnseenStep

LEMMA EndOfSessionsStep == ASSUME SessionInv, SessionsEnd PROVE SessionInv'
<1>1. UNCHANGED <<at, gate, checking, logging, hint, cookie, minted, hCall>> /\ valid' = {}
  BY DEF SessionsEnd
<1>2. minted \in Nat /\ hCall \in [Calls -> HttpCall] BY DEF SessionInv, SessionTypeOK
<1> QED BY <1>1, <1>2, UnseenStep

(* The gate asks again, or the user logs out. *)
LEMMA GateStep ==
    ASSUME SessionInv, NEW c \in Calls, RetryGate(c) \/ SwitchLanguage(c) PROVE SessionInv'
<1>1. /\ at = "page" /\ at' = at /\ gate' = "loading" /\ hCall' = AskMe(c, hCall)
      /\ UNCHANGED <<cookie, checking, logging, hint, valid, minted>>
  BY DEF RetryGate, SwitchLanguage, ShellShown, ServerStays
<1>2. SessionTypeOK /\ Turns /\ \A d \in Calls : hCall[d].token \in 0 .. minted BY DEF SessionInv
<1>3. hCall \in [Calls -> HttpCall] BY <1>2 DEF SessionTypeOK
<1>4. SessionFlags /\ SessionKept BY <1>1, <1>2 DEF SessionTypeOK, SessionFlags, SessionKept
<1>5. \A d \in Calls : hCall[d].kind # "login" BY <1>1, <1>2 DEF Turns, Wanted
<1> QED BY <1>1, <1>2, <1>3, <1>4, <1>5, AskStep

LEMMA LogoutStep ==
    ASSUME SessionInv, NEW c \in Calls, NEW d \in Calls, HandleLogout(c, d) PROVE SessionInv'
<1>1. PICK calls : calls = [hCall EXCEPT ![c] = Request("logout", cookie)] OBVIOUS
<1>2. /\ at = "page" /\ at' = "login" /\ gate' = "loading" /\ checking' = TRUE /\ logging' = FALSE
      /\ hCall' = AskMe(d, calls) /\ hint' = FALSE /\ UNCHANGED <<cookie, valid, minted>>
  BY <1>1 DEF HandleLogout, ShellShown, Mounted, ServerStays
<1>3. SessionTypeOK /\ Turns /\ \A e \in Calls : hCall[e].token \in 0 .. minted BY DEF SessionInv
<1>4. hCall \in [Calls -> HttpCall] /\ minted \in Nat /\ cookie \in Nat BY <1>3 DEF SessionTypeOK
<1>5. PICK call \in HttpCall : call = Request("logout", cookie) BY <1>4, RequestType
<1>6. call.kind = "logout" /\ call.token = 0 BY <1>4, <1>5, RequestType
<1>7. calls \in [Calls -> HttpCall] /\ \A e \in Calls : calls[e] \in {hCall[e], call}
  BY <1>1, <1>4, <1>5
<1>8. SessionFlags /\ SessionKept BY <1>2, <1>3 DEF SessionTypeOK, SessionFlags, SessionKept
<1>9. \A e \in Calls : hCall[e].kind # "login" BY <1>2, <1>3 DEF Turns, Wanted
<1>10. \A e \in Calls : calls[e].kind # "login" /\ calls[e].token \in 0 .. minted
  <2> SUFFICES ASSUME NEW e \in Calls PROVE calls[e].kind # "login" /\ calls[e].token \in 0 .. minted
    OBVIOUS
  <2>1. CASE calls[e] = hCall[e] BY <1>3, <1>9, <2>1
  <2>2. CASE calls[e] = call BY <1>4, <1>6, <2>2
  <2> QED BY <1>7, <2>1, <2>2
<1> QED BY <1>2, <1>7, <1>8, <1>10, AskStep

(* The answer in c sends the browser to the other route, which asks again. *)
LEMMA MountStep ==
    ASSUME SessionInv, NEW c \in Calls, NEW route \in {"page", "login"}, Mounted(route, c, hCall),
           UNCHANGED <<valid, minted>>, cookie' \in 0 .. minted, hint' \in BOOLEAN,
           at = "page" \/ Live(c, "me") \/ hCall[c].kind = "login"
    PROVE  SessionInv'
<1>1. /\ at' = route /\ gate' = "loading" /\ checking' = TRUE /\ logging' = FALSE
      /\ hCall' = AskMe(c, hCall)
  BY DEF Mounted
<1>2. SessionTypeOK /\ Turns /\ \A d \in Calls : hCall[d].token \in 0 .. minted BY DEF SessionInv
<1>3. hCall \in [Calls -> HttpCall] BY <1>2 DEF SessionTypeOK
<1>4. SessionFlags /\ SessionKept BY <1>1, <1>2 DEF SessionTypeOK, SessionFlags, SessionKept
<1>5. \A d \in Calls \ {c} : hCall[d].kind # "login"
  <2>1. CASE at = "page" \/ Live(c, "me") BY <1>2, <2>1 DEF Turns, Wanted, Live
  <2>2. CASE hCall[c].kind = "login" BY <1>2, <2>2 DEF Turns, OneLive, Live
  <2> QED BY <2>1, <2>2
<1> QED BY <1>1, <1>2, <1>3, <1>4, <1>5, AskStep

LEMMA MeStep ==
    ASSUME SessionInv, NEW c \in Calls, MeDropped(c) \/ MeOk(c) \/ MeUnauthorized(c) PROVE SessionInv'
<1>1. SessionTypeOK /\ at \in {"page", "login"} /\ hCall[c].kind = "me" /\ UNCHANGED <<cookie, valid, minted>>
  BY Zenon DEF SessionInv, MeDropped, MeOk, MeUnauthorized, Answered, ServerStays
<1>2. cookie' \in 0 .. minted BY <1>1 DEF SessionTypeOK
<1>3. CASE MeDropped(c)
  <2>1. ~Live(c, "me") /\ hCall' = Done(c) /\ UNCHANGED <<at, gate, checking, logging, hint>>
    BY <1>3 DEF MeDropped, Live, Stays
  <2>2. SessionFlags /\ SessionKept BY <1>1, <2>1 DEF SessionTypeOK, SessionFlags, SessionKept
  <2> QED BY <1>1, <2>1, <2>2, OverStep
<1>4. CASE MeOk(c)
  <2>1. Live(c, "me") /\ hint' = TRUE BY <1>4 DEF MeOk, Answered, Live
  <2>2. CASE at = "page"
    <3>1. gate' = "authed" /\ hCall' = Done(c) /\ UNCHANGED <<at, checking, logging>>
      BY <1>4, <2>2 DEF MeOk
    <3>2. SessionFlags /\ SessionKept BY <1>1, <2>1, <3>1 DEF SessionTypeOK, SessionFlags, SessionKept
    <3> QED BY <1>1, <2>1, <2>2, <3>1, <3>2, OverStep
  <2>3. CASE at # "page"
    <3>1. Mounted("page", c, hCall) BY <1>4, <2>3 DEF MeOk
    <3> QED BY <1>1, <1>2, <2>1, <3>1, MountStep
  <2> QED BY <2>2, <2>3
<1>5. CASE MeUnauthorized(c)
  <2>1. Live(c, "me") /\ hint' = FALSE BY <1>5 DEF MeUnauthorized, Answered, Live
  <2>2. CASE at = "page"
    <3>1. Mounted("login", c, hCall) BY <1>5, <2>2 DEF MeUnauthorized
    <3> QED BY <1>1, <1>2, <2>1, <3>1, MountStep
  <2>3. CASE at # "page"
    <3>1. checking' = FALSE /\ hCall' = Done(c) /\ UNCHANGED <<at, gate, logging>>
      BY <1>5, <2>3 DEF MeUnauthorized
    <3>2. SessionFlags /\ SessionKept BY <1>1, <2>1, <3>1 DEF SessionTypeOK, SessionFlags, SessionKept
    <3> QED BY <1>1, <2>1, <2>3, <3>1, <3>2, OverStep
  <2> QED BY <2>2, <2>3
<1> QED BY <1>3, <1>4, <1>5

LEMMA LoginStep ==
    ASSUME SessionInv, NEW c \in Calls, LoginOk(c) \/ LoginRefused(c) PROVE SessionInv'
<1>1. SessionTypeOK /\ hCall[c].kind = "login" /\ hCall[c].token \in 0 .. minted /\ UNCHANGED <<valid, minted>>
  BY Zenon DEF SessionInv, LoginOk, LoginRefused, Answered, ServerStays
<1>2. CASE LoginOk(c)
  <2>1. cookie' = hCall[c].token /\ hint' = TRUE /\ Mounted("page", c, hCall) BY <1>2 DEF LoginOk
  <2> QED BY <1>1, <2>1, MountStep
<1>3. CASE LoginRefused(c)
  <2>1. /\ logging' = FALSE /\ hCall' = Done(c) /\ UNCHANGED <<at, gate, checking, hint, cookie>>
    BY <1>3 DEF LoginRefused
  <2>2. ~Live(c, "me") BY <1>1 DEF Live
  <2>3. SessionFlags /\ SessionKept BY <1>1, <2>1 DEF SessionTypeOK, SessionFlags, SessionKept
  <2> QED BY <1>1, <2>1, <2>2, <2>3, OverStep
<1> QED BY <1>2, <1>3

LEMMA OtherStep ==
    ASSUME SessionInv, NEW c \in Calls, LogoutOk(c) \/ LogoutRefused(c) \/ PageOk(c) \/ PageUnauthorized(c)
    PROVE  SessionInv'
<1>1. /\ SessionTypeOK /\ hCall[c].kind \in {"logout", "page"} /\ UNCHANGED <<valid, minted>>
      /\ cookie' \in {0, cookie} /\ hint' \in {FALSE, hint}
  <2>1. SessionTypeOK BY DEF SessionInv
  <2>2. CASE LogoutOk(c) \/ LogoutRefused(c) BY <2>1, <2>2 DEF LogoutOk, LogoutRefused, Answered, ServerStays
  <2>3. CASE PageOk(c) BY <2>1, <2>3 DEF PageOk, Answered, ServerStays
  <2>4. CASE PageUnauthorized(c) BY <2>1, <2>4 DEF PageUnauthorized, Answered, ServerStays
  <2> QED BY <2>2, <2>3, <2>4
<1>2. cookie' \in 0 .. minted /\ hint' \in BOOLEAN
  <2>1. minted \in Nat /\ cookie \in 0 .. minted /\ hint \in BOOLEAN BY <1>1 DEF SessionTypeOK
  <2>2. cookie' \in {0, cookie} BY <1>1
  <2>3. hint' \in {FALSE, hint} BY <1>1
  <2>4. cookie' \in 0 .. minted BY <2>1, <2>2
  <2>5. hint' \in BOOLEAN BY <2>1, <2>3
  <2> QED BY <2>4, <2>5
<1>3. ~Live(c, "me") /\ hCall[c].kind # "login" BY <1>1 DEF Live
<1>4. CASE hCall' = Done(c) /\ Stays
  <2>1. UNCHANGED <<at, gate, checking, logging>> BY <1>4 DEF Stays
  <2>2. SessionFlags /\ SessionKept BY <1>1, <1>2, <2>1 DEF SessionTypeOK, SessionFlags, SessionKept
  <2> QED BY <1>3, <1>4, <2>1, <2>2, OverStep DEF SessionInv, SessionTypeOK
<1>5. CASE at = "page" /\ Mounted("login", c, hCall) BY <1>1, <1>2, <1>5, MountStep
<1> QED BY <1>4, <1>5 DEF LogoutOk, LogoutRefused, PageOk, PageUnauthorized

LEMMA NoAnswerStep ==
    ASSUME SessionInv, NEW c \in Calls, NoAnswer(c) PROVE SessionInv'
<1>1. SessionTypeOK /\ at \in {"page", "login"} BY DEF SessionInv
<1>2. /\ gate' = IF Live(c, "me") /\ at = "page" THEN "error" ELSE gate
      /\ checking' = (checking /\ ~(Live(c, "me") /\ at = "login"))
      /\ logging' = (logging /\ hCall[c].kind # "login")
      /\ hCall' = Done(c) /\ UNCHANGED <<at, hint, cookie, valid, minted>>
  BY DEF NoAnswer, Live, ServerStays
<1>3. SessionFlags /\ SessionKept BY <1>1, <1>2 DEF SessionTypeOK, SessionFlags, SessionKept
<1> QED BY <1>1, <1>2, <1>3, OverStep

LEMMA SessionNextInv == SessionInv /\ [SessionNext]_<<pageVars, sessionVars>> => SessionInv'
<1> SUFFICES ASSUME SessionInv, [SessionNext]_<<pageVars, sessionVars>> PROVE SessionInv' OBVIOUS
<1>1. ASSUME NEW c \in Calls, Returns(c) PROVE SessionInv'
  BY <1>1, MeStep, LoginStep, OtherStep DEF Returns
<1>2. CASE SessionNext
  BY <1>1, <1>2, EndOfSessionsStep, GateStep, SendStep, LogoutStep, ServedStep, NoAnswerStep DEF SessionNext
<1>3. CASE UNCHANGED <<pageVars, sessionVars>>
  BY <1>3 DEF pageVars, sessionVars, SessionInv, SessionTypeOK, Turns, OneLive, Live, Wanted,
              SessionWaitsBacked
<1> QED BY <1>2, <1>3

(***************************************************************************)
(* The redirects.  A session that has been refused is never honoured       *)
(* again, and a check that is wanted was sent with the cookie the browser  *)
(* has, unless a logout has cleared it since (Refusals).  So the gate and  *)
(* the login page do not go on sending the user to one another: each check *)
(* they make is nearer to rest than the one before it.                     *)
(***************************************************************************)
RefusedIsOver(call, tokens) == call.kind = "me" /\ call.ans = "unauthorized" => call.sent \notin tokens

Refusals ==
    /\ \A c \in Calls : hCall[c].sent \in 0 .. minted /\ RefusedIsOver(hCall[c], valid)
    /\ \A c \in Calls : Live(c, "me") => cookie \in {0, hCall[c].sent}

(* How many steps the check in c is from rest: two while the gate waits    *)
(* for a session that is honoured, four if it must go to the login page    *)
(* and be refused there too; six at most, from a login page that finds a   *)
(* session which ends before the gate has asked.                           *)
StepsFrom(route, ans, sent, tokens) ==
    IF route = "page"
    THEN CASE ans = "ok" -> 1
           [] ans = "none" /\ sent \in tokens -> 2
           [] ans = "unauthorized" -> 3
           [] ans = "none" /\ sent \notin tokens -> 4
    ELSE CASE ans = "unauthorized" -> 1
           [] ans = "none" /\ sent \notin tokens -> 2
           [] ans = "ok" -> 5
           [] ans = "none" /\ sent \in tokens -> 6

StepsToRest(c) == StepsFrom(at, hCall[c].ans, hCall[c].sent, valid)

(* What may raise it: a click, the end of a session, and an answer to a    *)
(* login or to another call of the page that mounts a route anew.          *)
SentElsewhere == \E e \in Calls : hCall[e].kind \in {"login", "page"} /\ hCall'[e].kind = "me"
Disturbed == clicks' # clicks \/ ~(valid \subseteq valid') \/ SentElsewhere

Nearer ==
    \A d \in Calls : Live(d, "me")' =>
        \E c \in Calls : /\ Live(c, "me")
                         /\ \/ StepsToRest(d)' < StepsToRest(c)
                            \/ c = d /\ hCall'[c] = hCall[c] /\ StepsToRest(c)' = StepsToRest(c)

LEMMA RequestSent ==
    ASSUME NEW kind \in {"me", "login", "logout", "page"}, NEW n \in Nat
    PROVE  /\ Request(kind, n).sent = n /\ Request(kind, n).ans = "none" /\ Unused.sent = 0
           /\ Unused.kind = "none"
  BY DEF Request, Unused

LEMMA CancelledSent ==
    ASSUME NEW call \in HttpCall
    PROVE  Cancelled(call).sent = call.sent /\ Cancelled(call).ans = call.ans
  BY DEF Cancelled, HttpCall

LEMMA StepsOfCheck ==
    \A n, S : /\ StepsFrom("page", "ok", n, S) = 1 /\ StepsFrom("page", "unauthorized", n, S) = 3
              /\ StepsFrom("login", "unauthorized", n, S) = 1 /\ StepsFrom("login", "ok", n, S) = 5
              /\ StepsFrom("page", "none", n, S) = IF n \in S THEN 2 ELSE 4
              /\ StepsFrom("login", "none", n, S) = IF n \in S THEN 6 ELSE 2
BY DEF StepsFrom

(* A check is asked for in c; the other calls are those of calls.          *)
LEMMA AskRefusals ==
    ASSUME SessionInv, Refusals, NEW c \in Calls, NEW calls \in [Calls -> HttpCall],
           hCall' = AskMe(c, calls), UNCHANGED <<valid, minted>>, cookie' \in 0 .. minted,
           \A d \in Calls \ {c} : calls[d].sent \in 0 .. minted /\ RefusedIsOver(calls[d], valid)
    PROVE  /\ Refusals'
           /\ hCall'[c].kind = "me" /\ hCall'[c].ans = "none" /\ hCall'[c].sent = cookie'
           /\ \A d \in Calls : Live(d, "me")' => d = c
<1>1. minted \in Nat /\ cookie' \in Nat BY DEF SessionInv, SessionTypeOK
<1>2. PICK me \in HttpCall : me = Request("me", cookie') BY <1>1, RequestType
<1>3. me.kind = "me" /\ me.ans = "none" /\ me.sent = cookie' BY <1>1, <1>2, RequestType, RequestSent
<1>4. hCall' = [d \in Calls |-> IF d = c THEN me ELSE Cancelled(calls[d])] BY <1>2 DEF AskMe
<1>5. hCall'[c] = me /\ \A d \in Calls \ {c} : hCall'[d] = Cancelled(calls[d]) BY <1>4
<1>6. ASSUME NEW d \in Calls \ {c}
      PROVE  /\ hCall'[d].sent \in 0 .. minted /\ RefusedIsOver(hCall'[d], valid)
             /\ ~Live(d, "me")'
  <2>1. calls[d] \in HttpCall /\ hCall'[d] = Cancelled(calls[d]) BY <1>5
  <2> QED BY <2>1, CancelledType, CancelledSent DEF RefusedIsOver, Live
<1>7. hCall'[c].sent \in 0 .. minted /\ RefusedIsOver(hCall'[c], valid) BY <1>3, <1>5 DEF RefusedIsOver
<1>8. \A d \in Calls : hCall'[d].sent \in 0 .. minted' /\ RefusedIsOver(hCall'[d], valid')
  BY <1>6, <1>7
<1>9. \A d \in Calls : Live(d, "me")' => d = c BY <1>6
<1>10. hCall'[c].kind = "me" /\ hCall'[c].ans = "none" /\ hCall'[c].sent = cookie' BY <1>3, <1>5
<1>11. \A d \in Calls : Live(d, "me")' => cookie' \in {0, hCall'[d].sent} BY <1>9, <1>10
<1>12. Refusals' BY <1>8, <1>11 DEF Refusals
<1> QED BY <1>9, <1>10, <1>12

(* No check but those that were wanted, unchanged, and their sessions as they were. *)
LEMMA KeepsNear ==
    ASSUME SessionInv, at' = at,
           \A d \in Calls : Live(d, "me")' =>
               Live(d, "me") /\ hCall'[d] = hCall[d] /\ (hCall[d].sent \in valid' <=> hCall[d].sent \in valid)
    PROVE  Nearer
<1> SUFFICES ASSUME NEW d \in Calls, Live(d, "me")'
             PROVE  Live(d, "me") /\ hCall'[d] = hCall[d] /\ StepsToRest(d)' = StepsToRest(d)
  BY DEF Nearer
<1>1. hCall'[d] = hCall[d] /\ (hCall[d].sent \in valid' <=> hCall[d].sent \in valid) OBVIOUS
<1>2. at \in {"page", "login"} /\ hCall[d].ans \in {"none", "ok", "unauthorized"}
  BY DEF SessionInv, SessionTypeOK, HttpCall
<1>3. StepsToRest(d)' = StepsFrom(at, hCall[d].ans, hCall[d].sent, valid') BY <1>1 DEF StepsToRest
<1> QED BY <1>1, <1>2, <1>3, StepsOfCheck DEF StepsToRest

(* The only check is that of c, and it is nearer than it was. *)
LEMMA OneNear ==
    ASSUME NEW c \in Calls, Live(c, "me"), \A d \in Calls : Live(d, "me")' => d = c,
           StepsToRest(c)' < StepsToRest(c)
    PROVE  Nearer
<1> SUFFICES ASSUME NEW d \in Calls, Live(d, "me")' PROVE StepsToRest(d)' < StepsToRest(c)
  BY DEF Nearer
<1>1. d = c OBVIOUS
<1> QED BY <1>1

(* The call in c is over. *)
LEMMA OverNear ==
    ASSUME SessionInv, Refusals, NEW c \in Calls, hCall' = Done(c), UNCHANGED <<valid, minted>>,
           cookie' \in {0, cookie}
    PROVE  Refusals' /\ (at' = at => Nearer)
<1>1. hCall \in [Calls -> HttpCall] /\ minted \in Nat BY DEF SessionInv, SessionTypeOK
<1>2. Unused.kind = "none" /\ Unused.sent = 0 BY RequestSent
<1>3. hCall'[c] = Unused /\ \A d \in Calls \ {c} : hCall'[d] = hCall[d] BY <1>1 DEF Done
<1>4. \A d \in Calls : hCall'[d].sent \in 0 .. minted' /\ RefusedIsOver(hCall'[d], valid')
  BY <1>1, <1>2, <1>3 DEF Refusals, RefusedIsOver
<1>5. \A d \in Calls : Live(d, "me")' => Live(d, "me") /\ hCall'[d] = hCall[d]
  BY <1>2, <1>3 DEF Live
<1>6. Refusals' BY <1>4, <1>5 DEF Refusals
<1> QED BY <1>5, <1>6, KeepsNear

(* The server answers in c, or forgets sessions, or mints one. *)
LEMMA ServedRefusals ==
    ASSUME SessionInv, Refusals, NEW c \in Calls, NEW call \in HttpCall,
           hCall' = [hCall EXCEPT ![c] = call], cookie' = cookie, minted' \in Nat, minted <= minted',
           call.kind = hCall[c].kind, call.live = hCall[c].live, call.sent = hCall[c].sent,
           \A n \in 0 .. minted : n \in valid' => n \in valid, RefusedIsOver(call, valid)
    PROVE  Refusals'
<1>1. hCall \in [Calls -> HttpCall] /\ minted \in Nat BY DEF SessionInv, SessionTypeOK
<1>2. \A d \in Calls : /\ hCall'[d].kind = hCall[d].kind /\ hCall'[d].sent = hCall[d].sent
                       /\ hCall'[d].live = hCall[d].live /\ RefusedIsOver(hCall'[d], valid)
  BY <1>1 DEF Refusals
<1>3. \A d \in Calls : hCall'[d].sent \in 0 .. minted' /\ RefusedIsOver(hCall'[d], valid')
  BY <1>1, <1>2 DEF Refusals, RefusedIsOver
<1>4. \A d \in Calls : Live(d, "me")' <=> Live(d, "me") BY <1>2 DEF Live
<1> QED BY <1>2, <1>3, <1>4 DEF Refusals

(* The steps of the session, one by one. *)
LEMMA ClickNear ==
    ASSUME PageTypeOK, SessionInv, Refusals, NEW c \in Calls, NEW d \in Calls,
           \/ RetryGate(c) \/ SwitchLanguage(c) \/ CallFromPage(c) \/ OnSubmit(c) \/ HandleLogout(c, d)
    PROVE  Refusals' /\ Disturbed
<1>1. hCall \in [Calls -> HttpCall] /\ cookie \in 0 .. minted /\ minted \in Nat /\ cookie \in Nat
  BY DEF SessionInv, SessionTypeOK
<1>2. Touch /\ cookie' = cookie /\ UNCHANGED <<valid, minted>>
  BY DEF RetryGate, SwitchLanguage, CallFromPage, OnSubmit, HandleLogout, ServerStays
<1>3. Disturbed BY <1>2 DEF Touch, PageTypeOK, Disturbed
<1>4. \A e \in Calls : hCall[e].sent \in 0 .. minted /\ RefusedIsOver(hCall[e], valid) BY DEF Refusals
<1>5. CASE RetryGate(c) \/ SwitchLanguage(c)
  <2>1. hCall' = AskMe(c, hCall) BY <1>5 DEF RetryGate, SwitchLanguage
  <2> QED BY <1>1, <1>2, <1>3, <1>4, <2>1, AskRefusals
<1>6. CASE CallFromPage(c) \/ OnSubmit(c)
  <2>1. PICK kind \in {"page", "login"} : hCall' = [hCall EXCEPT ![c] = Request(kind, cookie)]
    BY <1>6 DEF CallFromPage, OnSubmit
  <2>2. PICK call \in HttpCall : call = Request(kind, cookie) BY <1>1, RequestType
  <2>3. call.kind = kind /\ call.sent = cookie BY <1>1, <2>2, RequestType, RequestSent
  <2>4. hCall'[c] = call /\ \A e \in Calls \ {c} : hCall'[e] = hCall[e] BY <1>1, <2>1, <2>2
  <2>5. \A e \in Calls : hCall'[e].sent \in 0 .. minted' /\ RefusedIsOver(hCall'[e], valid')
    BY <1>1, <1>2, <1>4, <2>3, <2>4 DEF RefusedIsOver
  <2>6. \A e \in Calls : Live(e, "me")' => cookie' \in {0, hCall'[e].sent}
    BY <1>2, <2>3, <2>4 DEF Live, Refusals
  <2> QED BY <1>3, <2>5, <2>6 DEF Refusals
<1>7. CASE HandleLogout(c, d)
  <2>1. PICK call \in HttpCall : call = Request("logout", cookie) BY <1>1, RequestType
  <2>2. call.kind = "logout" /\ call.sent = cookie BY <1>1, <2>1, RequestType, RequestSent
  <2>3. PICK calls : calls = [hCall EXCEPT ![c] = call] OBVIOUS
  <2>4. calls \in [Calls -> HttpCall] /\ hCall' = AskMe(d, calls)
    BY <1>1, <1>7, <2>1, <2>3 DEF HandleLogout, Mounted
  <2>5. \A e \in Calls : calls[e].sent \in 0 .. minted /\ RefusedIsOver(calls[e], valid)
    BY <1>1, <1>4, <2>2, <2>3 DEF RefusedIsOver
  <2> QED BY <1>1, <1>2, <1>3, <2>4, <2>5, AskRefusals
<1> QED BY <1>5, <1>6, <1>7

LEMMA ServedNear ==
    ASSUME SessionInv, Refusals, NEW c \in Calls, Served(c)
    PROVE  Refusals' /\ (Disturbed \/ Nearer)
<1>1. /\ hCall \in [Calls -> HttpCall] /\ hCall[c] \in HttpCall /\ minted \in Nat
      /\ at \in {"page", "login"} /\ valid \subseteq 1 .. minted
  BY DEF SessionInv, SessionTypeOK
<1>2. PICK r \in HttpCall : r = hCall[c] BY <1>1
<1>3. cookie' = cookie /\ at' = at
  BY DEF Served, ServeCall, ServeLogin, ServeLogout, BrowserWaits, pageVars
<1>4. \A d \in Calls : hCall[d].sent \in 0 .. minted BY DEF Refusals
<1>5. CASE ServeCall(c)
  <2>1. r.ans = "none" /\ hCall' = [hCall EXCEPT ![c] = [r EXCEPT !.ans = Admitted(c)]]
        /\ UNCHANGED <<valid, minted>>
    BY <1>1, <1>2, <1>5 DEF ServeCall, Unanswered, ServerStays
  <2>2. PICK call \in HttpCall : call = [r EXCEPT !.ans = Admitted(c)]
    BY DEF HttpCall, Admitted
  <2>3. /\ call.kind = r.kind /\ call.live = r.live /\ call.sent = r.sent
        /\ call.ans = IF r.sent \in valid THEN "ok" ELSE "unauthorized"
    BY <1>2, <2>2 DEF HttpCall, Admitted
  <2>4. hCall'[c] = call /\ \A d \in Calls \ {c} : hCall'[d] = hCall[d] BY <1>1, <2>1, <2>2
  <2>5. Refusals'
    <3>1. RefusedIsOver(call, valid) BY <2>3 DEF RefusedIsOver
    <3>2. minted' \in Nat /\ minted <= minted' /\ \A n \in 0 .. minted : n \in valid' => n \in valid
      BY <1>1, <2>1
    <3>3. call.kind = hCall[c].kind /\ call.live = hCall[c].live /\ call.sent = hCall[c].sent
      BY <1>2, <2>3
    <3>4. hCall' = [hCall EXCEPT ![c] = call] BY <2>1, <2>2
    <3> QED BY <1>3, <3>1, <3>2, <3>3, <3>4, ServedRefusals
  <2>6. CASE Live(c, "me")
    <3>1. \A d \in Calls : Live(d, "me")' => d = c
      BY <2>4, <2>6 DEF Live, SessionInv, Turns, OneLive
    <3>2. StepsToRest(c) = StepsFrom(at, "none", r.sent, valid) BY <1>2, <2>1 DEF StepsToRest
    <3>3. StepsToRest(c)' = StepsFrom(at, call.ans, r.sent, valid)
      BY <1>3, <2>1, <2>3, <2>4 DEF StepsToRest
    <3>4. StepsToRest(c)' < StepsToRest(c) BY <1>1, <2>3, <3>2, <3>3, StepsOfCheck
    <3> QED BY <2>5, <2>6, <3>1, <3>4, OneNear
  <2>7. CASE ~Live(c, "me")
    <3>1. \A d \in Calls : Live(d, "me")' => Live(d, "me") /\ hCall'[d] = hCall[d]
      BY <1>2, <2>3, <2>4, <2>7 DEF Live
    <3> QED BY <1>3, <2>1, <2>5, <3>1, KeepsNear
  <2> QED BY <2>5, <2>6, <2>7
<1>6. CASE ServeLogin(c) \/ ServeLogout(c)
  <2>1. r.kind \in {"login", "logout"} BY <1>2, <1>6 DEF ServeLogin, ServeLogout
  <2>2. PICK call \in HttpCall :
          /\ hCall' = [hCall EXCEPT ![c] = call]
          /\ call.kind = r.kind /\ call.live = r.live /\ call.sent = r.sent
    <3>1. CASE \E a \in {"ok", "unauthorized"} : hCall' = [hCall EXCEPT ![c].ans = a]
      <4>1. PICK a \in {"ok", "unauthorized"} : hCall' = [hCall EXCEPT ![c] = [r EXCEPT !.ans = a]]
        BY <1>1, <1>2, <3>1
      <4>2. PICK call : call = [r EXCEPT !.ans = a] OBVIOUS
      <4>3. call \in HttpCall /\ call.kind = r.kind /\ call.live = r.live /\ call.sent = r.sent
        BY <4>2 DEF HttpCall
      <4> QED BY <4>1, <4>2, <4>3
    <3>2. CASE minted' = minted + 1 /\ hCall' = [hCall EXCEPT ![c].ans = "ok", ![c].token = minted']
      <4>1. PICK n \in Nat : n = minted' BY <1>1, <3>2
      <4>2. hCall' = [hCall EXCEPT ![c] = [hCall[c] EXCEPT !.ans = "ok", !.token = n]]
        BY <1>1, <3>2, <4>1, Zenon
      <4>3. hCall' = [hCall EXCEPT ![c] = [r EXCEPT !.ans = "ok", !.token = n]] BY <1>2, <4>2
      <4>4. PICK call : call = [r EXCEPT !.ans = "ok", !.token = n] OBVIOUS
      <4>5. call \in HttpCall /\ call.kind = r.kind /\ call.live = r.live /\ call.sent = r.sent
        BY <4>4 DEF HttpCall
      <4> QED BY <4>3, <4>4, <4>5
    <3>3. Admitted(c) \in {"ok", "unauthorized"} BY DEF Admitted
    <3> QED BY <1>6, <3>1, <3>2, <3>3, Zenon DEF ServeLogin, ServeLogout
  <2>3. \/ minted' = minted + 1 /\ valid' = valid \cup {minted'}
        \/ minted' = minted /\ valid' \subseteq valid
    BY <1>6, Zenon DEF ServeLogin, ServeLogout, ServerStays
  <2>4. /\ minted' \in Nat /\ minted <= minted'
        /\ \A n \in 0 .. minted : n \in valid' => n \in valid
    BY <1>1, <2>3
  <2>5. Refusals'
    BY <1>1, <1>2, <1>3, <2>1, <2>2, <2>4, ServedRefusals DEF RefusedIsOver
  <2>6. \A d \in Calls : Live(d, "me")' => Live(d, "me") /\ hCall'[d] = hCall[d]
    BY <1>1, <1>2, <2>1, <2>2 DEF Live
  <2>7. CASE valid \subseteq valid'
    <3>1. \A d \in Calls : hCall[d].sent \in valid' <=> hCall[d].sent \in valid
      BY <1>4, <2>4, <2>7
    <3> QED BY <1>3, <2>5, <2>6, <3>1, KeepsNear
  <2> QED BY <2>5, <2>7 DEF Disturbed
<1> QED BY <1>5, <1>6 DEF Served

LEMMA EndNear == ASSUME SessionInv, Refusals, SessionsEnd PROVE Refusals' /\ Disturbed
<1>1. valid # {} /\ valid' = {} /\ UNCHANGED <<cookie, minted, hCall>> BY DEF SessionsEnd
<1>2. \A c \in Calls : hCall'[c].sent \in 0 .. minted' /\ RefusedIsOver(hCall'[c], valid')
  BY <1>1 DEF Refusals, RefusedIsOver
<1>3. \A c \in Calls : Live(c, "me")' => cookie' \in {0, hCall'[c].sent} BY <1>1 DEF Refusals, Live
<1> QED BY <1>1, <1>2, <1>3 DEF Refusals, Disturbed

(* An answer that mounts a route asks again; if it answered a check, the   *)
(* new one is nearer.                                                      *)
LEMMA MountNear ==
    ASSUME SessionInv, Refusals, NEW c \in Calls, NEW route \in {"page", "login"},
           Mounted(route, c, hCall), UNCHANGED <<valid, minted>>, cookie' \in 0 .. minted,
           \/ hCall[c].kind \in {"login", "page"}
           \/ /\ Live(c, "me") /\ cookie' = cookie
              /\ \/ at = "login" /\ route = "page" /\ hCall[c].ans = "ok"
                 \/ at = "page" /\ route = "login" /\ hCall[c].ans = "unauthorized"
    PROVE  Refusals' /\ (Disturbed \/ Nearer)
<1>1. at' = route /\ hCall' = AskMe(c, hCall) BY DEF Mounted
<1>2. hCall \in [Calls -> HttpCall] /\ minted \in Nat /\ valid \subseteq 1 .. minted
  BY DEF SessionInv, SessionTypeOK
<1>3. \A d \in Calls : hCall[d].sent \in 0 .. minted /\ RefusedIsOver(hCall[d], valid) BY DEF Refusals
<1>4. /\ Refusals'
      /\ hCall'[c].kind = "me" /\ hCall'[c].ans = "none" /\ hCall'[c].sent = cookie'
      /\ \A d \in Calls : Live(d, "me")' => d = c
  BY <1>1, <1>2, <1>3, AskRefusals
<1>5. CASE hCall[c].kind \in {"login", "page"} BY <1>4, <1>5 DEF Disturbed, SentElsewhere
<1>6. StepsToRest(c)' = StepsFrom(route, "none", cookie', valid)
  BY <1>1, <1>4 DEF StepsToRest
<1>7. CASE at = "login" /\ route = "page" /\ hCall[c].ans = "ok" /\ Live(c, "me")
  <2>1. StepsToRest(c) = 5 BY <1>7, StepsOfCheck DEF StepsToRest
  <2>2. StepsToRest(c)' \in {2, 4} BY <1>6, <1>7, StepsOfCheck
  <2> QED BY <1>4, <1>7, <2>1, <2>2, OneNear
<1>8. CASE /\ at = "page" /\ route = "login" /\ hCall[c].ans = "unauthorized"
           /\ Live(c, "me") /\ cookie' = cookie
  <2>1. StepsToRest(c) = 3 BY <1>8, StepsOfCheck DEF StepsToRest
  <2>2. cookie' \notin valid BY <1>2, <1>3, <1>8 DEF Refusals, RefusedIsOver, Live
  <2>3. StepsToRest(c)' = 2 BY <1>6, <1>8, <2>2, StepsOfCheck
  <2> QED BY <1>4, <1>8, <2>1, <2>3, OneNear
<1> QED BY <1>4, <1>5, <1>7, <1>8

LEMMA ReturnNear ==
    ASSUME SessionInv, Refusals, NEW c \in Calls, Returns(c)
    PROVE  Refusals' /\ (Disturbed \/ Nearer)
<1>1. /\ at \in {"page", "login"} /\ cookie \in 0 .. minted /\ hCall[c].token \in 0 .. minted
      /\ UNCHANGED <<valid, minted>>
  BY Zenon DEF SessionInv, SessionTypeOK, Returns, MeDropped, MeOk, MeUnauthorized, LoginOk, LoginRefused,
               LogoutOk, LogoutRefused, PageOk, PageUnauthorized, ServerStays
<1>2. CASE MeDropped(c)
  BY <1>1, <1>2, OverNear DEF MeDropped, Stays
<1>3. CASE MeOk(c)
  <2>1. Live(c, "me") /\ hCall[c].ans = "ok" /\ cookie' = cookie BY <1>3 DEF MeOk, Answered, Live
  <2>2. CASE at = "page" BY <1>1, <1>3, <2>1, <2>2, OverNear DEF MeOk
  <2>3. CASE at = "login"
    <3>1. Mounted("page", c, hCall) BY <1>3, <2>3 DEF MeOk
    <3> QED BY <1>1, <2>1, <2>3, <3>1, MountNear
  <2> QED BY <1>1, <2>2, <2>3
<1>4. CASE MeUnauthorized(c)
  <2>1. Live(c, "me") /\ hCall[c].ans = "unauthorized" /\ cookie' = cookie
    BY <1>4 DEF MeUnauthorized, Answered, Live
  <2>2. CASE at = "page"
    <3>1. Mounted("login", c, hCall) BY <1>4, <2>2 DEF MeUnauthorized
    <3> QED BY <1>1, <2>1, <2>2, <3>1, MountNear
  <2>3. CASE at = "login" BY <1>1, <1>4, <2>1, <2>3, OverNear DEF MeUnauthorized
  <2> QED BY <1>1, <2>2, <2>3
<1>5. CASE LoginOk(c)
  <2>1. hCall[c].kind = "login" /\ cookie' \in 0 .. minted /\ Mounted("page", c, hCall)
    BY <1>1, <1>5 DEF LoginOk, Answered
  <2> QED BY <1>1, <2>1, MountNear
<1>6. CASE LoginRefused(c) BY <1>1, <1>6, OverNear DEF LoginRefused
<1>7. CASE LogoutOk(c) \/ LogoutRefused(c) \/ PageOk(c)
  BY <1>1, <1>7, OverNear DEF LogoutOk, LogoutRefused, PageOk, Stays
<1>8. CASE PageUnauthorized(c)
  <2>1. hCall[c].kind = "page" /\ cookie' = cookie BY <1>8 DEF PageUnauthorized, Answered
  <2>2. CASE at = "page"
    <3>1. Mounted("login", c, hCall) BY <1>8, <2>2 DEF PageUnauthorized
    <3> QED BY <1>1, <2>1, <3>1, MountNear
  <2>3. CASE at # "page" BY <1>1, <1>8, <2>1, <2>3, OverNear DEF PageUnauthorized, Stays
  <2> QED BY <2>2, <2>3
<1> QED BY <1>2, <1>3, <1>4, <1>5, <1>6, <1>7, <1>8 DEF Returns

LEMMA SessionNear ==
    ASSUME PageTypeOK, SessionInv, Refusals, SessionNext
    PROVE  Refusals' /\ (Disturbed \/ Nearer)
<1>1. ASSUME NEW c \in Calls, NoAnswer(c) PROVE Refusals' /\ Nearer
  BY <1>1, OverNear DEF NoAnswer, ServerStays
<1> QED BY <1>1, ClickNear, ServedNear, EndNear, ReturnNear DEF SessionNext

LEMMA RefusalsInit == InitPage /\ SessionInit => Refusals
<1> SUFFICES ASSUME InitPage, SessionInit PROVE Refusals OBVIOUS
<1>1. /\ minted = 1 /\ cookie \in {0, 1}
      /\ hCall = [c \in Calls |-> IF c = FirstCall THEN Request("me", cookie) ELSE Unused]
  BY DEF SessionInit
<1>2. \A c \in Calls : hCall[c] = IF c = FirstCall THEN Request("me", cookie) ELSE Unused BY <1>1
<1>3. Request("me", cookie).sent = cookie /\ Request("me", cookie).ans = "none"
      /\ Unused.sent = 0 /\ Unused.kind = "none"
  BY <1>1, RequestSent
<1>4. ASSUME NEW c \in Calls
      PROVE  /\ hCall[c].sent \in {0, 1} /\ RefusedIsOver(hCall[c], valid)
             /\ Live(c, "me") => cookie = hCall[c].sent
  <2>1. CASE c = FirstCall
    <3>1. hCall[c].sent = cookie /\ hCall[c].ans = "none" BY <1>2, <1>3, <2>1
    <3> QED BY <1>1, <3>1 DEF RefusedIsOver
  <2>2. CASE c # FirstCall
    <3>1. hCall[c].sent = 0 /\ hCall[c].kind = "none" BY <1>2, <1>3, <2>2
    <3> QED BY <3>1 DEF RefusedIsOver, Live
  <2> QED BY <2>1, <2>2
<1>5. \A c \in Calls : hCall[c].sent \in 0 .. minted
  <2>1. 0 \in 0 .. minted /\ 1 \in 0 .. minted BY <1>1
  <2> QED BY <1>4, <2>1, Zenon
<1> QED BY <1>4, <1>5 DEF Refusals

(***************************************************************************)
(* The picker: the range applied and the draft are days of the calendar,   *)
(* in order.                                                               *)
(***************************************************************************)
LastDay == MonthStart[LastMonth] - 1
Calendar == 0 .. LastDay

RangeOK(r) ==
    /\ r.from \in Nat /\ r.to \in Nat /\ r.from <= r.to /\ DayOf(r.to) \in Calendar
    /\ r.preset \in Presets \cup {"custom"}

DraftOK ==
    /\ draftFrom \in Calendar /\ draftTo \in Calendar \cup {NoDay}
    /\ draftTo # NoDay => draftFrom <= draftTo

PickerInv == RangeOK(value) /\ DraftOK /\ open \in BOOLEAN /\ leftCursor \in 0 .. LastMonth

LEMMA CalendarType ==
    /\ LastMonth \in Nat /\ \A m \in 0 .. LastMonth + 1 : MonthStart[m] \in Nat
    /\ LastDay \in Int /\ Calendar \subseteq Nat
<1>1. LastMonth \in Nat /\ MonthStart \in [0 .. LastMonth + 1 -> Nat] BY CalendarAssumption
<1>2. \A m \in 0 .. LastMonth + 1 : MonthStart[m] \in Nat BY <1>1
<1>3. LastMonth \in 0 .. LastMonth + 1 BY <1>1
<1>4. LastDay \in Int BY <1>2, <1>3 DEF LastDay
<1> QED BY <1>1, <1>2, <1>4 DEF Calendar

(* A set of numbers has a least one. *)
LEMMA HasLeast ==
    ASSUME NEW S \in SUBSET Nat, S # {}
    PROVE  \E m \in S : \A k \in S : m <= k
<1>1. PICK m \in S : \A k \in S : ~(<<k, m>> \in OpToRel(<, Nat))
  BY NatLessThanWellFounded, WFMin
<1>2. ASSUME NEW k \in S PROVE m <= k
  <2>1. k \in Nat /\ m \in Nat OBVIOUS
  <2>2. ~(k < m) BY <1>1, <2>1 DEF OpToRel
  <2> QED BY <2>1, <2>2
<1> QED BY <1>2

(* A month has at least 28 days.                                           *)
LEMMA MonthsApart ==
    ASSUME NEW a \in 0 .. LastMonth + 1, NEW b \in 0 .. LastMonth + 1, a <= b
    PROVE  MonthStart[b] - MonthStart[a] >= 28 * (b - a)
<1>1. LastMonth \in Nat /\ \A m \in 0 .. LastMonth + 1 : MonthStart[m] \in Nat BY CalendarType
<1> DEFINE Wrong == {n \in Nat : n \in 0 .. LastMonth + 1 /\ a <= n
                                  /\ ~(MonthStart[n] - MonthStart[a] >= 28 * (n - a))}
<1>2. SUFFICES ASSUME Wrong # {} PROVE FALSE
  <2>1. b \in Nat BY <1>1
  <2> QED BY <1>1, <2>1
<1>3. PICK n \in Wrong : \A k \in Wrong : n <= k
  <2>1. Wrong \in SUBSET Nat OBVIOUS
  <2> HIDE DEF Wrong
  <2> QED BY <1>2, <2>1, HasLeast
<1>4. n \in Nat /\ n <= LastMonth + 1 /\ a <= n /\ ~(MonthStart[n] - MonthStart[a] >= 28 * (n - a)) BY <1>1
<1>5. MonthStart[a] \in Nat /\ MonthStart[n] \in Nat BY <1>1, <1>4
<1>6. a \in Nat /\ a # n BY <1>1, <1>4, <1>5
<1>7. n - 1 \in Nat /\ n - 1 \in 0 .. LastMonth /\ (n - 1) + 1 = n /\ a <= n - 1 BY <1>1, <1>4, <1>6
<1>8. MonthStart[n] - MonthStart[n - 1] \in 28 .. 31 BY <1>7, CalendarAssumption
<1>9. MonthStart[n - 1] \in Nat
  <2>1. n - 1 \in 0 .. LastMonth + 1 BY <1>1, <1>7
  <2> QED BY <1>1, <2>1
<1>10. MonthStart[n - 1] - MonthStart[a] >= 28 * ((n - 1) - a)
  <2>1. n - 1 \notin Wrong BY <1>3, <1>4, <1>7
  <2> QED BY <1>1, <1>7, <2>1
<1> QED BY <1>4, <1>5, <1>6, <1>8, <1>9, <1>10

(* It starts after every month before it.                                  *)
LEMMA MonthsInOrder ==
    ASSUME NEW a \in 0 .. LastMonth + 1, NEW b \in 0 .. LastMonth + 1, a < b
    PROVE  MonthStart[a] < MonthStart[b]
<1>1. MonthStart[a] \in Nat /\ MonthStart[b] \in Nat /\ a \in Nat /\ b \in Nat BY CalendarType
<1>2. MonthStart[b] - MonthStart[a] >= 28 * (b - a) BY <1>1, MonthsApart
<1> QED BY <1>1, <1>2

(* The month a day is in. *)
LEMMA MonthHolds ==
    ASSUME NEW day \in Calendar
    PROVE  /\ MonthOf(day) \in 0 .. LastMonth - 1
           /\ MonthStart[MonthOf(day)] \in Nat /\ MonthStart[MonthOf(day) + 1] \in Nat
           /\ MonthStart[MonthOf(day)] <= day /\ day < MonthStart[MonthOf(day) + 1]
<1>1. LastMonth \in Nat /\ day \in Nat /\ day < MonthStart[LastMonth]
      /\ \A m \in 0 .. LastMonth + 1 : MonthStart[m] \in Nat
  <2>1. LastMonth \in Nat /\ \A m \in 0 .. LastMonth + 1 : MonthStart[m] \in Nat BY CalendarType
  <2>2. LastMonth \in 0 .. LastMonth + 1 BY <2>1
  <2>3. MonthStart[LastMonth] \in Nat BY <2>1, <2>2
  <2> QED BY <2>1, <2>3 DEF Calendar, LastDay
<1>2. MonthStart[0] = 0 BY CalendarAssumption
<1> DEFINE Later == {m \in Nat : m \in 0 .. LastMonth /\ day < MonthStart[m]}
<1>3. LastMonth \in Later BY <1>1
<1>4. PICK m \in Later : \A k \in Later : m <= k
  <2>1. Later \in SUBSET Nat /\ Later # {} BY <1>3
  <2> HIDE DEF Later
  <2> QED BY <2>1, HasLeast
<1>5. m \in Nat /\ m <= LastMonth /\ day < MonthStart[m] BY <1>1
<1>6. m # 0 BY <1>1, <1>2, <1>5
<1>7. m - 1 \in Nat /\ m - 1 \in 0 .. LastMonth /\ (m - 1) + 1 = m BY <1>1, <1>5, <1>6
<1>8. ~(day < MonthStart[m - 1]) BY <1>4, <1>5, <1>7
<1>9. MonthStart[m - 1] \in Nat
  <2>1. m - 1 \in 0 .. LastMonth + 1 BY <1>1, <1>7
  <2> QED BY <1>1, <2>1
<1>10. \E k \in 0 .. LastMonth : day \in MonthStart[k] .. MonthStart[k + 1] - 1
  <2>1. MonthStart[m] \in Nat /\ MonthStart[(m - 1) + 1] = MonthStart[m] BY <1>1, <1>5, <1>7
  <2>2. day \in MonthStart[m - 1] .. MonthStart[(m - 1) + 1] - 1 BY <1>1, <1>5, <1>8, <1>9, <2>1
  <2> QED BY <1>7, <2>2
<1>11. MonthOf(day) \in 0 .. LastMonth /\ day \in MonthStart[MonthOf(day)] .. MonthStart[MonthOf(day) + 1] - 1
  BY <1>10, Zenon DEF MonthOf
<1>12. MonthOf(day) \in 0 .. LastMonth + 1 /\ MonthOf(day) + 1 \in 0 .. LastMonth + 1 BY <1>1, <1>11
<1>13. MonthStart[MonthOf(day)] \in Nat /\ MonthStart[MonthOf(day) + 1] \in Nat BY <1>1, <1>12
<1>14. MonthOf(day) # LastMonth BY <1>1, <1>11, <1>13
<1> QED BY <1>1, <1>11, <1>13, <1>14

(* And there is no other. *)
LEMMA MonthIs ==
    ASSUME NEW m \in 0 .. LastMonth, NEW day \in Calendar,
           MonthStart[m] <= day, day < MonthStart[m + 1]
    PROVE  MonthOf(day) = m
<1>1. PICK k \in 0 .. LastMonth - 1 : k = MonthOf(day) BY MonthHolds
<1>2. MonthStart[k] \in Nat /\ MonthStart[k + 1] \in Nat /\ MonthStart[k] <= day /\ day < MonthStart[k + 1]
  BY <1>1, MonthHolds
<1>3. LastMonth \in Nat /\ day \in Nat /\ \A i \in 0 .. LastMonth + 1 : MonthStart[i] \in Nat BY CalendarType
<1>4. /\ m \in 0 .. LastMonth + 1 /\ m + 1 \in 0 .. LastMonth + 1
      /\ k \in 0 .. LastMonth + 1 /\ k + 1 \in 0 .. LastMonth + 1
  BY <1>3
<1>5. MonthStart[m] \in Nat /\ MonthStart[m + 1] \in Nat BY <1>3, <1>4
<1>6. ~(m < k)
  <2> SUFFICES ASSUME m < k PROVE FALSE OBVIOUS
  <2>1. MonthStart[m + 1] <= MonthStart[k]
    <3>1. m + 1 = k \/ m + 1 < k BY <1>3
    <3> QED BY <1>2, <1>4, <1>5, <3>1, MonthsInOrder
  <2> QED BY <1>2, <1>3, <1>5, <2>1
<1>7. ~(k < m)
  <2> SUFFICES ASSUME k < m PROVE FALSE OBVIOUS
  <2>1. MonthStart[k + 1] <= MonthStart[m]
    <3>1. k + 1 = m \/ k + 1 < m BY <1>3
    <3> QED BY <1>2, <1>4, <1>5, <3>1, MonthsInOrder
  <2> QED BY <1>2, <1>3, <1>5, <2>1
<1> QED BY <1>1, <1>3, <1>6, <1>7

LEMMA MonthOfDay ==
    ASSUME NEW day \in Calendar
    PROVE  /\ MonthOf(day) \in 0 .. LastMonth
           /\ MonthStart[MonthOf(day)] \in Nat /\ MonthStart[MonthOf(day)] <= day
  BY MonthHolds, CalendarType

(* The days of times. *)
LEMMA DayFacts ==
    ASSUME NEW t \in Nat
    PROVE  /\ DayOf(t) \in Nat /\ DayOf(t) * Day <= t /\ t < DayOf(t) * Day + Day
           /\ \A d \in Nat : d * Day <= t => d <= DayOf(t)
  BY SMTT(30) DEF DayOf, Day, Hour

LEMMA DayOfStart ==
    ASSUME NEW d \in Nat
    PROVE  /\ d * Day \in Nat /\ DayOf(d * Day) = d
           /\ EndOfDay(d * Day) = d * Day + Day - 1 /\ DayOf(EndOfDay(d * Day)) = d
  BY SMTT(30) DEF DayOf, StartOfDay, EndOfDay, Day, Hour

(* Days and months grow with time. *)
LEMMA DaysGrow ==
    ASSUME NEW s \in Nat, NEW t \in Nat, s <= t, DayOf(t) \in Calendar
    PROVE  DayOf(s) \in Calendar /\ DayOf(s) <= DayOf(t)
<1>1. DayOf(s) \in Nat /\ DayOf(t) \in Nat BY DayFacts
<1>2. DayOf(s) <= DayOf(t) BY SMTT(30) DEF DayOf, Day, Hour
<1> QED BY <1>1, <1>2, CalendarType DEF Calendar

LEMMA MonthsGrow ==
    ASSUME NEW c \in Calendar, NEW d \in Calendar, c <= d
    PROVE  MonthOf(c) <= MonthOf(d)
<1>1. PICK m \in 0 .. LastMonth - 1 : m = MonthOf(c) BY MonthHolds
<1>2. PICK n \in 0 .. LastMonth - 1 : n = MonthOf(d) BY MonthHolds
<1>3. /\ MonthStart[m] \in Nat /\ MonthStart[n + 1] \in Nat
      /\ MonthStart[m] <= c /\ d < MonthStart[n + 1] /\ c \in Nat /\ d \in Nat
  BY <1>1, <1>2, MonthHolds, CalendarType
<1>4. LastMonth \in Nat BY CalendarType
<1>5. ASSUME n < m PROVE FALSE
  <2>1. n + 1 = m \/ n + 1 < m BY <1>4, <1>5
  <2>2. m \in 0 .. LastMonth + 1 /\ n + 1 \in 0 .. LastMonth + 1 BY <1>4
  <2>3. MonthStart[n + 1] <= MonthStart[m] BY <1>3, <2>1, <2>2, MonthsInOrder
  <2> QED BY <1>3, <2>3
<1> QED BY <1>1, <1>2, <1>4, <1>5

LEMMA DaysInOrder ==
    ASSUME NEW r, RangeOK(r)
    PROVE  /\ DayOf(r.from) \in Calendar /\ DayOf(r.to) \in Calendar
           /\ DayOf(r.from) <= DayOf(r.to)
  BY DaysGrow DEF RangeOK

(* A preset starts on a day of the calendar, today at the latest. *)
LEMMA PresetIsOK ==
    ASSUME NEW preset \in Presets, NEW now \in Nows
    PROVE  RangeOK(PresetRange(preset, now))
<1>1. now \in Nat /\ DayOf(now) \in Calendar /\ DayOf(now) \in Nat /\ DayOf(now) >= 31
  <2>1. now \in 31 * Day .. MonthStart[LastMonth] * Day - 1 BY PickerAssumption
  <2>2. MonthStart[LastMonth] \in Nat /\ LastDay \in Int
    <3>1. LastMonth \in 0 .. LastMonth + 1 BY CalendarType
    <3> QED BY <3>1, CalendarType
  <2>3. now \in Nat /\ 31 * Day <= now /\ now < MonthStart[LastMonth] * Day
    BY <2>1, <2>2, SMTT(30) DEF Day, Hour
  <2>4. DayOf(now) \in Nat /\ DayOf(now) * Day <= now /\ 31 <= DayOf(now) BY <2>3, DayFacts
  <2>5. DayOf(now) < MonthStart[LastMonth] BY <2>2, <2>3, <2>4, SMTT(30) DEF Day, Hour
  <2> QED BY <2>2, <2>3, <2>4, <2>5 DEF Calendar, LastDay
<1>2. PICK today \in Calendar : today = DayOf(now) BY <1>1
<1>3. PICK from : from = CASE preset = "today" -> today
                           [] preset = "7d"    -> today - 6
                           [] preset = "week"  -> today - (today % 7)
                           [] preset = "30d"   -> today - 29
                           [] preset = "month" -> MonthStart[MonthOf(today)]
  OBVIOUS
<1>4. PresetRange(preset, now) = [from |-> from * Day, to |-> now, preset |-> preset]
  BY <1>2, <1>3, Zenon DEF PresetRange
<1>5. from \in {today, today - 6, today - (today % 7), today - 29, MonthStart[MonthOf(today)]}
  BY <1>3, Zenon DEF Presets
<1>6. from \in Nat /\ from <= today
  <2>1. today \in Nat /\ today >= 31 BY <1>1, <1>2
  <2>2. today % 7 \in 0 .. 6 BY <2>1
  <2>3. MonthStart[MonthOf(today)] \in Nat /\ MonthStart[MonthOf(today)] <= today BY MonthOfDay
  <2> QED BY <1>5, <2>1, <2>2, <2>3
<1>7. from * Day \in Nat /\ from * Day <= now
  <2>1. today * Day <= now /\ today \in Nat BY <1>1, <1>2, DayFacts
  <2> QED BY <1>1, <1>6, <2>1, SMTT(30) DEF Day, Hour
<1> QED BY <1>1, <1>4, <1>7 DEF RangeOK

LEMMA ClampIsOK ==
    ASSUME NEW a \in Calendar, NEW b \in Calendar
    PROVE  RangeOK(ClampRange(a, b))
<1>1. a \in Nat /\ b \in Nat BY CalendarType
<1>2. /\ a * Day \in Nat /\ EndOfDay(a * Day) = a * Day + Day - 1 /\ DayOf(EndOfDay(a * Day)) = a
      /\ b * Day \in Nat /\ EndOfDay(b * Day) = b * Day + Day - 1 /\ DayOf(EndOfDay(b * Day)) = b
  BY <1>1, DayOfStart
<1>3. Day = 1440 BY DEF Day, Hour
<1>4. CASE a <= b
  <2>1. a * Day <= EndOfDay(b * Day) /\ EndOfDay(b * Day) \in Nat BY <1>1, <1>2, <1>3, <1>4
  <2>2. ClampRange(a, b) = [from |-> a * Day, to |-> EndOfDay(b * Day), preset |-> "custom"]
    BY <1>4 DEF ClampRange
  <2> QED BY <1>2, <2>1, <2>2 DEF RangeOK
<1>5. CASE ~(a <= b)
  <2>1. b * Day <= EndOfDay(a * Day) /\ EndOfDay(a * Day) \in Nat BY <1>1, <1>2, <1>3, <1>5
  <2>2. ClampRange(a, b) = [from |-> b * Day, to |-> EndOfDay(a * Day), preset |-> "custom"]
    BY <1>5 DEF ClampRange
  <2> QED BY <1>2, <2>1, <2>2 DEF RangeOK
<1> QED BY <1>4, <1>5

(* The draft and the months as they are after the picker was opened. *)
LEMMA OpenedOn ==
    ASSUME RangeOK(value)
    PROVE  /\ DayOf(value.from) \in Calendar /\ DayOf(value.to) \in Calendar
           /\ DayOf(value.from) <= DayOf(value.to) /\ MonthOf(DayOf(value.from)) \in 0 .. LastMonth
<1>1. DayOf(value.from) \in Calendar /\ DayOf(value.to) \in Calendar /\ DayOf(value.from) <= DayOf(value.to)
  BY DaysInOrder
<1> QED BY <1>1, MonthOfDay

LEMMA PickerInitInv == PickerInit => PickerInv
<1> SUFFICES ASSUME PickerInit PROVE PickerInv OBVIOUS
<1>1. RangeOK(value)
  <2>1. PICK now \in Nows : value = PresetRange("7d", now) BY DEF PickerInit
  <2> QED BY <2>1, PresetIsOK DEF Presets
<1> QED BY <1>1, OpenedOn DEF PickerInit, PickerInv, DraftOK

LEMMA PickerNextInv == PickerInv /\ [PickerNext]_pickerVars => PickerInv'
<1> SUFFICES ASSUME PickerInv, [PickerNext]_pickerVars PROVE PickerInv' OBVIOUS
<1>1. RangeOK(value) /\ DraftOK /\ LastMonth \in Nat /\ leftCursor \in 0 .. LastMonth /\ open \in BOOLEAN
  BY CalendarType DEF PickerInv
<1>2. ASSUME value' = value PROVE RangeOK(value)'
  BY <1>1, <1>2 DEF RangeOK, DayOf, Day, Hour, Calendar, LastDay, LastMonth, Presets
<1>3. CASE OpenPicker
  BY <1>1, <1>2, <1>3, OpenedOn DEF OpenPicker, PickerInv, DraftOK
<1>4. CASE ClosePicker
  BY <1>1, <1>2, <1>4 DEF ClosePicker, PickerInv, DraftOK
<1>5. CASE TurnMonth
  <2>1. leftCursor' \in 0 .. LastMonth BY <1>1, <1>5 DEF TurnMonth
  <2> QED BY <1>1, <1>2, <1>5, <2>1 DEF TurnMonth, PickerInv, DraftOK
<1>6. ASSUME NEW d \in Days, Pick(d) PROVE PickerInv'
  <2>1. d \in Calendar BY PickerAssumption DEF Calendar, LastDay
  <2>2. d \in Nat /\ NoDay \notin Calendar /\ Calendar \subseteq Nat BY <2>1, CalendarType DEF NoDay
  <2>3. DraftOK' BY <1>1, <1>6, <2>1, <2>2 DEF Pick, DraftOK
  <2> QED BY <1>1, <1>2, <1>6, <2>3 DEF Pick, PickerInv
<1>7. ASSUME NEW preset \in Presets, ApplyPreset(preset) PROVE PickerInv'
  <2>1. PICK now \in Nows : value' = PresetRange(preset, now) BY <1>7 DEF ApplyPreset
  <2>2. RangeOK(value') BY <2>1, PresetIsOK
  <2> QED BY <1>1, <1>7, <2>2 DEF ApplyPreset, PickerInv, DraftOK
<1>8. CASE ApplyDraft
  <2>1. PICK to : to = IF draftTo = NoDay THEN draftFrom ELSE draftTo OBVIOUS
  <2>2. value' = ClampRange(draftFrom, to) BY <1>8, <2>1 DEF ApplyDraft
  <2>3. draftFrom \in Calendar /\ to \in Calendar BY <1>1, <2>1 DEF DraftOK
  <2>4. RangeOK(value') BY <2>2, <2>3, ClampIsOK
  <2> QED BY <1>1, <1>8, <2>4 DEF ApplyDraft, PickerInv, DraftOK
<1>9. CASE UNCHANGED pickerVars
  BY <1>1, <1>2, <1>9 DEF pickerVars, PickerInv, DraftOK
<1> QED BY <1>3, <1>4, <1>5, <1>6, <1>7, <1>8, <1>9 DEF PickerNext

(* What is applied and drafted is one of the ranges of RangesOffered.      *)
Offered == value \in RangesOffered /\ draftFrom \in DraftDays /\ draftTo \in DraftDays \cup {NoDay}

LEMMA DraftDaysOfCalendar == DraftDays \subseteq Calendar
<1>1. Days \subseteq Calendar BY PickerAssumption DEF Calendar, LastDay
<1>2. ASSUME NEW r \in PresetRanges PROVE DayOf(r.from) \in Calendar /\ DayOf(r.to) \in Calendar
  <2>1. RangeOK(r) BY <1>2, PresetIsOK DEF PresetRanges
  <2> QED BY <2>1, DaysInOrder
<1> QED BY <1>1, <1>2 DEF DraftDays

LEMMA DaysOfOffered ==
    ASSUME NEW r \in RangesOffered
    PROVE  RangeOK(r) /\ DayOf(r.from) \in DraftDays /\ DayOf(r.to) \in DraftDays
<1>1. CASE r \in PresetRanges
  <2>1. RangeOK(r) BY <1>1, PresetIsOK DEF PresetRanges
  <2> QED BY <1>1, <2>1 DEF DraftDays
<1>2. CASE r \in DraftRanges
  <2>1. PICK a \in DraftDays, b \in DraftDays : r = ClampRange(a, b) BY <1>2 DEF DraftRanges
  <2>2. a \in Calendar /\ b \in Calendar /\ a \in Nat /\ b \in Nat BY DraftDaysOfCalendar, CalendarType
  <2>3. RangeOK(r) BY <2>1, <2>2, ClampIsOK
  <2>4. DayOf(a * Day) = a /\ DayOf(EndOfDay(a * Day)) = a /\ DayOf(b * Day) = b /\ DayOf(EndOfDay(b * Day)) = b
    BY <2>2, DayOfStart
  <2>5. r.from \in {a * Day, b * Day} /\ r.to \in {EndOfDay(a * Day), EndOfDay(b * Day)}
    BY <2>1 DEF ClampRange
  <2> QED BY <2>3, <2>4, <2>5
<1> QED BY <1>1, <1>2 DEF RangesOffered

LEMMA OfferedInit == PickerInit => Offered
<1> SUFFICES ASSUME PickerInit PROVE Offered OBVIOUS
<1>1. PICK now \in Nows : value = PresetRange("7d", now) BY DEF PickerInit
<1>2. value \in RangesOffered BY <1>1 DEF RangesOffered, PresetRanges, Presets
<1> QED BY <1>2, DaysOfOffered DEF PickerInit, Offered

LEMMA OfferedNext == Offered /\ [PickerNext]_pickerVars => Offered'
<1> SUFFICES ASSUME Offered, [PickerNext]_pickerVars PROVE Offered' OBVIOUS
<1> USE DEF Offered
<1>1. RangesOffered' = RangesOffered /\ DraftDays' = DraftDays
  <2>1. ASSUME NEW n PROVE DayOf(n)' = DayOf(n) /\ MonthOf(n)' = MonthOf(n) /\ EndOfDay(n)' = EndOfDay(n)
    BY DEF DayOf, MonthOf, EndOfDay, StartOfDay, Day, Hour
  <2>2. ASSUME NEW preset, NEW now PROVE PresetRange(preset, now)' = PresetRange(preset, now)
    BY <2>1 DEF PresetRange, Day, Hour, DayOf, MonthOf
  <2>3. ASSUME NEW a, NEW b PROVE ClampRange(a, b)' = ClampRange(a, b)
    BY <2>1 DEF ClampRange, Day, Hour, EndOfDay, StartOfDay, DayOf
  <2>4. ASSUME NEW r PROVE r \in PresetRanges' <=> r \in PresetRanges BY <2>2 DEF PresetRanges, Presets
  <2>5. ASSUME NEW d PROVE d \in DraftDays' <=> d \in DraftDays BY <2>1, <2>4 DEF DraftDays
  <2>6. ASSUME NEW r PROVE r \in DraftRanges' <=> r \in DraftRanges BY <2>3, <2>5 DEF DraftRanges
  <2>7. ASSUME NEW r PROVE r \in RangesOffered' <=> r \in RangesOffered BY <2>4, <2>6 DEF RangesOffered
  <2> QED BY <2>5, <2>7
<1>2. CASE OpenPicker BY <1>1, <1>2, DaysOfOffered DEF OpenPicker
<1>3. CASE ClosePicker BY <1>1, <1>3 DEF ClosePicker
<1>4. CASE TurnMonth BY <1>1, <1>4 DEF TurnMonth
<1>5. ASSUME NEW d \in Days, Pick(d) PROVE Offered'
  <2>1. d \in DraftDays BY DEF DraftDays
  <2>2. draftFrom = NoDay \/ draftTo # NoDay \/ draftFrom \in DraftDays OBVIOUS
  <2> QED BY <1>1, <1>5, <2>1 DEF Pick
<1>6. ASSUME NEW preset \in Presets, ApplyPreset(preset) PROVE Offered'
  <2>1. value' \in RangesOffered BY <1>6 DEF ApplyPreset, RangesOffered, PresetRanges
  <2> QED BY <1>1, <1>6, <2>1 DEF ApplyPreset
<1>7. CASE ApplyDraft
  <2>1. value' \in RangesOffered BY <1>7 DEF ApplyDraft, RangesOffered, DraftRanges
  <2> QED BY <1>1, <1>7, <2>1 DEF ApplyDraft
<1>8. CASE UNCHANGED pickerVars BY <1>1, <1>8 DEF pickerVars
<1> QED BY <1>2, <1>3, <1>4, <1>5, <1>6, <1>7, <1>8 DEF PickerNext

(* The picker never hands on, nor drafts, a range that ends before it      *)
(* starts, in whatever order days were clicked and months turned           *)
(* (DateRangePicker.tsx).                                                  *)
RangesInOrder == value.from <= value.to /\ (draftTo # NoDay => draftFrom <= draftTo)

THEOREM RangesOrdered == PickerSpec => []RangesInOrder
<1>1. PickerInv => RangesInOrder
  BY DEF PickerInv, RangeOK, DraftOK, RangesInOrder
<1> QED BY <1>1, PickerInitInv, PickerNextInv, PTL DEF PickerSpec

(***************************************************************************)
(* The walk along the axis.                                                *)
(***************************************************************************)
Steps == 1 .. MaxGuard

(* The equation of the cursor in BuildBucketAxis. *)
Walks(f, from, to, kind) ==
    f = [i \in Steps |-> IF i = 1 THEN AlignBucketStart(from, kind)
                         ELSE LET last == f[i - 1]
                              IN  IF last > to THEN last ELSE NextBucketStart(last, kind)]

LEMMA OneWalk ==
    ASSUME NEW from, NEW to, NEW kind, NEW f, NEW g, Walks(f, from, to, kind), Walks(g, from, to, kind)
    PROVE  f = g
<1> DEFINE Differ == {i \in Nat : i \in Steps /\ f[i] # g[i]}
<1>1. CASE Differ = {}
  BY <1>1 DEF Walks, Steps, MaxGuard, MaxBucketPoints
<1>2. CASE Differ # {}
  <2>1. PICK m \in Differ : \A k \in Differ : m <= k
    <3>1. Differ \in SUBSET Nat OBVIOUS
    <3> HIDE DEF Differ
    <3> QED BY <1>2, <3>1, HasLeast
  <2>2. m \in Nat /\ m \in Steps /\ f[m] # g[m] OBVIOUS
  <2>3. m # 1 BY <2>2 DEF Walks
  <2>4. m - 1 \in Nat /\ m - 1 \in Steps BY <2>2, <2>3 DEF Steps, MaxGuard, MaxBucketPoints
  <2>5. f[m - 1] = g[m - 1] BY <2>1, <2>2, <2>4
  <2>6. f[m] = IF f[m - 1] > to THEN f[m - 1] ELSE NextBucketStart(f[m - 1], kind)
    BY <2>2, <2>3 DEF Walks
  <2>7. g[m] = IF g[m - 1] > to THEN g[m - 1] ELSE NextBucketStart(g[m - 1], kind)
    BY <2>2, <2>3 DEF Walks
  <2> QED BY <2>2, <2>5, <2>6, <2>7
<1> QED BY <1>1, <1>2

(* The axis is what any such cursor walks over. *)
LEMMA AxisOfWalk ==
    ASSUME NEW from, NEW to, NEW kind, NEW f, Walks(f, from, to, kind)
    PROVE  BuildBucketAxis(from, to, kind) = {f[i] : i \in {j \in Steps : f[j] <= to}}
<1>1. PICK g : g = CHOOSE h : Walks(h, from, to, kind) OBVIOUS
<1>2. Walks(g, from, to, kind) BY <1>1, Zenon
<1>3. g = f BY <1>2, OneWalk
<1>4. BuildBucketAxis(from, to, kind) = {g[i] : i \in {j \in Steps : g[j] <= to}}
  BY <1>1, Zenon DEF BuildBucketAxis, Walks, Steps, MaxGuard
<1> QED BY <1>3, <1>4

(* p lists the bucket starts from the aligned one to the first after the   *)
(* range.                                                                  *)
Lists(p, n, from, to, kind) ==
    /\ p \in [0 .. n -> Int] /\ p[0] = AlignBucketStart(from, kind) /\ p[n] > to
    /\ \A i \in 0 .. n - 1 : p[i] <= to /\ p[i + 1] = NextBucketStart(p[i], kind)

(* The axis has all of them but that last one, or the first MaxGuard.      *)
LEMMA AxisIs ==
    ASSUME NEW from, NEW to \in Int, NEW kind, NEW n \in Nat, NEW p, Lists(p, n, from, to, kind)
    PROVE  BuildBucketAxis(from, to, kind) = {p[i] : i \in {j \in 0 .. n - 1 : j < MaxGuard}}
<1> DEFINE place(i) == IF i - 1 < n THEN i - 1 ELSE n
<1> DEFINE f == [i \in Steps |-> p[place(i)]]
<1>0. /\ p \in [0 .. n -> Int] /\ p[0] = AlignBucketStart(from, kind) /\ p[n] > to
      /\ \A i \in 0 .. n - 1 : p[i] <= to /\ p[i + 1] = NextBucketStart(p[i], kind)
  BY DEF Lists
<1>1. MaxGuard = 56 BY DEF MaxGuard, MaxBucketPoints
<1>2. Walks(f, from, to, kind)
  <2>1. ASSUME NEW i \in Steps
        PROVE  f[i] = IF i = 1 THEN AlignBucketStart(from, kind)
                      ELSE LET last == f[i - 1] IN IF last > to THEN last ELSE NextBucketStart(last, kind)
    <3>1. i \in 1 .. 56 BY <1>1 DEF Steps
    <3>2. CASE i = 1
      <4>1. place(1) = 0 OBVIOUS
      <4> QED BY <1>0, <3>1, <3>2, <4>1
    <3>3. CASE i # 1
      <4>1. i - 1 \in Steps /\ f[i - 1] = p[place(i - 1)] /\ f[i] = p[place(i)] BY <1>1, <3>1, <3>3 DEF Steps
      <4>2. CASE i - 1 <= n
        <5>1. place(i - 1) = i - 2 /\ i - 2 \in 0 .. n - 1 /\ place(i) = i - 1 /\ (i - 2) + 1 = i - 1
          BY <3>1, <3>3, <4>2
        <5>2. p[i - 2] <= to /\ p[i - 1] = NextBucketStart(p[i - 2], kind) BY <1>0, <5>1
        <5>3. p[i - 2] \in Int BY <1>0, <5>1
        <5>4. ~(f[i - 1] > to) BY <4>1, <5>1, <5>2, <5>3
        <5> HIDE DEF f, place
        <5> QED BY <3>3, <4>1, <5>1, <5>2, <5>4
      <4>3. CASE i - 1 > n
        <5>1. place(i - 1) = n /\ place(i) = n BY <3>1, <3>3, <4>3
        <5> HIDE DEF f, place
        <5> QED BY <1>0, <3>3, <4>1, <5>1
      <4> QED BY <3>1, <4>2, <4>3
    <3> QED BY <3>2, <3>3
  <2>2. f = [i \in Steps |-> f[i]] OBVIOUS
  <2> HIDE DEF f
  <2> QED BY <2>1, <2>2 DEF Walks
<1>3. BuildBucketAxis(from, to, kind) = {f[i] : i \in {j \in Steps : f[j] <= to}}
  <2> HIDE DEF f
  <2> QED BY <1>2, AxisOfWalk
<1>4. ASSUME NEW j \in Steps, f[j] <= to PROVE j - 1 \in 0 .. n - 1 /\ j - 1 < MaxGuard /\ f[j] = p[j - 1]
  <2>1. j \in 1 .. 56 BY <1>1 DEF Steps
  <2>2. place(j) \in 0 .. n /\ f[j] = p[place(j)] BY <2>1
  <2>3. place(j) # n
    <3> SUFFICES ASSUME place(j) = n PROVE FALSE OBVIOUS
    <3>1. p[n] \in Int /\ f[j] = p[n] BY <1>0, <2>2
    <3> QED BY <1>0, <1>4, <3>1
  <2> QED BY <1>1, <2>1, <2>2, <2>3
<1>5. ASSUME NEW i \in 0 .. n - 1, i < MaxGuard PROVE i + 1 \in Steps /\ f[i + 1] = p[i] /\ p[i] <= to
  <2>1. i + 1 \in Steps /\ place(i + 1) = i BY <1>1, <1>5 DEF Steps
  <2> QED BY <1>0, <2>1
<1> HIDE DEF f, place
<1>6. ASSUME NEW s \in {f[i] : i \in {j \in Steps : f[j] <= to}}
      PROVE  s \in {p[i] : i \in {j \in 0 .. n - 1 : j < MaxGuard}}
  <2>1. PICK j \in Steps : f[j] <= to /\ s = f[j] OBVIOUS
  <2>2. j - 1 \in 0 .. n - 1 /\ j - 1 < MaxGuard /\ f[j] = p[j - 1] BY <1>4, <2>1
  <2> QED BY <2>1, <2>2
<1>7. ASSUME NEW s \in {p[i] : i \in {j \in 0 .. n - 1 : j < MaxGuard}}
      PROVE  s \in {f[i] : i \in {j \in Steps : f[j] <= to}}
  <2>1. PICK i \in 0 .. n - 1 : i < MaxGuard /\ s = p[i] OBVIOUS
  <2>2. i + 1 \in Steps /\ f[i + 1] = p[i] /\ p[i] <= to BY <1>5, <2>1
  <2> QED BY <2>1, <2>2
<1> QED BY <1>3, <1>6, <1>7

(* Kinds of a fixed width: a bucket starts at the multiples of it, weeks   *)
(* because minute 0 is on a Monday.                                        *)
WidthKinds == {"15m", "30m", "1h", "1d", "1w"}

LEMMA WidthOf ==
    ASSUME NEW kind \in WidthKinds
    PROVE  Width(kind) \in {15, 30, 60, 1440, 10080}
  BY DEF WidthKinds, Width, Hour, Day

LEMMA AlignsToWidth ==
    ASSUME NEW t \in Nat, NEW kind \in WidthKinds
    PROVE  /\ AlignBucketStart(t, kind) = (t \div Width(kind)) * Width(kind)
           /\ t \div Width(kind) \in Nat
<1>1. CASE kind = "15m"
  <2>1. AlignBucketStart(t, kind) = FloorToMinutes(t, 15) /\ Width(kind) = 15
    BY <1>1 DEF AlignBucketStart, Width
  <2>2. FloorToMinutes(t, 15) = (t \div 15) * 15 /\ t \div 15 \in Nat
    BY SMTT(30) DEF FloorToMinutes, StartOfDay, DayOf, Day, Hour
  <2> QED BY <2>1, <2>2
<1>2. CASE kind = "30m"
  <2>1. AlignBucketStart(t, kind) = FloorToMinutes(t, 30) /\ Width(kind) = 30
    BY <1>2 DEF AlignBucketStart, Width
  <2>2. FloorToMinutes(t, 30) = (t \div 30) * 30 /\ t \div 30 \in Nat
    BY SMTT(30) DEF FloorToMinutes, StartOfDay, DayOf, Day, Hour
  <2> QED BY <2>1, <2>2
<1>3. CASE kind = "1h"
  <2>1. AlignBucketStart(t, kind) = FloorToMinutes(t, 60) /\ Width(kind) = 60
    BY <1>3 DEF AlignBucketStart, Width, Hour
  <2>2. FloorToMinutes(t, 60) = (t \div 60) * 60 /\ t \div 60 \in Nat
    BY SMTT(30) DEF FloorToMinutes, StartOfDay, DayOf, Day, Hour
  <2> QED BY <2>1, <2>2
<1>4. CASE kind = "1d"
  <2>1. AlignBucketStart(t, kind) = StartOfDay(t) /\ Width(kind) = 1440
    BY <1>4 DEF AlignBucketStart, Width, Day, Hour
  <2>2. StartOfDay(t) = (t \div 1440) * 1440 /\ t \div 1440 \in Nat
    BY SMTT(30) DEF StartOfDay, DayOf, Day, Hour
  <2> QED BY <2>1, <2>2
<1>5. CASE kind = "1w"
  <2>1. AlignBucketStart(t, kind) = StartOfWeekMonday(t) /\ Width(kind) = 10080
    BY <1>5 DEF AlignBucketStart, Width, Day, Hour
  <2>2. StartOfWeekMonday(t) = (t \div 10080) * 10080 /\ t \div 10080 \in Nat
    BY SMTT(30) DEF StartOfWeekMonday, DayOf, Day, Hour
  <2> QED BY <2>1, <2>2
<1> QED BY <1>1, <1>2, <1>3, <1>4, <1>5 DEF WidthKinds

(* The multiple below a time. *)
LEMMA Multiples ==
    ASSUME NEW w \in {15, 30, 60, 1440, 10080}, NEW t \in Nat
    PROVE  /\ t \div w \in Nat /\ (t \div w) * w <= t /\ t < (t \div w) * w + w
           /\ \A s \in Nat : s <= t => s \div w \in Nat /\ s \div w <= t \div w
           /\ \A s \in Nat : s <= t => (t \div w) - (s \div w) <= (t - s + w - 1) \div w
<1>1. CASE w = 15 BY <1>1, SMTT(30)
<1>2. CASE w = 30 BY <1>2, SMTT(30)
<1>3. CASE w = 60 BY <1>3, SMTT(30)
<1>4. CASE w = 1440 BY <1>4, SMTT(30)
<1>5. CASE w = 10080 BY <1>5, SMTT(30)
<1> QED BY <1>1, <1>2, <1>3, <1>4, <1>5

(* With such a kind whose points are within the bounds, each time of the   *)
(* range is in a bucket of the axis.                                       *)
LEMMA WidthAxis ==
    ASSUME NEW from \in Nat, NEW to \in Nat, from <= to, NEW kind \in WidthKinds,
           EstimatePointCount(from, to, kind) <= MaxBucketPoints
    PROVE  \E n \in Nat : \E p :
             /\ n <= MaxBucketPoints
             /\ BuildBucketAxis(from, to, kind) = {p[i] : i \in 0 .. n - 1}
             /\ \A t \in from .. to : BucketKeyFor(t, kind) \in BuildBucketAxis(from, to, kind)
<1>1. PICK w \in {15, 30, 60, 1440, 10080} : w = Width(kind) BY WidthOf
<1>2. PICK a \in Nat : a = from \div w BY <1>1, Multiples
<1>3. PICK b \in Nat : b = to \div w BY <1>1, Multiples
<1>4. a <= b /\ b - a <= (to - from + w - 1) \div w BY <1>1, <1>2, <1>3, Multiples
<1> DEFINE n == b - a + 1
           p == [i \in 0 .. n |-> (a + i) * w]
<1>5. n \in Nat /\ n <= MaxBucketPoints
  <2>1. EstimatePointCount(from, to, kind) = ((to - from + w - 1) \div w) + 1
    BY <1>1 DEF EstimatePointCount, WidthKinds
  <2>2. (to - from + w - 1) \div w \in Int BY <1>1
  <2> QED BY <1>4, <2>1, <2>2 DEF MaxBucketPoints
<1>6. BuildBucketAxis(from, to, kind) = {p[i] : i \in 0 .. n - 1}
  <2>1. p \in [0 .. n -> Int] BY <1>1
  <2>2. p[0] = AlignBucketStart(from, kind)
    BY <1>1, <1>2, <1>5, AlignsToWidth
  <2>3. ASSUME NEW i \in 0 .. n - 1 PROVE p[i] <= to /\ p[i + 1] = NextBucketStart(p[i], kind)
    <3>1. i \in Nat /\ i \in 0 .. n /\ i + 1 \in 0 .. n /\ a + i <= b BY <1>4, <1>5
    <3>2. p[i] = (a + i) * w /\ p[i + 1] = (a + (i + 1)) * w BY <3>1
    <3>3. (a + i) * w <= b * w /\ (a + (i + 1)) * w = (a + i) * w + w
      BY <1>1, <3>1, SMTT(30)
    <3>4. b * w <= to BY <1>1, <1>3, Multiples
    <3>5. (a + i) * w \in Int /\ b * w \in Int BY <1>1, <3>1
    <3>6. NextBucketStart(p[i], kind) = p[i] + w BY <1>1 DEF NextBucketStart, WidthKinds
    <3> HIDE DEF p, n
    <3> QED BY <3>2, <3>3, <3>4, <3>5, <3>6
  <2>4. p[n] > to
    <3>1. p[n] = (a + n) * w BY <1>5
    <3>2. a + n = b + 1 BY <1>4
    <3>3. (b + 1) * w = b * w + w BY <1>1
    <3>4. to < b * w + w BY <1>1, <1>3, Multiples
    <3> HIDE DEF p, n
    <3> QED BY <1>1, <3>1, <3>2, <3>3, <3>4
  <2>5. {j \in 0 .. n - 1 : j < MaxGuard} = 0 .. n - 1 BY <1>5 DEF MaxGuard, MaxBucketPoints
  <2>6. to \in Int OBVIOUS
  <2> HIDE DEF p, n
  <2>7. Lists(p, n, from, to, kind) BY <2>1, <2>2, <2>3, <2>4 DEF Lists
  <2>8. BuildBucketAxis(from, to, kind) = {p[i] : i \in {j \in 0 .. n - 1 : j < MaxGuard}}
    BY <1>5, <2>6, <2>7, AxisIs
  <2> QED BY <2>5, <2>8
<1>7. ASSUME NEW t \in from .. to PROVE BucketKeyFor(t, kind) \in {p[i] : i \in 0 .. n - 1}
  <2>1. t \in Nat /\ from <= t /\ t <= to OBVIOUS
  <2>2. PICK c \in Nat : c = t \div w BY <1>1, <2>1, Multiples
  <2>3. a <= c /\ c <= b BY <1>1, <1>2, <1>3, <2>1, <2>2, Multiples
  <2>4. c - a \in 0 .. n - 1 /\ a + (c - a) = c BY <1>4, <2>3
  <2>5. p[c - a] = c * w BY <2>4
  <2>6. BucketKeyFor(t, kind) = c * w BY <1>1, <2>1, <2>2, AlignsToWidth DEF BucketKeyFor
  <2> HIDE DEF p, n
  <2> QED BY <2>4, <2>5, <2>6
<1> HIDE DEF n, p
<1> QED BY <1>5, <1>6, <1>7

(* An axis of months has those of the range, up to the guard. *)
LEMMA MonthAxis ==
    ASSUME NEW from \in Nat, NEW to \in Nat, from <= to, DayOf(to) \in Calendar
    PROVE  LET a == MonthOf(DayOf(from))
               n == MonthsOf(from, to)
           IN  /\ n \in Nat /\ 1 <= n /\ n <= LastMonth
               /\ BuildBucketAxis(from, to, "1M")
                    = {MonthStart[a + i] * Day : i \in {j \in 0 .. n - 1 : j < MaxGuard}}
<1>1. DayOf(from) \in Calendar /\ DayOf(from) <= DayOf(to) BY DaysGrow
<1>2. PICK a \in 0 .. LastMonth - 1 : a = MonthOf(DayOf(from)) BY <1>1, MonthHolds
<1>3. PICK b \in 0 .. LastMonth - 1 : b = MonthOf(DayOf(to)) BY MonthHolds
<1>4. LastMonth \in Nat /\ \A m \in 0 .. LastMonth + 1 : MonthStart[m] \in Nat BY CalendarType
<1>5. a <= b BY <1>1, <1>2, <1>3, MonthsGrow
<1> DEFINE n == b - a + 1
           p == [i \in 0 .. n |-> MonthStart[a + i] * Day]
<1>6. n \in Nat /\ 1 <= n /\ n <= LastMonth /\ MonthsOf(from, to) = n BY <1>2, <1>3, <1>4, <1>5 DEF MonthsOf
<1>7. ASSUME NEW i \in 0 .. n PROVE p[i] = MonthStart[a + i] * Day /\ MonthStart[a + i] \in Nat /\ p[i] \in Nat
  <2>1. a + i \in 0 .. LastMonth + 1 BY <1>4, <1>5
  <2>2. MonthStart[a + i] \in Nat BY <1>4, <2>1
  <2>3. p[i] = MonthStart[a + i] * Day OBVIOUS
  <2> QED BY <2>2, <2>3, DayOfStart
<1>8. /\ MonthStart[b] \in Nat /\ MonthStart[b] <= DayOf(to) /\ DayOf(to) \in Nat
      /\ MonthStart[b + 1] \in Nat /\ DayOf(to) < MonthStart[b + 1]
      /\ DayOf(to) * Day <= to /\ to < DayOf(to) * Day + Day
  BY <1>3, MonthHolds, DayFacts
<1>9. Lists(p, n, from, to, "1M")
  <2>1. p \in [0 .. n -> Int]
    <3>1. p = [i \in 0 .. n |-> p[i]] OBVIOUS
    <3> HIDE DEF p, n
    <3> QED BY <1>7, <3>1
  <2>2. p[0] = AlignBucketStart(from, "1M")
    <3>1. p[0] = MonthStart[a] * Day BY <1>5
    <3> HIDE DEF p, n
    <3> QED BY <1>2, <3>1 DEF AlignBucketStart
  <2>3. ASSUME NEW i \in 0 .. n - 1 PROVE p[i] <= to /\ p[i + 1] = NextBucketStart(p[i], "1M")
    <3>1. i \in 0 .. n /\ i + 1 \in 0 .. n /\ a + (i + 1) = (a + i) + 1 BY <1>6
    <3>2. a + i \in 0 .. b /\ a + i \in 0 .. LastMonth /\ a + i \in 0 .. LastMonth + 1 /\ b \in 0 .. LastMonth + 1
      BY <1>4, <1>5
    <3>3. MonthStart[a + i] <= MonthStart[b]
      <4>1. a + i = b \/ a + i < b BY <3>2
      <4>2. MonthStart[a + i] \in Nat BY <1>4, <3>2
      <4>3. CASE a + i = b BY <1>8, <4>3
      <4>4. CASE a + i < b
        <5>1. MonthStart[a + i] < MonthStart[b] BY <3>2, <4>4, MonthsInOrder
        <5> QED BY <1>8, <4>2, <5>1
      <4> QED BY <4>1, <4>3, <4>4
    <3>4. p[i] = MonthStart[a + i] * Day /\ MonthStart[a + i] \in Nat /\ p[i] \in Nat BY <1>7, <3>1
    <3>5. p[i + 1] = MonthStart[(a + i) + 1] * Day /\ MonthStart[(a + i) + 1] \in Nat BY <1>7, <3>1
    <3>6. p[i] <= to BY <1>8, <3>3, <3>4, SMTT(30) DEF Day, Hour
    <3>7. DayOf(p[i]) = MonthStart[a + i] BY <3>4, DayOfStart
    <3>8. MonthStart[a + i] \in Calendar
      <4>1. MonthStart[a + i] <= DayOf(to) BY <1>8, <3>3, <3>4
      <4> QED BY <1>8, <3>4, <4>1, CalendarType DEF Calendar
    <3>9. MonthStart[a + i] < MonthStart[(a + i) + 1]
      <4>1. (a + i) + 1 \in 0 .. LastMonth + 1 /\ a + i < (a + i) + 1 BY <1>4, <3>2
      <4> QED BY <3>2, <4>1, MonthsInOrder
    <3>10. MonthOf(MonthStart[a + i]) = a + i BY <3>2, <3>4, <3>8, <3>9, MonthIs
    <3>11. NextBucketStart(p[i], "1M") = MonthStart[MonthOf(DayOf(p[i])) + 1] * Day BY DEF NextBucketStart
    <3> HIDE DEF p, n
    <3> QED BY <3>5, <3>6, <3>7, <3>10, <3>11
  <2>4. p[n] > to
    <3>1. n \in 0 .. n /\ a + n = b + 1 BY <1>5, <1>6
    <3>2. p[n] = MonthStart[b + 1] * Day BY <1>7, <3>1
    <3> HIDE DEF p, n
    <3> QED BY <1>8, <3>2, SMTT(30) DEF Day, Hour
  <2> HIDE DEF p, n
  <2> QED BY <2>1, <2>2, <2>3, <2>4 DEF Lists
<1>10. BuildBucketAxis(from, to, "1M") = {p[i] : i \in {j \in 0 .. n - 1 : j < MaxGuard}}
  <2>1. to \in Int OBVIOUS
  <2> HIDE DEF p, n
  <2> QED BY <1>6, <1>9, <2>1, AxisIs
<1>11. \A i \in {j \in 0 .. n - 1 : j < MaxGuard} : p[i] = MonthStart[a + i] * Day
  <2>1. 0 .. n - 1 \subseteq 0 .. n BY <1>6
  <2> QED BY <1>7, <2>1
<1> HIDE DEF p
<1>12. BuildBucketAxis(from, to, "1M") = {MonthStart[a + i] * Day : i \in {j \in 0 .. n - 1 : j < MaxGuard}}
  BY <1>10, <1>11
<1> QED BY <1>2, <1>6, <1>12

(***************************************************************************)
(* The kind chosen.                                                        *)
(***************************************************************************)
LEMMA Ranks ==
    /\ Rank("15m") = 1 /\ Rank("30m") = 2 /\ Rank("1h") = 3
    /\ Rank("1d") = 4 /\ Rank("1w") = 5 /\ Rank("1M") = 6
<1>1. DOMAIN KindOrder = 1 .. 6 BY DEF KindOrder
<1>2. /\ KindOrder[1] = "15m" /\ KindOrder[2] = "30m" /\ KindOrder[3] = "1h"
      /\ KindOrder[4] = "1d" /\ KindOrder[5] = "1w" /\ KindOrder[6] = "1M"
  BY DEF KindOrder
<1>3. ASSUME NEW k \in 1 .. 6, NEW kind, KindOrder[k] = kind PROVE Rank(kind) = k
  <2>1. \E i \in DOMAIN KindOrder : KindOrder[i] = kind BY <1>1, <1>3
  <2>2. Rank(kind) \in DOMAIN KindOrder /\ KindOrder[Rank(kind)] = kind BY <2>1, Zenon DEF Rank
  <2> QED BY <1>1, <1>2, <1>3, <2>2
<1> QED BY <1>2, <1>3

LEMMA SpanBounds ==
    /\ 3 * Hour = 180 /\ 12 * Hour = 720 /\ 48 * Hour = 2880
    /\ 31 * Day = 44640 /\ 180 * Day = 259200
<1>1. 3 * Hour = 180 /\ 12 * Hour = 720 /\ 48 * Hour = 2880 BY DEF Hour
<1>2. 31 * Day = 44640 /\ 180 * Day = 259200 BY DEF Hour, Day
<1> QED BY <1>1, <1>2

(* The kind of a span has few enough points, or is the hour, and then the  *)
(* day has.                                                                *)
FewPoints(from, to, base) ==
    /\ base \in WidthKinds \cup {"1M"} /\ (base = "1M" <=> to - from > 180 * Day)
    /\ base \in WidthKinds \ {"1h"} => EstimatePointCount(from, to, base) <= MaxBucketPoints
    /\ base = "1h" => EstimatePointCount(from, to, "1d") <= MaxBucketPoints

LEMMA BaseFits ==
    ASSUME NEW from \in Nat, NEW to \in Nat, from <= to
    PROVE  FewPoints(from, to, BaseKindForSpan(to - from))
<1>1. PICK span \in Nat : span = to - from OBVIOUS
<1>2. /\ EstimatePointCount(from, to, "15m") = ((span + 14) \div 15) + 1
      /\ EstimatePointCount(from, to, "30m") = ((span + 29) \div 30) + 1
      /\ EstimatePointCount(from, to, "1d") = ((span + 1439) \div 1440) + 1
      /\ EstimatePointCount(from, to, "1w") = ((span + 10079) \div 10080) + 1
  <2>1. Width("15m") = 15 /\ Width("30m") = 30 /\ Width("1d") = 1440 /\ Width("1w") = 10080
    BY DEF Width, Hour, Day
  <2> QED BY <1>1, <2>1 DEF EstimatePointCount
<1>3. PICK base : base = BaseKindForSpan(span) OBVIOUS
<1> SUFFICES FewPoints(from, to, base) BY <1>1, <1>3
<1>4. CASE span <= 180
  <2>1. /\ span <= 3 * Hour /\ ~(span \in 3 * Hour + 1 .. 12 * Hour)
        /\ ~(span \in 12 * Hour + 1 .. 48 * Hour) /\ ~(span \in 48 * Hour + 1 .. 31 * Day)
        /\ ~(span \in 31 * Day + 1 .. 180 * Day) /\ ~(span > 180 * Day)
    BY <1>4, SpanBounds
  <2>2. base = "15m" BY <1>3, <2>1, Zenon DEF BaseKindForSpan
  <2>3. EstimatePointCount(from, to, "15m") <= 48 BY <1>2, <1>4
  <2> QED BY <1>1, <1>3, <2>1, <2>2, <2>3 DEF FewPoints, MaxBucketPoints, WidthKinds
<1>5. CASE 180 < span /\ span <= 720
  <2>1. /\ ~(span <= 3 * Hour) /\ span \in 3 * Hour + 1 .. 12 * Hour
        /\ ~(span \in 12 * Hour + 1 .. 48 * Hour) /\ ~(span \in 48 * Hour + 1 .. 31 * Day)
        /\ ~(span \in 31 * Day + 1 .. 180 * Day) /\ ~(span > 180 * Day)
    BY <1>5, SpanBounds
  <2>2. base = "30m" BY <1>3, <2>1, Zenon DEF BaseKindForSpan
  <2>3. EstimatePointCount(from, to, "30m") <= 48 BY <1>2, <1>5
  <2> QED BY <1>1, <1>3, <2>1, <2>2, <2>3 DEF FewPoints, MaxBucketPoints, WidthKinds
<1>6. CASE 720 < span /\ span <= 2880
  <2>1. /\ ~(span <= 3 * Hour) /\ ~(span \in 3 * Hour + 1 .. 12 * Hour)
        /\ span \in 12 * Hour + 1 .. 48 * Hour /\ ~(span \in 48 * Hour + 1 .. 31 * Day)
        /\ ~(span \in 31 * Day + 1 .. 180 * Day) /\ ~(span > 180 * Day)
    BY <1>6, SpanBounds
  <2>2. base = "1h" BY <1>3, <2>1, Zenon DEF BaseKindForSpan
  <2>3. EstimatePointCount(from, to, "1d") <= 48 BY <1>2, <1>6
  <2> QED BY <1>1, <1>3, <2>1, <2>2, <2>3 DEF FewPoints, MaxBucketPoints, WidthKinds
<1>7. CASE 2880 < span /\ span <= 44640
  <2>1. /\ ~(span <= 3 * Hour) /\ ~(span \in 3 * Hour + 1 .. 12 * Hour)
        /\ ~(span \in 12 * Hour + 1 .. 48 * Hour) /\ span \in 48 * Hour + 1 .. 31 * Day
        /\ ~(span \in 31 * Day + 1 .. 180 * Day) /\ ~(span > 180 * Day)
    BY <1>7, SpanBounds
  <2>2. base = "1d" BY <1>3, <2>1, Zenon DEF BaseKindForSpan
  <2>3. EstimatePointCount(from, to, "1d") <= 48 BY <1>2, <1>7
  <2> QED BY <1>1, <1>3, <2>1, <2>2, <2>3 DEF FewPoints, MaxBucketPoints, WidthKinds
<1>8. CASE 44640 < span /\ span <= 259200
  <2>1. /\ ~(span <= 3 * Hour) /\ ~(span \in 3 * Hour + 1 .. 12 * Hour)
        /\ ~(span \in 12 * Hour + 1 .. 48 * Hour) /\ ~(span \in 48 * Hour + 1 .. 31 * Day)
        /\ span \in 31 * Day + 1 .. 180 * Day /\ ~(span > 180 * Day)
    BY <1>8, SpanBounds
  <2>2. base = "1w" BY <1>3, <2>1, Zenon DEF BaseKindForSpan
  <2>3. EstimatePointCount(from, to, "1w") <= 48 BY <1>2, <1>8
  <2> QED BY <1>1, <1>3, <2>1, <2>2, <2>3 DEF FewPoints, MaxBucketPoints, WidthKinds
<1>9. CASE span > 259200
  <2>1. /\ ~(span <= 3 * Hour) /\ ~(span \in 3 * Hour + 1 .. 12 * Hour)
        /\ ~(span \in 12 * Hour + 1 .. 48 * Hour) /\ ~(span \in 48 * Hour + 1 .. 31 * Day)
        /\ ~(span \in 31 * Day + 1 .. 180 * Day) /\ span > 180 * Day
    BY <1>9, SpanBounds
  <2>2. base = "1M" BY <1>3, <2>1, Zenon DEF BaseKindForSpan
  <2> QED BY <1>1, <1>3, <2>1, <2>2 DEF FewPoints, WidthKinds
<1> QED BY <1>4, <1>5, <1>6, <1>7, <1>8, <1>9

LEMMA KindFits ==
    ASSUME NEW from \in Nat, NEW to \in Nat, from <= to
    PROVE  LET kind == ResolveBucketKind(from, to)
           IN  /\ kind \in WidthKinds \cup {"1M"} /\ (kind = "1M" <=> to - from > 180 * Day)
               /\ kind \in WidthKinds => EstimatePointCount(from, to, kind) <= MaxBucketPoints
<1> DEFINE fits(i) == EstimatePointCount(from, to, KindOrder[i]) <= MaxBucketPoints \/ i = 6
<1>1. Len(KindOrder) = 6 BY DEF KindOrder
<1>2. /\ KindOrder[1] = "15m" /\ KindOrder[2] = "30m" /\ KindOrder[3] = "1h"
      /\ KindOrder[4] = "1d" /\ KindOrder[5] = "1w" /\ KindOrder[6] = "1M"
  BY DEF KindOrder
<1>3. PICK base : base = BaseKindForSpan(to - from) OBVIOUS
<1>4. FewPoints(from, to, base) BY <1>3, BaseFits
<1>5. PICK b \in 1 .. 6 : b = Rank(base) /\ KindOrder[b] = base
  BY <1>2, <1>4, Ranks DEF WidthKinds, FewPoints
<1>6. /\ base = "1M" <=> to - from > 180 * Day
      /\ b = 6 <=> base = "1M"
      /\ b # 3 => fits(b)
      /\ b = 3 => fits(4)
  BY <1>2, <1>4, <1>5 DEF WidthKinds, FewPoints
<1> HIDE DEF fits
<1>7. \E i \in b .. 6 : fits(i) /\ \A j \in b .. i - 1 : ~fits(j)
  <2>1. CASE fits(b) BY <2>1
  <2>2. CASE ~fits(b)
    <3>1. b = 3 /\ fits(4) BY <1>6, <2>2
    <3>2. 4 \in b .. 6 /\ \A j \in b .. 4 - 1 : ~fits(j) BY <2>2, <3>1
    <3> QED BY <3>1, <3>2
  <2> QED BY <2>1, <2>2
<1>8. PICK i : i = CHOOSE k \in b .. 6 : fits(k) /\ \A j \in b .. k - 1 : ~fits(j) OBVIOUS
<1>9. i \in b .. 6 /\ fits(i) /\ \A j \in b .. i - 1 : ~fits(j) BY <1>7, <1>8, Zenon
<1>10. ResolveBucketKind(from, to) = KindOrder[i]
  BY <1>1, <1>3, <1>5, <1>8, Zenon DEF ResolveBucketKind, fits
<1>11. i = 6 => b = 6
  <2> SUFFICES ASSUME i = 6, b # 6 PROVE FALSE OBVIOUS
  <2>1. b \in b .. i - 1 BY <1>9
  <2>2. b = 3 /\ fits(4) BY <1>6, <1>9, <2>1
  <2>3. 4 \in b .. i - 1 BY <2>2
  <2> QED BY <1>9, <2>2, <2>3
<1>12. i \in 1 .. 6 /\ (i = 6 <=> b = 6) BY <1>9, <1>11
<1>13. KindOrder[i] \in WidthKinds \cup {"1M"} /\ (KindOrder[i] = "1M" <=> i = 6)
  BY <1>2, <1>12 DEF WidthKinds
<1>14. i # 6 => EstimatePointCount(from, to, KindOrder[i]) <= MaxBucketPoints BY <1>9 DEF fits
<1>15. KindOrder[i] \in WidthKinds => i # 6 BY <1>2 DEF WidthKinds
<1> QED BY <1>6, <1>10, <1>12, <1>13, <1>14, <1>15

(* A range of half a year is of few months. *)
LEMMA FewMonths ==
    ASSUME NEW from \in Nat, NEW to \in Nat, from <= to, DayOf(to) \in Calendar, to - from <= 180 * Day
    PROVE  MonthsOf(from, to) <= MaxBucketPoints
<1>1. DayOf(from) \in Calendar /\ DayOf(from) <= DayOf(to) BY DaysGrow
<1>2. PICK a \in 0 .. LastMonth - 1 : a = MonthOf(DayOf(from)) BY <1>1, MonthHolds
<1>3. PICK b \in 0 .. LastMonth - 1 : b = MonthOf(DayOf(to)) BY MonthHolds
<1>4. /\ MonthStart[a + 1] \in Nat /\ DayOf(from) < MonthStart[a + 1]
      /\ MonthStart[b] \in Nat /\ MonthStart[b] <= DayOf(to)
      /\ DayOf(from) \in Nat /\ DayOf(to) \in Nat /\ LastMonth \in Nat
  BY <1>1, <1>2, <1>3, MonthHolds, CalendarType
<1>5. DayOf(to) - DayOf(from) <= 181 BY SMTT(30) DEF DayOf, Day, Hour
<1>6. CASE a + 1 <= b
  <2>1. a + 1 \in 0 .. LastMonth + 1 /\ b \in 0 .. LastMonth + 1 BY <1>4
  <2>2. MonthStart[b] - MonthStart[a + 1] >= 28 * (b - (a + 1)) BY <1>6, <2>1, MonthsApart
  <2> QED BY <1>2, <1>3, <1>4, <1>5, <2>2 DEF MonthsOf, MaxBucketPoints
<1>7. CASE ~(a + 1 <= b) BY <1>2, <1>3, <1>4, <1>7 DEF MonthsOf, MaxBucketPoints
<1> QED BY <1>6, <1>7

(* The bucket of a month is on the axis of months when it is one of the    *)
(* first MaxGuard of the range.                                            *)
LEMMA MonthOnAxis ==
    ASSUME NEW from \in Nat, NEW to \in Nat, DayOf(to) \in Calendar, NEW t \in from .. to
    PROVE  BucketKeyFor(t, "1M") \in BuildBucketAxis(from, to, "1M") <=> MonthsOf(from, t) <= MaxGuard
<1>1. t \in Nat /\ from <= t /\ t <= to OBVIOUS
<1>2. DayOf(t) \in Calendar /\ DayOf(t) <= DayOf(to) BY <1>1, DaysGrow
<1>3. DayOf(from) \in Calendar /\ DayOf(from) <= DayOf(t) BY <1>1, <1>2, DaysGrow
<1>4. PICK a \in 0 .. LastMonth - 1 : a = MonthOf(DayOf(from)) BY <1>3, MonthHolds
<1>5. PICK c \in 0 .. LastMonth - 1 : c = MonthOf(DayOf(t)) BY <1>2, MonthHolds
<1>6. PICK b \in 0 .. LastMonth - 1 : b = MonthOf(DayOf(to)) BY MonthHolds
<1>7. a <= c /\ c <= b BY <1>2, <1>3, <1>4, <1>5, <1>6, MonthsGrow
<1>8. LastMonth \in Nat /\ \A m \in 0 .. LastMonth + 1 : MonthStart[m] \in Nat BY CalendarType
<1>9. BuildBucketAxis(from, to, "1M")
        = {MonthStart[a + i] * Day : i \in {j \in 0 .. b - a : j < MaxGuard}}
  <2>1. from <= to /\ MonthsOf(from, to) = b - a + 1 BY <1>1, <1>4, <1>6 DEF MonthsOf
  <2>2. PICK n \in Nat : n = MonthsOf(from, to) BY <2>1, MonthAxis
  <2>3. BuildBucketAxis(from, to, "1M")
          = {MonthStart[a + i] * Day : i \in {j \in 0 .. n - 1 : j < MaxGuard}}
    BY <1>4, <2>1, <2>2, MonthAxis
  <2>4. n - 1 = b - a BY <1>8, <2>1, <2>2
  <2> QED BY <2>3, <2>4
<1>10. BucketKeyFor(t, "1M") = MonthStart[c] * Day BY <1>5 DEF BucketKeyFor, AlignBucketStart
<1>11. MonthsOf(from, t) = c - a + 1 BY <1>4, <1>5 DEF MonthsOf
<1>12. MaxGuard = 56 BY DEF MaxGuard, MaxBucketPoints
<1>13. CASE c - a + 1 <= 56
  <2>1. c - a \in {j \in 0 .. b - a : j < MaxGuard} /\ a + (c - a) = c BY <1>7, <1>8, <1>12, <1>13
  <2>2. MonthStart[c] * Day \in BuildBucketAxis(from, to, "1M") BY <1>9, <2>1
  <2> QED BY <1>10, <1>11, <1>12, <1>13, <2>2
<1>14. CASE ~(c - a + 1 <= 56)
  <2>1. ASSUME NEW i \in 0 .. b - a, i < MaxGuard PROVE MonthStart[a + i] * Day # MonthStart[c] * Day
    <3>1. a + i \in 0 .. LastMonth + 1 /\ c \in 0 .. LastMonth + 1 /\ a + i < c
      BY <1>8, <1>12, <1>14, <2>1
    <3>2. MonthStart[a + i] < MonthStart[c] BY <3>1, MonthsInOrder
    <3>3. MonthStart[a + i] \in Nat /\ MonthStart[c] \in Nat BY <1>8, <3>1
    <3> QED BY <3>2, <3>3 DEF Day, Hour
  <2>2. MonthStart[c] * Day \notin BuildBucketAxis(from, to, "1M") BY <1>9, <2>1
  <2> QED BY <1>10, <1>11, <1>12, <1>14, <2>2
<1> QED BY <1>13, <1>14

(* Every request of a range has its bucket on the axis exactly when the    *)
(* range has at most MaxGuard months (resolveBucketKind, buildBucketAxis   *)
(* and bucketKeyFor, for any two minutes of any calendar).     *)
THEOREM CountedInFull ==
    ASSUME NEW from \in Nat, NEW to \in Nat, from <= to, DayOf(to) \in Calendar
    PROVE  LET kind == ResolveBucketKind(from, to)
               axis == BuildBucketAxis(from, to, kind)
           IN  (\A t \in from .. to : BucketKeyFor(t, kind) \in axis) <=> MonthsOf(from, to) <= MaxGuard
<1>1. PICK kind : kind = ResolveBucketKind(from, to) OBVIOUS
<1>2. /\ kind \in WidthKinds \cup {"1M"} /\ (kind = "1M" <=> to - from > 180 * Day)
      /\ kind \in WidthKinds => EstimatePointCount(from, to, kind) <= MaxBucketPoints
  BY <1>1, KindFits
<1>3. PICK axis : axis = BuildBucketAxis(from, to, kind) OBVIOUS
<1> SUFFICES (\A t \in from .. to : BucketKeyFor(t, kind) \in axis) <=> MonthsOf(from, to) <= MaxGuard
  BY <1>1, <1>3
<1>4. MonthsOf(from, to) \in Nat BY MonthAxis
<1>5. CASE kind \in WidthKinds
  <2>1. \A t \in from .. to : BucketKeyFor(t, kind) \in axis BY <1>2, <1>3, <1>5, WidthAxis
  <2>2. to - from <= 180 * Day BY <1>2, <1>5, SpanBounds DEF WidthKinds
  <2>3. MonthsOf(from, to) <= MaxBucketPoints BY <2>2, FewMonths
  <2>4. MonthsOf(from, to) <= MaxGuard BY <1>4, <2>3 DEF MaxGuard, MaxBucketPoints
  <2> QED BY <2>1, <2>4
<1>6. CASE kind = "1M"
  <2>1. \A t \in from .. to : BucketKeyFor(t, kind) \in axis <=> MonthsOf(from, t) <= MaxGuard
    BY <1>3, <1>6, MonthOnAxis
  <2>2. \A t \in from .. to : MonthsOf(from, t) <= MonthsOf(from, to)
    <3> SUFFICES ASSUME NEW t \in from .. to PROVE MonthsOf(from, t) <= MonthsOf(from, to) OBVIOUS
    <3>1. t \in Nat /\ from <= t /\ t <= to OBVIOUS
    <3>2. DayOf(t) \in Calendar /\ DayOf(t) <= DayOf(to) BY <3>1, DaysGrow
    <3>3. DayOf(from) \in Calendar BY <3>1, <3>2, DaysGrow
    <3>4. PICK a \in 0 .. LastMonth - 1 : a = MonthOf(DayOf(from)) BY <3>3, MonthHolds
    <3>5. PICK c \in 0 .. LastMonth - 1 : c = MonthOf(DayOf(t)) BY <3>2, MonthHolds
    <3>6. PICK b \in 0 .. LastMonth - 1 : b = MonthOf(DayOf(to)) BY MonthHolds
    <3>7. c <= b BY <3>2, <3>5, <3>6, MonthsGrow
    <3> QED BY <3>4, <3>5, <3>6, <3>7, CalendarType DEF MonthsOf
  <2>3. \A t \in from .. to : MonthsOf(from, t) \in Int
    <3> SUFFICES ASSUME NEW t \in from .. to PROVE MonthsOf(from, t) \in Int OBVIOUS
    <3>1. t \in Nat /\ from <= t /\ t <= to OBVIOUS
    <3>2. DayOf(t) \in Calendar BY <3>1, DaysGrow
    <3> QED BY <3>1, <3>2, MonthAxis
  <2>4. MaxGuard \in Nat BY DEF MaxGuard, MaxBucketPoints
  <2>5. to \in from .. to OBVIOUS
  <2> QED BY <1>4, <2>1, <2>2, <2>3, <2>4, <2>5
<1> QED BY <1>2, <1>5, <1>6

(* And the axis has at most MaxBucketPoints points, when the range has no  *)
(* more months.                                                            *)
LEMMA FewEnoughPoints ==
    ASSUME NEW from \in Nat, NEW to \in Nat, from <= to, DayOf(to) \in Calendar,
           MonthsOf(from, to) <= MaxBucketPoints
    PROVE  LET axis == BuildBucketAxis(from, to, ResolveBucketKind(from, to))
           IN  IsFiniteSet(axis) /\ Cardinality(axis) <= MaxBucketPoints
<1>1. PICK kind : kind = ResolveBucketKind(from, to) OBVIOUS
<1>2. /\ kind \in WidthKinds \cup {"1M"}
      /\ kind \in WidthKinds => EstimatePointCount(from, to, kind) <= MaxBucketPoints
  BY <1>1, KindFits
<1>3. \E n \in Nat : \E p : n <= MaxBucketPoints /\ BuildBucketAxis(from, to, kind) \subseteq {p[i] : i \in 0 .. n - 1}
  <2>1. CASE kind \in WidthKinds BY <1>2, <2>1, WidthAxis
  <2>2. CASE kind = "1M"
    <3>1. PICK n \in Nat : n = MonthsOf(from, to) BY MonthAxis
    <3>2. PICK a : a = MonthOf(DayOf(from)) OBVIOUS
    <3>3. PICK p : p = [i \in 0 .. n - 1 |-> MonthStart[a + i] * Day] OBVIOUS
    <3>4. BuildBucketAxis(from, to, kind) = {MonthStart[a + i] * Day : i \in {j \in 0 .. n - 1 : j < MaxGuard}}
      BY <2>2, <3>1, <3>2, MonthAxis
    <3>5. BuildBucketAxis(from, to, kind) \subseteq {p[i] : i \in 0 .. n - 1} BY <3>3, <3>4
    <3> QED BY <3>1, <3>5
  <2> QED BY <1>2, <2>1, <2>2
<1>4. PICK n \in Nat :
         \E p : n <= MaxBucketPoints /\ BuildBucketAxis(from, to, kind) \subseteq {p[i] : i \in 0 .. n - 1}
  BY <1>3
<1>5. PICK p : n <= MaxBucketPoints /\ BuildBucketAxis(from, to, kind) \subseteq {p[i] : i \in 0 .. n - 1}
  BY <1>4
<1> DEFINE points == {p[i] : i \in 0 .. n - 1}
<1>6. IsFiniteSet(0 .. n - 1) /\ Cardinality(0 .. n - 1) = n
  <2>1. 0 \in Int /\ n - 1 \in Int OBVIOUS
  <2> QED BY <2>1, FS_Interval
<1>7. [i \in 0 .. n - 1 |-> p[i]] \in Surjection(0 .. n - 1, points) BY DEF Surjection
<1> HIDE DEF points
<1>8. IsFiniteSet(points) /\ Cardinality(points) <= n BY <1>6, <1>7, FS_Surjection
<1>9. BuildBucketAxis(from, to, kind) \subseteq points BY <1>5 DEF points
<1>10. /\ IsFiniteSet(BuildBucketAxis(from, to, kind))
      /\ Cardinality(BuildBucketAxis(from, to, kind)) <= Cardinality(points)
  BY <1>8, <1>9, FS_Subset
<1>11. Cardinality(BuildBucketAxis(from, to, kind)) \in Nat /\ Cardinality(points) \in Nat
  BY <1>8, <1>10, FS_CardinalityType
<1> QED BY <1>1, <1>5, <1>8, <1>10, <1>11 DEF MaxBucketPoints

(***************************************************************************)
(* One tab.  The types that the invariants of the pages leave out, and the *)
(* page the tab is on.                                                     *)
(***************************************************************************)
UsageFlags == {ready, uLoading, uError, syncing, crossed} \subseteq BOOLEAN /\ uShown <= uSeq

LEMMA UsageFlagsNext ==
    UsageInv /\ UsageFlags /\ [UsageNext]_<<pageVars, usageVars>> => UsageFlags'
<1> SUFFICES ASSUME UsageInv, UsageFlags, [UsageNext]_<<pageVars, usageVars>> PROVE UsageFlags'
  OBVIOUS
<1>1. uSeq \in Nat /\ uShown \in Nat /\ \A l \in loads : l.seq \in 1 .. uSeq
  BY DEF UsageInv, UsageTyped, LoadsNumbered
<1>2. ASSUME NEW a \in AccountIds, ChooseAccount(a) PROVE UsageFlags'
  <2>1. /\ ready' = (ready \/ a # AllAccounts) /\ crossed' = (sync # NoSync)
        /\ UNCHANGED <<uError, syncing, uShown>>
    BY <1>2 DEF ChooseAccount
  <2>2. /\ uLoading' \in {uLoading, TRUE} /\ uSeq' \in {uSeq, uSeq + 1}
    BY <1>2 DEF ChooseAccount, StartLoad
  <2>3. uShown <= uSeq' BY <1>1, <2>2 DEF UsageFlags
  <2>4. {ready', crossed'} \subseteq BOOLEAN BY <2>1
  <2>5. uLoading' \in BOOLEAN BY <2>2 DEF UsageFlags
  <2> QED BY <2>1, <2>3, <2>4, <2>5 DEF UsageFlags
<1>3. CASE RunSync
  <2>1. uError' \in {uError, TRUE} /\ syncing' \in {syncing, TRUE}
        /\ UNCHANGED <<ready, uLoading, uSeq, uShown, crossed>>
    BY <1>3 DEF RunSync
  <2> QED BY <2>1 DEF UsageFlags
<1>4. CASE SyncDone
  <2>1. uError' = FALSE /\ uLoading' = TRUE /\ uSeq' = uSeq + 1
        /\ UNCHANGED <<ready, syncing, uShown, crossed>>
    BY <1>4 DEF SyncDone, StartLoad
  <2>2. uShown' <= uSeq' BY <1>1, <2>1 DEF UsageFlags
  <2> QED BY <2>1, <2>2 DEF UsageFlags
<1>5. CASE SyncFails BY <1>1, <1>5 DEF SyncFails, UsageFlags
<1>6. ASSUME NEW l \in loads, LoadDropped(l) PROVE UsageFlags'
  BY <1>1, <1>6 DEF LoadDropped, EndLoad, UsageFlags
<1>7. ASSUME NEW l \in loads, AccountsArrive(l) PROVE UsageFlags'
  <2>1. PICK resolved : ready' = (ready \/ resolved # AllAccounts)
    BY <1>7 DEF AccountsArrive
  <2>2. UNCHANGED <<uLoading, uError, syncing, uSeq, uShown, crossed>> BY <1>7 DEF AccountsArrive
  <2> QED BY <2>1, <2>2 DEF UsageFlags
<1>8. ASSUME NEW l \in loads, UsageArrives(l) PROVE UsageFlags'
  <2>1. /\ uShown' = uSeq /\ uError' = FALSE /\ uLoading' = FALSE /\ syncing' \in {FALSE, syncing}
        /\ UNCHANGED <<ready, uSeq, crossed>>
    BY <1>8 DEF UsageArrives, EndLoad, Current
  <2>2. uShown' <= uSeq' BY <1>1, <2>1
  <2> QED BY <2>1, <2>2 DEF UsageFlags
<1>9. ASSUME NEW l \in loads, LoadFails(l) PROVE UsageFlags'
  BY <1>1, <1>9 DEF LoadFails, EndLoad, UsageFlags
<1>10. CASE UNCHANGED <<pageVars, usageVars>> BY <1>10 DEF usageVars, UsageFlags
<1> QED BY <1>2, <1>3, <1>4, <1>5, <1>6, <1>7, <1>8, <1>9, <1>10 DEF UsageNext

LEMMA UsageTypesInit == InitPage /\ UsageInit => UsageInv /\ UsageTypeOK
<1> SUFFICES ASSUME InitPage, UsageInit PROVE UsageInv /\ UsageTypeOK OBVIOUS
<1>1. UsageInv BY UsageInitInv
<1>2. ready = FALSE /\ uLoading = TRUE /\ uError = FALSE /\ syncing = FALSE /\ crossed = FALSE
      /\ uShown = 0 /\ uSeq = 1
  BY DEF UsageInit
<1>3. UsageTyped BY <1>1 DEF UsageInv
<1>4. {ready, uLoading, uError, syncing, crossed} \subseteq BOOLEAN BY <1>2
<1>5. uShown \in 0 .. uSeq BY <1>2
<1> QED BY <1>1, <1>3, <1>4, <1>5 DEF UsageTyped, UsageTypeOK

LEMMA UsageTypesNext ==
    UsageInv /\ UsageTypeOK /\ [UsageNext]_<<pageVars, usageVars>> => UsageInv' /\ UsageTypeOK'
<1> SUFFICES ASSUME UsageInv, UsageTypeOK, [UsageNext]_<<pageVars, usageVars>>
             PROVE  UsageInv' /\ UsageTypeOK'
  OBVIOUS
<1>1. UsageFlags BY DEF UsageTypeOK, UsageFlags
<1>2. UsageInv' /\ UsageFlags' BY <1>1, UsageNextInv, UsageFlagsNext
<1>3. UsageTyped' BY <1>2 DEF UsageInv
<1> QED BY <1>2, <1>3 DEF UsageTyped, UsageFlags, UsageTypeOK

OverviewParts ==
    /\ {oLoading, oError, softError} \subseteq BOOLEAN
    /\ data \in Windows \cup {NoWindow} /\ {logs, usage} \subseteq Ranges \cup {NoRange}

(* Every range has a window nearest to it. *)
LEMMA NearestIsWindow == ASSUME NEW r \in Ranges PROVE NearestOpsWindow(r) \in Windows
<1>1. PICK n \in Nat : n = r.minutes BY OverviewAssumption
<1>2. r.minutes <= 90 \/ r.minutes \in 91 .. 36 * 60 \/ r.minutes > 36 * 60
  <2>1. n <= 90 \/ n \in 91 .. 2160 \/ n > 2160 OBVIOUS
  <2>2. 36 * 60 = 2160 OBVIOUS
  <2> QED BY <1>1, <2>1, <2>2
<1>3. OpsWindowForRange(r) \in {"7d", NoWindow} BY DEF OpsWindowForRange
<1>4. NearestOpsWindow(r) \in {"7d", "1h", "24h"}
  <2>1. CASE OpsWindowForRange(r) # NoWindow
    BY <1>3, <2>1, Zenon DEF NearestOpsWindow
  <2>2. CASE OpsWindowForRange(r) = NoWindow
    BY <1>2, <2>2, Zenon DEF NearestOpsWindow
  <2> QED BY <2>1, <2>2
<1> QED BY <1>4 DEF Windows

LEMMA OverviewPartsNext ==
    OverviewInv /\ OverviewParts /\ [OverviewNext]_<<pageVars, overviewVars>> => OverviewParts'
<1> SUFFICES ASSUME OverviewInv, OverviewParts, [OverviewNext]_<<pageVars, overviewVars>>
             PROVE  OverviewParts'
  OBVIOUS
<1>1. \A f \in oLoads : f.range \in Ranges BY DEF OverviewInv, FetchesTyped, Fetch
<1>2. CASE (\E r \in Ranges : ChooseRange(r)) \/ RefreshSoftly \/ Retry
  <2>1. /\ oLoading' \in {oLoading, TRUE} /\ UNCHANGED <<data, logs, usage, oError, softError>>
    BY <1>2 DEF ChooseRange, RefreshSoftly, Retry, StartFetch, OverviewParts
  <2> QED BY <2>1 DEF OverviewParts
<1>3. ASSUME NEW f \in oLoads, FetchDropped(f) PROVE OverviewParts'
  BY <1>3 DEF FetchDropped, OverviewParts
<1>4. ASSUME NEW f \in oLoads, OverviewArrives(f) PROVE OverviewParts'
  <2>1. data' = NearestOpsWindow(f.range) /\ oError' = FALSE /\ softError' = FALSE
        /\ UNCHANGED <<logs, usage, oLoading>>
    BY <1>4 DEF OverviewArrives
  <2>2. data' \in Windows BY <1>1, <2>1, NearestIsWindow
  <2> QED BY <2>1, <2>2 DEF OverviewParts
<1>5. ASSUME NEW f \in oLoads, SeriesSettle(f) PROVE OverviewParts'
  <2>1. PICK gotLogs, gotUsage \in BOOLEAN :
          /\ logs' = Settled(f, gotLogs, logs) /\ usage' = Settled(f, gotUsage, usage)
          /\ softError' = (softError \/ (f.soft /\ ~(gotLogs /\ gotUsage)))
          /\ oLoading' = FALSE /\ UNCHANGED <<data, oError>>
    BY <1>5 DEF SeriesSettle
  <2>2. {logs', usage'} \subseteq Ranges \cup {NoRange} BY <1>1, <2>1 DEF Settled, OverviewParts
  <2>3. softError' \in BOOLEAN BY <2>1
  <2> QED BY <2>1, <2>2, <2>3 DEF OverviewParts
<1>6. ASSUME NEW f \in oLoads, OverviewFails(f) PROVE OverviewParts'
  BY <1>6 DEF OverviewFails, OverviewParts
<1>7. CASE UNCHANGED <<pageVars, overviewVars>> BY <1>7 DEF overviewVars, OverviewParts
<1> QED BY <1>2, <1>3, <1>4, <1>5, <1>6, <1>7 DEF OverviewNext

LEMMA OverviewTypesInit == InitPage /\ OverviewInit => OverviewInv /\ OverviewTypeOK
<1> SUFFICES ASSUME InitPage, OverviewInit PROVE OverviewInv /\ OverviewTypeOK OBVIOUS
<1>1. OverviewInv BY OverviewInitInv
<1> QED BY <1>1 DEF OverviewInv, FetchesTyped, OverviewTypeOK, OverviewInit

LEMMA OverviewTypesNext ==
    OverviewInv /\ OverviewTypeOK /\ [OverviewNext]_<<pageVars, overviewVars>>
        => OverviewInv' /\ OverviewTypeOK'
<1> SUFFICES ASSUME OverviewInv, OverviewTypeOK, [OverviewNext]_<<pageVars, overviewVars>>
             PROVE  OverviewInv' /\ OverviewTypeOK'
  OBVIOUS
<1>1. OverviewParts BY DEF OverviewTypeOK, OverviewParts
<1>2. OverviewInv' /\ OverviewParts' BY <1>1, OverviewNextInv, OverviewPartsNext
<1>3. FetchesTyped' BY <1>2 DEF OverviewInv
<1> QED BY <1>2, <1>3 DEF FetchesTyped, OverviewParts, OverviewTypeOK

LEMMA SettingsTypesInit == InitPage /\ SettingsInit => SettingsInv /\ FlagsInv /\ SettingsTypeOK
<1> SUFFICES ASSUME InitPage, SettingsInit PROVE SettingsInv /\ FlagsInv /\ SettingsTypeOK OBVIOUS
<1>1. SettingsInv /\ FlagsInv /\ SettingsFlags BY SettingsInitInv, FlagsInit
<1>2. GoodPolicy \subseteq Policy BY GoodIsValid
<1>3. overlapped = FALSE /\ sFresh = FALSE BY DEF SettingsInit
<1> QED BY <1>1, <1>2, <1>3 DEF SettingsInv, PoliciesGood, SettingsFlags, SettingsTypeOK

LEMMA ServerFlags ==
    ASSUME SettingsInv, {overlapped, sFresh} \subseteq BOOLEAN, [SettingsNext]_<<pageVars, settingsVars>>
    PROVE  {overlapped', sFresh'} \subseteq BOOLEAN
<1>1. \A c \in Calls : sCall[c].fresh \in BOOLEAN BY DEF SettingsInv, PoliciesGood, CallRecord
<1>2. ASSUME NEW c \in Calls, StoreField(c) PROVE overlapped' \in BOOLEAN /\ sFresh' \in BOOLEAN
  <2>1. \/ overlapped' = overlapped
        \/ overlapped' = \E d \in Calls : MidPatch(d)
    BY <1>2, Zenon DEF StoreField
  <2>2. sFresh' \in {sFresh, FALSE} BY <1>2, Zenon DEF StoreField
  <2>3. (\E d \in Calls : MidPatch(d)) \in BOOLEAN BY Zenon
  <2>4. overlapped' \in BOOLEAN BY <2>1, <2>3, Zenon
  <2> QED BY <2>2, <2>4
<1>3. CASE EditDraft \/ DiscardPoolDraft \/ Restart \/ UNCHANGED <<pageVars, settingsVars>>
  BY <1>3 DEF EditDraft, DiscardPoolDraft, ServerKeeps, Restart, settingsVars
<1>4. ASSUME NEW c \in Calls,
             \/ RefreshSettings(c) \/ OnSavePool(c) \/ OnChangePassword(c) \/ ReadField(c)
             \/ PatchElsewhere(c) \/ PasswordChanged(c) \/ CallFailed(c) \/ CallUnauthorized(c)
      PROVE  UNCHANGED <<overlapped, sFresh>>
  BY <1>4 DEF RefreshSettings, OnSavePool, OnChangePassword, ReadField, PatchElsewhere, PasswordChanged,
              CallFailed, CallUnauthorized, ServerKeeps
<1>5. ASSUME NEW c \in Calls, SettingsArrive(c) \/ PoolSaved(c)
      PROVE  overlapped' = overlapped /\ sFresh' = sCall[c].fresh
  BY <1>5 DEF SettingsArrive, PoolSaved, ApplyPoolSnapshot
<1> QED BY <1>1, <1>2, <1>3, <1>4, <1>5 DEF SettingsNext

LEMMA SettingsTypesNext ==
    SettingsInv /\ FlagsInv /\ SettingsTypeOK /\ [SettingsNext]_<<pageVars, settingsVars>>
        => SettingsInv' /\ FlagsInv' /\ SettingsTypeOK'
<1> SUFFICES ASSUME SettingsInv, FlagsInv, SettingsTypeOK, [SettingsNext]_<<pageVars, settingsVars>>
             PROVE  SettingsInv' /\ FlagsInv' /\ SettingsTypeOK'
  OBVIOUS
<1>1. SettingsFlags BY DEF SettingsTypeOK, SettingsFlags
<1>2. SettingsInv' /\ FlagsInv' /\ SettingsFlags' BY <1>1, SettingsNextInv, FlagsNext
<1>3. PoliciesGood' BY <1>2 DEF SettingsInv
<1>4. GoodPolicy \subseteq Policy BY GoodIsValid
<1>5. {overlapped', sFresh'} \subseteq BOOLEAN BY ServerFlags DEF SettingsTypeOK
<1> QED BY <1>2, <1>3, <1>4, <1>5 DEF PoliciesGood, SettingsFlags, SettingsTypeOK

(* What a page does to the page it is on. *)
LEMMA PageMoves ==
    ASSUME PageTypeOK,
           \/ Click \/ Arrives \/ Fails \/ SignsOut \/ UNCHANGED pageVars
           \/ /\ at' \in {"page", "login"} /\ clicks' \in {clicks, clicks + 1}
              /\ faults' \in {faults, faults + 1}
              /\ clicks' # clicks => clicks < MaxClicks
              /\ faults' # faults => faults < MaxFaults
    PROVE  PageTypeOK'
<1>1. MaxClicks \in Nat /\ MaxFaults \in Nat BY PageAssumption
<1> QED BY <1>1 DEF PageTypeOK, Click, Arrives, Fails, SignsOut, Fault, pageVars

LEMMA UsagePage == PageTypeOK /\ UsageNext => PageTypeOK'
<1> SUFFICES ASSUME PageTypeOK, UsageNext PROVE PageTypeOK' OBVIOUS
<1>1. Click \/ Arrives \/ Fails \/ SignsOut
  BY Zenon DEF UsageNext, ChooseAccount, RunSync, SyncDone, SyncFails, LoadDropped, AccountsArrive,
               UsageArrives, LoadFails
<1> QED BY <1>1, PageMoves

LEMMA PanelPage == PageTypeOK /\ PanelNext => PageTypeOK'
<1> SUFFICES ASSUME PageTypeOK, PanelNext PROVE PageTypeOK' OBVIOUS
<1>1. Click \/ Arrives \/ Fails \/ SignsOut
  BY Zenon DEF PanelNext, Refresh, ServePanel, AnswerShown, CallFails, ServerMovesOn, TurnPage,
               ChooseFilter, ListChanges
<1> QED BY <1>1, PageMoves

LEMMA OverviewPageMoves == PageTypeOK /\ OverviewNext => PageTypeOK'
<1> SUFFICES ASSUME PageTypeOK, OverviewNext PROVE PageTypeOK' OBVIOUS
<1>1. Click \/ Arrives \/ Fails \/ SignsOut
  BY Zenon DEF OverviewNext, ChooseRange, RefreshSoftly, Retry, FetchDropped, OverviewArrives,
               SeriesSettle, OverviewFails
<1> QED BY <1>1, PageMoves

LEMMA SettingsPageMoves == PageTypeOK /\ SettingsNext => PageTypeOK'
<1> SUFFICES ASSUME PageTypeOK, SettingsNext PROVE PageTypeOK' OBVIOUS
<1>1. \/ Click \/ Arrives \/ Fails \/ SignsOut
      \/ at' = "login" /\ clicks' = clicks /\ faults' = faults
  BY Zenon DEF SettingsNext, EditDraft, DiscardPoolDraft, Restart, RefreshSettings, OnSavePool,
               OnChangePassword, Send, StoreField, ReadField, PatchElsewhere, SettingsArrive, PoolSaved,
               ApplyPoolSnapshot, PasswordChanged, CallFailed, CallUnauthorized
<1> QED BY <1>1, PageMoves

LEMMA SessionPage == PageTypeOK /\ SessionInv /\ SessionNext => PageTypeOK'
<1> SUFFICES ASSUME PageTypeOK, SessionInv, SessionNext PROVE PageTypeOK' OBVIOUS
<1>1. at' \in {"page", "login"}
  BY SessionNextInv DEF SessionInv
<1>2. \/ clicks < MaxClicks /\ clicks' = clicks + 1 /\ faults' = faults
      \/ faults < MaxFaults /\ faults' = faults + 1 /\ clicks' = clicks
      \/ clicks' = clicks /\ faults' = faults
  <2>1. CASE SessionsEnd BY <2>1 DEF SessionsEnd
  <2>2. ASSUME NEW c \in Calls, RetryGate(c) \/ SwitchLanguage(c) \/ CallFromPage(c) \/ OnSubmit(c)
        PROVE  clicks < MaxClicks /\ clicks' = clicks + 1 /\ faults' = faults
    BY <2>2 DEF RetryGate, SwitchLanguage, CallFromPage, OnSubmit, Touch
  <2>3. ASSUME NEW c \in Calls, NEW d \in Calls, HandleLogout(c, d)
        PROVE  clicks < MaxClicks /\ clicks' = clicks + 1 /\ faults' = faults
    BY <2>3 DEF HandleLogout, Touch
  <2>4. ASSUME NEW c \in Calls, Served(c) PROVE clicks' = clicks /\ faults' = faults
    BY <2>4, Zenon DEF Served, ServeCall, ServeLogin, ServeLogout, BrowserWaits, pageVars
  <2>5. ASSUME NEW c \in Calls, Returns(c) PROVE clicks' = clicks /\ faults' = faults
    BY <2>5, Zenon DEF Returns, MeDropped, MeOk, MeUnauthorized, LoginOk, LoginRefused, LogoutOk, LogoutRefused,
                       PageOk, PageUnauthorized, Answered
  <2>6. ASSUME NEW c \in Calls, NoAnswer(c)
        PROVE  faults < MaxFaults /\ faults' = faults + 1 /\ clicks' = clicks
    BY <2>6 DEF NoAnswer
  <2> QED BY <2>1, <2>2, <2>3, <2>4, <2>5, <2>6, Zenon DEF SessionNext
<1> QED BY <1>1, <1>2, PageMoves

(***************************************************************************)
(* The tab: the page on screen keeps its invariant, the others their types. *)
(***************************************************************************)
UsageSide == UsageTypeOK /\ (screen = "usage" => UsageInv)
PanelSide == PanelsTypeOK /\ (screen = "panel" => PanelInv)
OverviewSide == OverviewTypeOK /\ (screen = "overview" => OverviewInv)
SettingsSide == SettingsTypeOK /\ (screen = "settings" => SettingsInv /\ FlagsInv)
SessionSide == SessionTypeOK /\ (screen = "session" => SessionInv)

TabInv ==
    /\ PageTypeOK
    /\ UsageSide /\ PanelSide /\ OverviewSide /\ PickerInv /\ SettingsSide /\ SessionSide

LEMMA TabInit == Init => TabInv
<1> SUFFICES ASSUME Init PROVE TabInv OBVIOUS
<1>1. InitPage /\ UsageInit /\ PanelInit /\ OverviewInit /\ PickerInit /\ SettingsInit /\ SessionInit
  BY DEF Init
<1>2. PageTypeOK BY <1>1, PageAssumption DEF PageTypeOK, InitPage
<1>3. UsageSide BY <1>1, UsageTypesInit DEF UsageSide
<1>4. OverviewSide BY <1>1, OverviewTypesInit DEF OverviewSide
<1>5. PanelSide BY <1>1, PanelInitInv DEF PanelSide, PanelInv
<1>6. SettingsSide BY <1>1, SettingsTypesInit DEF SettingsSide
<1>7. SessionSide BY <1>1, SessionInitInv DEF SessionSide, SessionInv
<1> QED BY <1>1, <1>2, <1>3, <1>4, <1>5, <1>6, <1>7, PickerInitInv DEF TabInv

(* A page that is not on screen stays as it is. *)
LEMMA UsageAside == UsageSide /\ screen # "usage" /\ UNCHANGED <<screen, usageVars>> => UsageSide'
  BY DEF UsageSide, UsageTypeOK, usageVars
LEMMA PanelAside == PanelSide /\ screen # "panel" /\ UNCHANGED <<screen, panelVars>> => PanelSide'
  BY DEF PanelSide, PanelsTypeOK, panelVars
LEMMA OverviewAside ==
    OverviewSide /\ screen # "overview" /\ UNCHANGED <<screen, overviewVars>> => OverviewSide'
  BY DEF OverviewSide, OverviewTypeOK, overviewVars
LEMMA PickerAside == PickerInv /\ UNCHANGED pickerVars => PickerInv'
  BY PickerNextInv
LEMMA SettingsAside ==
    SettingsSide /\ screen # "settings" /\ UNCHANGED <<screen, settingsVars>> => SettingsSide'
  BY DEF SettingsSide, SettingsTypeOK, settingsVars
LEMMA SessionAside ==
    SessionSide /\ screen # "session" /\ UNCHANGED <<screen, sessionVars>> => SessionSide'
  BY DEF SessionSide, SessionTypeOK, sessionVars

LEMMA TabNext == TabInv /\ [Next]_vars => TabInv'
<1> SUFFICES ASSUME TabInv, [Next]_vars PROVE TabInv' OBVIOUS
<1>1. PageTypeOK /\ UsageSide /\ PanelSide /\ OverviewSide /\ PickerInv /\ SettingsSide /\ SessionSide
  BY DEF TabInv
<1>2. CASE On("usage") /\ UsageNext /\ UNCHANGED <<panelVars, overviewVars, pickerVars, settingsVars, sessionVars>>
  <2>1. screen = "usage" /\ screen' = screen BY <1>2 DEF On
  <2>2. UsageSide' BY <1>1, <1>2, <2>1, UsageTypesNext DEF UsageSide
  <2>3. PageTypeOK' BY <1>1, <1>2, UsagePage
  <2> QED
    BY <1>1, <1>2, <2>1, <2>2, <2>3, PanelAside, OverviewAside, PickerAside, SettingsAside, SessionAside
    DEF TabInv
<1>3. CASE On("panel") /\ PanelNext /\ UNCHANGED <<usageVars, overviewVars, pickerVars, settingsVars, sessionVars>>
  <2>1. screen = "panel" /\ screen' = screen BY <1>3 DEF On
  <2>2. PanelSide' BY <1>1, <1>3, <2>1, PanelNextInv DEF PanelSide, PanelInv
  <2>3. PageTypeOK' BY <1>1, <1>3, PanelPage
  <2> QED
    BY <1>1, <1>3, <2>1, <2>2, <2>3, UsageAside, OverviewAside, PickerAside, SettingsAside, SessionAside
    DEF TabInv
<1>4. CASE On("overview") /\ OverviewNext /\ UNCHANGED <<usageVars, panelVars, pickerVars, settingsVars, sessionVars>>
  <2>1. screen = "overview" /\ screen' = screen BY <1>4 DEF On
  <2>2. OverviewSide' BY <1>1, <1>4, <2>1, OverviewTypesNext DEF OverviewSide
  <2>3. PageTypeOK' BY <1>1, <1>4, OverviewPageMoves
  <2> QED
    BY <1>1, <1>4, <2>1, <2>2, <2>3, UsageAside, PanelAside, PickerAside, SettingsAside, SessionAside
    DEF TabInv
<1>5. CASE On("picker") /\ PickerNext
           /\ UNCHANGED <<pageVars, usageVars, panelVars, overviewVars, settingsVars, sessionVars>>
  <2>1. screen = "picker" /\ screen' = screen BY <1>5 DEF On
  <2>2. PickerInv' BY <1>1, <1>5, PickerNextInv
  <2>3. PageTypeOK' BY <1>1, <1>5, PageMoves
  <2> QED
    BY <1>1, <1>5, <2>1, <2>2, <2>3, UsageAside, PanelAside, OverviewAside, SettingsAside, SessionAside
    DEF TabInv
<1>6. CASE On("settings") /\ SettingsNext /\ UNCHANGED <<usageVars, panelVars, overviewVars, pickerVars, sessionVars>>
  <2>1. screen = "settings" /\ screen' = screen BY <1>6 DEF On
  <2>2. SettingsSide' BY <1>1, <1>6, <2>1, SettingsTypesNext DEF SettingsSide
  <2>3. PageTypeOK' BY <1>1, <1>6, SettingsPageMoves
  <2> QED
    BY <1>1, <1>6, <2>1, <2>2, <2>3, UsageAside, PanelAside, OverviewAside, PickerAside, SessionAside
    DEF TabInv
<1>7. CASE OnSession /\ SessionNext
  <2>1. screen = "session" /\ screen' = screen BY <1>7 DEF OnSession, On
  <2>2. SessionInv BY <1>1, <2>1 DEF SessionSide
  <2>3. SessionSide' BY <1>7, <2>1, <2>2, SessionNextInv DEF SessionSide, SessionInv
  <2>4. PageTypeOK' BY <1>1, <1>7, <2>2, SessionPage
  <2> QED
    BY <1>1, <1>7, <2>1, <2>3, <2>4, UsageAside, PanelAside, OverviewAside, PickerAside, SettingsAside
    DEF TabInv, OnSession
<1>8. CASE UNCHANGED vars
  <2>1. UNCHANGED <<screen, pageVars, usageVars, panelVars, overviewVars, pickerVars, settingsVars, sessionVars>>
    BY <1>8 DEF vars
  <2>2. UsageSide'
    BY <1>1, <2>1, UsageNextInv DEF UsageSide, UsageTypeOK, usageVars
  <2>3. PanelSide'
    BY <1>1, <2>1, PanelNextInv DEF PanelSide, PanelsTypeOK, panelVars
  <2>4. OverviewSide'
    BY <1>1, <2>1, OverviewNextInv DEF OverviewSide, OverviewTypeOK, overviewVars
  <2>5. SettingsSide'
    <3>1. SettingsTypeOK' BY <1>1, <2>1 DEF SettingsSide, SettingsTypeOK, settingsVars
    <3>2. screen = "settings" => SettingsInv' /\ FlagsInv'
      BY <1>1, <2>1, SettingsTypesNext DEF SettingsSide
    <3> QED BY <2>1, <3>1, <3>2 DEF SettingsSide
  <2>6. SessionSide'
    BY <1>1, <2>1, SessionNextInv DEF SessionSide, SessionTypeOK, sessionVars
  <2>7. PageTypeOK' BY <1>1, <2>1, PageMoves
  <2> QED BY <1>1, <2>1, <2>2, <2>3, <2>4, <2>5, <2>6, <2>7, PickerAside DEF TabInv
<1> QED BY <1>2, <1>3, <1>4, <1>5, <1>6, <1>7, <1>8 DEF Next

LEMMA TabInvariant == Spec => []TabInv
  BY TabInit, TabNext, PTL DEF Spec

(* Every variable of every page keeps its type, on every screen: the range *)
(* that is applied has its days in the calendar, and no pager, call or     *)
(* session leaves its bounds (all pages of src/web/src/pages).             *)
THEOREM PageTypesCorrect == Spec => []PagesTypeOK
<1>1. PickerInv => PickerTypeOK
  BY CalendarType DEF PickerInv, PickerTypeOK, DraftOK, RangeOK
<1>2. TabInv => PagesTypeOK
  BY <1>1 DEF TabInv, PagesTypeOK, UsageSide, PanelSide, OverviewSide, SettingsSide, SessionSide
<1> QED BY <1>2, TabInvariant, PTL

(* No page is left with a spinner, a skeleton or a disabled button for a   *)
(* call that has come back (the finally blocks of load(), onSavePool and   *)
(* onChangePassword, and the effects of AuthGate and LoginPage), and those *)
(* of the settings and the session lower none before it has.               *)
THEOREM PageSpinnersCorrect == Spec => []SpinnersBacked
<1>1. TabInv /\ screen = "panel" => PanelSpinnersBacked BY DEF TabInv, PanelSide, PanelInv
<1>2. TabInv /\ screen = "overview" => OverviewSpinnerBacked
  BY DEF TabInv, OverviewSide, OverviewInv, OverviewSpinnerBacked
<1>3. TabInv /\ screen = "settings" => SettingsFlagsBacked
  BY DEF TabInv, SettingsSide, FlagsInv, SettingsFlagsBacked
<1>4. TabInv /\ screen = "session" => SessionWaitsBacked BY DEF TabInv, SessionSide, SessionInv
<1>5. TabInv => SpinnersBacked BY <1>1, <1>2, <1>3, <1>4, Zenon DEF SpinnersBacked
<1> QED BY <1>5, TabInvariant, PTL

(***************************************************************************)
(* The range that is picked and its axis.                                  *)
(***************************************************************************)
(* A minute of a range has its bucket on the axis exactly when it is in    *)
(* one of the first MaxGuard months.                                       *)
LEMMA CountedMinute ==
    ASSUME NEW from \in Nat, NEW to \in Nat, from <= to, DayOf(to) \in Calendar, NEW t \in from .. to
    PROVE  LET kind == ResolveBucketKind(from, to)
           IN  BucketKeyFor(t, kind) \in BuildBucketAxis(from, to, kind) <=> MonthsOf(from, t) <= MaxGuard
<1>1. PICK kind : kind = ResolveBucketKind(from, to) OBVIOUS
<1>2. /\ kind \in WidthKinds \cup {"1M"} /\ (kind = "1M" <=> to - from > 180 * Day)
      /\ kind \in WidthKinds => EstimatePointCount(from, to, kind) <= MaxBucketPoints
  BY <1>1, KindFits
<1>3. t \in Nat /\ from <= t /\ t <= to /\ DayOf(t) \in Calendar BY DaysGrow
<1> SUFFICES BucketKeyFor(t, kind) \in BuildBucketAxis(from, to, kind) <=> MonthsOf(from, t) <= MaxGuard
  BY <1>1
<1>4. CASE kind \in WidthKinds
  <2>1. BucketKeyFor(t, kind) \in BuildBucketAxis(from, to, kind) BY <1>2, <1>4, WidthAxis
  <2>2. t - from <= 180 * Day BY <1>2, <1>3, <1>4, SpanBounds DEF WidthKinds
  <2>3. MonthsOf(from, t) <= MaxBucketPoints /\ MonthsOf(from, t) \in Nat
    BY <1>3, <2>2, FewMonths, MonthAxis
  <2>4. MonthsOf(from, t) <= MaxGuard BY <2>3 DEF MaxGuard, MaxBucketPoints
  <2> QED BY <2>1, <2>4
<1>5. CASE kind = "1M" BY <1>5, MonthOnAxis
<1> QED BY <1>2, <1>4, <1>5

LEMMA CountedOf ==
    ASSUME NEW from \in Nat, NEW to \in Nat, from <= to, DayOf(to) \in Calendar,
           NEW times, times \subseteq from .. to
    PROVE  Counted(times, from, to) = {t \in times : MonthsOf(from, t) <= MaxGuard}
<1>1. PICK kind : kind = ResolveBucketKind(from, to) OBVIOUS
<1>2. Counted(times, from, to)
        = {t \in times : t \in from .. to /\ BucketKeyFor(t, kind) \in BuildBucketAxis(from, to, kind)}
  BY <1>1, Zenon DEF Counted
<1>3. \A t \in from .. to :
        BucketKeyFor(t, kind) \in BuildBucketAxis(from, to, kind) <=> MonthsOf(from, t) <= MaxGuard
  BY <1>1, CountedMinute, Zenon
<1> QED BY <1>2, <1>3

LEMMA MomentsOfRange ==
    ASSUME NEW from \in Nat, NEW to \in Nat, from <= to
    PROVE  Moments(from, to) \subseteq from .. to
<1>1. PICK step \in Nat : step = 1 + ((to - from) \div 60) OBVIOUS
<1>2. ASSUME NEW i \in 0 .. 60 PROVE from + i * step \in Nat /\ from <= from + i * step
  <2>1. i \in Nat OBVIOUS
  <2>2. i * step \in Nat BY <2>1
  <2> QED BY <2>2
<1>3. Moments(from, to) = {to} \cup {t \in {from + i * step : i \in 0 .. 60} : t <= to}
  BY <1>1, Zenon DEF Moments
<1> QED BY <1>2, <1>3

LEMMA CountsToTheGuard ==
    ASSUME NEW r, RangeOK(r)
    PROVE  CountedToTheGuard(r.from, r.to)
<1>1. r.from \in Nat /\ r.to \in Nat /\ r.from <= r.to /\ DayOf(r.to) \in Calendar BY DEF RangeOK
<1>2. PICK from \in Nat, to \in Nat : from = r.from /\ to = r.to BY <1>1
<1>3. from <= to /\ DayOf(to) \in Calendar BY <1>1, <1>2
<1>4. Counted(Moments(from, to), from, to) = {t \in Moments(from, to) : MonthsOf(from, t) <= MaxGuard}
  BY <1>3, MomentsOfRange, CountedOf
<1>5. MonthsOf(from, to) <= MaxBucketPoints =>
        Cardinality(BuildBucketAxis(from, to, ResolveBucketKind(from, to))) <= MaxBucketPoints
  BY <1>3, FewEnoughPoints
<1> QED BY <1>2, <1>4, <1>5, Zenon DEF CountedToTheGuard

(* On any calendar, whatever days and presets are clicked: the axis built  *)
(* for the range that is handed on counts the requests of its first        *)
(* MaxGuard months and has a bucket for its end when it is no longer, on   *)
(* at most MaxBucketPoints points when it has as few months                *)
(* (DateRangePicker.tsx; resolveBucketKind, buildBucketAxis and the loop   *)
(* of buildModelAnalytics in time-buckets.ts).                             *)
THEOREM PickedRangesCounted == Spec => []PickedRangeIsCounted
<1>1. Init => Offered BY OfferedInit DEF Init
<1>2. Offered /\ [Next]_vars => Offered'
  <2> SUFFICES ASSUME Offered, [Next]_vars PROVE Offered' OBVIOUS
  <2>1. [PickerNext]_pickerVars BY DEF Next, On, OnSession, vars, pickerVars
  <2> QED BY <2>1, OfferedNext
<1>3. TabInv /\ Offered => PickedRangeIsCounted
  <2> SUFFICES ASSUME PickerInv, Offered PROVE AxisCountsRange BY DEF TabInv, PickedRangeIsCounted
  <2>1. value.from <= value.to /\ (draftTo # NoDay => draftFrom <= draftTo) /\ RangeOK(value)
    BY DEF PickerInv, DraftOK, RangeOK
  <2>2. value \in RangesOffered BY DEF Offered
  <2>3. AxisTable[value] = CountedToTheGuard(value.from, value.to) BY <2>2, Zenon DEF AxisTable
  <2>4. CountedToTheGuard(value.from, value.to) BY <2>1, CountsToTheGuard
  <2> QED BY <2>1, <2>2, <2>3, <2>4, Zenon DEF AxisCountsRange
<1> QED BY <1>1, <1>2, <1>3, TabInvariant, PTL DEF Spec

(* "Ordered continuous axis covering [from, to]" (time-buckets.ts) holds   *)
(* up to MaxBucketPoints + 8 months and never beyond: of the range that is *)
(* applied, and of any minute of it, a request is counted exactly when it  *)
(* is in one of those first months; the guard of buildBucketAxis cuts off  *)
(* the others.                                                             *)
THEOREM RangesCountedUpToGuard ==
    Spec => []( Counted(value.from .. value.to, value.from, value.to)
                  = {t \in value.from .. value.to : MonthsOf(value.from, t) <= MaxBucketPoints + 8} )
<1>1. TabInv => Counted(value.from .. value.to, value.from, value.to)
                  = {t \in value.from .. value.to : MonthsOf(value.from, t) <= MaxBucketPoints + 8}
  BY CountedOf DEF TabInv, PickerInv, RangeOK, MaxGuard
<1> QED BY <1>1, TabInvariant, PTL

(***************************************************************************)
(* The session and its redirects.                                          *)
(***************************************************************************)
SessionRefusals == screen = "session" => Refusals

LEMMA RefusalsHold == Spec => []SessionRefusals
<1>1. Init => SessionRefusals BY RefusalsInit DEF Init, SessionRefusals
<1>2. TabInv /\ SessionRefusals /\ [Next]_vars => SessionRefusals'
  <2> SUFFICES ASSUME TabInv, SessionRefusals, [Next]_vars, screen' = "session" PROVE Refusals'
    BY DEF SessionRefusals
  <2>1. screen = "session" BY DEF Next, On, OnSession, vars
  <2>2. PageTypeOK /\ SessionInv /\ Refusals BY <2>1 DEF TabInv, SessionSide, SessionRefusals
  <2>3. CASE UNCHANGED vars BY <2>2, <2>3 DEF vars, sessionVars, Refusals, RefusedIsOver, Live
  <2>4. CASE Next
    <3>1. SessionNext BY <2>1, <2>4 DEF Next, On
    <3> QED BY <2>2, <3>1, SessionNear
  <2> QED BY <2>3, <2>4
<1> QED BY <1>1, <1>2, TabInvariant, PTL DEF Spec

(* Undisturbed, a step begins no check but one that is nearer to rest than *)
(* the one it ends.                                                        *)
ChecksRunDown == [][screen = "session" => Disturbed \/ Nearer]_vars

(* Whatever the cookie is worth, AuthGate and LoginPage do not send the    *)
(* user to one another for ever: unless the user clicks, a session ends,   *)
(* or a login or another call's 401 sends the browser elsewhere, each step *)
(* leaves the check that is waited for as it is or nearer to rest.         *)
THEOREM RedirectsRunDown == Spec => ChecksRunDown
<1>1. TabInv /\ SessionRefusals /\ [Next]_vars => [screen = "session" => Disturbed \/ Nearer]_vars
  <2> SUFFICES ASSUME TabInv, SessionRefusals, Next, screen = "session" PROVE Disturbed \/ Nearer
    OBVIOUS
  <2>1. PageTypeOK /\ SessionInv /\ Refusals /\ SessionNext
    BY DEF TabInv, SessionSide, SessionRefusals, Next, On
  <2> QED BY <2>1, SessionNear
<1> QED BY <1>1, TabInvariant, RefusalsHold, PTL DEF Spec, ChecksRunDown

(* A skeleton of the gate or of the login page is up. *)
Waiting == IF at = "page" THEN gate = "loading" ELSE checking

(* And while one of them waits for a check, that check is on its way and   *)
(* six steps from rest at most.                                            *)
LEMMA RestIsNear ==
    Spec => [](screen = "session" =>
                 /\ Waiting <=> \E c \in Calls : Live(c, "me")
                 /\ \A c \in Calls : StepsToRest(c) \in 1 .. 6)
<1>1. ASSUME SessionInv, NEW c \in Calls PROVE StepsToRest(c) \in 1 .. 6
  <2>1. at \in {"page", "login"} /\ hCall[c].ans \in {"none", "ok", "unauthorized"}
    BY <1>1 DEF SessionInv, SessionTypeOK, HttpCall
  <2> QED BY <2>1, StepsOfCheck DEF StepsToRest
<1>2. SessionInv => (Waiting <=> \E c \in Calls : Live(c, "me"))
  <2> SUFFICES ASSUME SessionInv PROVE Waiting <=> Wanted("me") BY WantedIs
  <2>1. at \in {"page", "login"} /\ SessionWaitsBacked BY DEF SessionInv
  <2>2. CASE at = "page" BY <2>1, <2>2, Zenon DEF SessionWaitsBacked, Waiting
  <2>3. CASE at = "login"
    <3>1. at # "page" BY <2>3
    <3> QED BY <2>1, <2>3, <3>1, Zenon DEF SessionWaitsBacked, Waiting
  <2> QED BY <2>1, <2>2, <2>3
<1>3. TabInv => (screen = "session" =>
                   /\ Waiting <=> \E c \in Calls : Live(c, "me")
                   /\ \A c \in Calls : StepsToRest(c) \in 1 .. 6)
  BY <1>1, <1>2 DEF TabInv, SessionSide
<1> QED BY <1>3, TabInvariant, PTL
===============================================================================
