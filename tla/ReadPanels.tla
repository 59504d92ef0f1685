------------------------------ MODULE ReadPanels ------------------------------
(***************************************************************************)
(* The four views that only read: the model catalog (ModelsPage), the      *)
(* gateway log and the Ollama usage (LogsPage) and the quotas (QuotasPage). *)
(* Each is load(), the filters and the pager, and the branches of its      *)
(* rendering; they differ in where the refresh button stands and in the    *)
(* flags a load raises.                                                    *)
(*                                                                         *)
(* The server moves on from version to version of what it has; the rows of *)
(* an answer are left open, for nothing keeps one that was there: the log  *)
(* is its newest 100 lines, or those of the ring when the store fails, and *)
(* an Ollama account that could not be asked has no rows.                  *)
(***************************************************************************)
EXTENDS AdminPage, ListView

CONSTANTS
    MaxVersion,  \* bound on what the server gets to have
    MaxRows,     \* rows an answer may have
    PanelSize    \* rows of a page

ASSUME PanelAssumption == MaxVersion \in Nat /\ MaxRows \in Nat /\ PanelSize \in Nat \ {0}

VARIABLES
    panel,       \* the view under test
    onHand,      \* version of what the server would answer
    pShown,      \* version on screen, 0 before the first
    pRows,       \* its rows
    pWanted,     \* history: what the server had at the last click on refresh
    pLoading, pRefreshing, pError,
    pFilter, pPage,
    pCall        \* call -> [ans, version]

panelVars == <<panel, onHand, pShown, pRows, pWanted,
               pLoading, pRefreshing, pError, pFilter, pPage, pCall>>

Filters == {"all", "some"}               \* search text, status, route, provider, tab, ...
Panels == {"models", "gateway", "ollama", "quotas"}
LogPanels == {"gateway", "ollama"}
Rows == 1 .. MaxRows
NoCall == [ans |-> "none", version |-> 0]
Asked == [ans |-> "awaited", version |-> 0]

PanelsTypeOK ==
    /\ panel \in Panels /\ onHand \in 1 .. MaxVersion + 1
    /\ pShown \in 0 .. onHand /\ pRows \in SUBSET Rows /\ pWanted \in 1 .. onHand
    /\ {pLoading, pRefreshing, pError} \subseteq BOOLEAN
    /\ pFilter \in Filters /\ pPage \in Nat \ {0}
    /\ pCall \in [Calls -> [ans : {"none", "awaited", "given"}, version : 0 .. onHand]]

PanelInit ==
    /\ panel \in Panels /\ onHand = 1 /\ pShown = 0 /\ pRows = {} /\ pWanted = 1
    /\ pLoading = TRUE /\ pRefreshing = FALSE /\ pError = FALSE
    /\ pFilter = "all" /\ pPage = 1
    /\ pCall = [c \in Calls |-> IF c = FirstCall THEN Asked ELSE NoCall]

(***************************************************************************)
(* Where the refresh button can be clicked: ModelsPage and QuotasPage have *)
(* it in the header, ModelsPage disables it while a refresh runs; the two  *)
(* panels of LogsPage have it with the list, so not while one is loading   *)
(* and not under an error.                                                 *)
(***************************************************************************)
ListOnScreen == ~pLoading /\ ~pError

(* Mutant: the two panels of LogsPage keep the button while they load. *)
RefreshAlwaysThere == IF panel = "models" THEN ~pRefreshing ELSE ~pError

RefreshOffered ==
    CASE panel = "models"  -> ~pRefreshing
      [] panel = "gateway" -> ListOnScreen
      [] panel = "ollama"  -> ListOnScreen /\ ~pRefreshing
      [] panel = "quotas"  -> TRUE

(* load(refresh) of ModelsPage raises refreshing and leaves the list; the  *)
(* others put the skeleton in its place.                                   *)
Refresh(c) ==
    /\ RefreshOffered /\ Click /\ pCall[c] = NoCall
    /\ pCall' = [pCall EXCEPT ![c] = Asked]
    /\ pLoading' = (pLoading \/ panel # "models")
    /\ pRefreshing' = (pRefreshing \/ panel \in {"models", "ollama"})
    /\ pWanted' = onHand
    /\ UNCHANGED <<panel, onHand, pShown, pRows, pError, pFilter, pPage>>

(* The server answers with what it has by then. *)
ServePanel(c) ==
    /\ pCall[c] = Asked /\ Arrives
    /\ pCall' = [pCall EXCEPT ![c] = [ans |-> "given", version |-> onHand]]
    /\ UNCHANGED <<panel, onHand, pShown, pRows, pWanted,
                   pLoading, pRefreshing, pError, pFilter, pPage>>

(* Requests are logged, quotas are used, the catalog is refreshed. *)
ServerMovesOn ==
    /\ onHand <= MaxVersion /\ onHand' = onHand + 1 /\ Arrives
    /\ UNCHANGED <<panel, pShown, pRows, pWanted,
                   pLoading, pRefreshing, pError, pFilter, pPage, pCall>>

(* The finally block lowers both flags, whichever call they stood for. *)
EndCall(c) ==
    /\ pCall' = [pCall EXCEPT ![c] = NoCall]
    /\ pLoading' = FALSE
    /\ pRefreshing' = (pRefreshing /\ panel \in {"gateway", "quotas"})
    /\ UNCHANGED <<panel, onHand, pWanted, pFilter, pPage>>

AnswerShown(c) ==
    /\ pCall[c].ans = "given" /\ Arrives
    /\ pShown' = pCall[c].version /\ pRows' \in SUBSET Rows /\ pError' = FALSE
    /\ EndCall(c)

CallFails(c) ==
    /\ pCall[c] # NoCall
    /\ \/ Fails /\ pError' = TRUE
       \/ SignsOut /\ UNCHANGED pError
    /\ UNCHANGED <<pShown, pRows>> /\ EndCall(c)

(***************************************************************************)
(* The list: any filter or sort goes back to page 1, a reload does not.    *)
(***************************************************************************)
Matched(filter) == {i \in pRows : filter = "some" => i % 2 = 1}
Total == Cardinality(Matched(pFilter))

FiltersOffered == ListOnScreen \/ panel = "quotas"   \* its tabs stand in the header
ListChanges == /\ Click
               /\ UNCHANGED <<panel, onHand, pShown, pRows, pWanted,
                              pLoading, pRefreshing, pError, pCall>>

ChooseFilter(f) == FiltersOffered /\ ListChanges /\ pFilter' = f /\ pPage' = 1
TurnPage == /\ ListOnScreen /\ ListChanges
            /\ pPage' \in PagerTargets(Total, pPage, PanelSize) /\ UNCHANGED pFilter

PanelNext ==
    \/ \E c \in Calls : Refresh(c) \/ ServePanel(c) \/ AnswerShown(c) \/ CallFails(c)
    \/ ServerMovesOn \/ TurnPage
    \/ \E f \in Filters : ChooseFilter(f)

PanelSpec == InitPage /\ PanelInit /\ [][PanelNext]_<<pageVars, panelVars>>

(***************************************************************************)
(* Properties.                                                             *)
(***************************************************************************)
(* Once a panel of LogsPage shows its list again after a refresh, it shows *)
(* what the server had at the click, or something newer: load() numbers no *)
(* loads there, and an answer to an older one never lands on a newer.  (In *)
(* ModelsPage and QuotasPage it can.)                                      *)
RefreshIsCurrent ==
    panel \in LogPanels /\ at = "page" /\ ListOnScreen => pShown >= pWanted

(* A spinner is up only while a load is in flight, in every panel, however *)
(* the loads overlapped.                                                   *)
PanelSpinnersBacked ==
    at = "page" /\ (pLoading \/ pRefreshing) => \E c \in Calls : pCall[c] # NoCall
===============================================================================
