----------------------------- MODULE OverviewPage -----------------------------
(***************************************************************************)
(* The overview (OverviewPage.tsx).  load() asks for the overview of an    *)
(* ops window and then for the logs and the usage of the date range; every *)
(* range chosen and every refresh starts one, numbered by loadSeqRef.  A   *)
(* soft load keeps what is on screen and reports its failure in a banner.  *)
(***************************************************************************)
EXTENDS AdminPage

CONSTANTS
    Ranges,      \* the date ranges a user may choose: [preset, minutes]
    FirstRange   \* the range the page starts with

ASSUME OverviewAssumption ==
    /\ FirstRange \in Ranges
    /\ \A r \in Ranges : r.minutes \in Nat

VARIABLES
    range,       \* dateRange
    data,        \* the ops window of the overview shown, NoWindow for null
    logs, usage, \* the ranges of the logs and the usage shown, NoRange for none
    oLoading, oError,
    softError,   \* the banner
    oSeq,        \* loadSeqRef
    oLoads       \* loads in flight

overviewVars == <<range, data, logs, usage, oLoading, oError, softError, oSeq, oLoads>>

NoWindow == "none"
NoRange == [preset |-> "none", minutes |-> 0]
Windows == {"1h", "24h", "7d"}

(* The backend's windows are rolling; only the 7d preset is one of them. *)
OpsWindowForRange(r) == IF r.preset = "7d" THEN "7d" ELSE NoWindow

NearestOpsWindow(r) ==
    CASE OpsWindowForRange(r) # NoWindow -> OpsWindowForRange(r)
      [] OpsWindowForRange(r) = NoWindow /\ r.minutes <= 90 -> "1h"
      [] OpsWindowForRange(r) = NoWindow /\ r.minutes \in 91 .. 36 * 60 -> "24h"
      [] OpsWindowForRange(r) = NoWindow /\ r.minutes > 36 * 60 -> "7d"

(* A load, with the range its closure holds and the step it awaits. *)
Fetch == [seq : Nat, range : Ranges, soft : BOOLEAN, awaits : {"overview", "series"}]
NewFetch(n, r, soft) == [seq |-> n, range |-> r, soft |-> soft, awaits |-> "overview"]

OverviewTypeOK ==
    /\ range \in Ranges /\ data \in Windows \cup {NoWindow}
    /\ {logs, usage} \subseteq Ranges \cup {NoRange}
    /\ {oLoading, oError, softError} \subseteq BOOLEAN
    /\ oSeq \in Nat /\ oLoads \subseteq Fetch

OverviewInit ==
    /\ range = FirstRange /\ data = NoWindow /\ logs = NoRange /\ usage = NoRange
    /\ oLoading = TRUE /\ oError = FALSE /\ softError = FALSE
    /\ oSeq = 1 /\ oLoads = {NewFetch(1, FirstRange, FALSE)}

(***************************************************************************)
(* The branches: the skeleton, the error with its retry, the page.         *)
(***************************************************************************)
PageShown == data # NoWindow
RetryShown == ~PageShown /\ ~oLoading /\ oError

StartFetch(r, soft) ==
    /\ oSeq' = oSeq + 1
    /\ oLoads' = oLoads \cup {NewFetch(oSeq + 1, r, soft)}
    /\ oLoading' = (oLoading \/ ~soft)
    /\ UNCHANGED <<data, logs, usage, oError, softError>>

(* The effect on the range loads softly, nothing tells it of a load in flight. *)
ChooseRange(r) == PageShown /\ Click /\ r # range /\ range' = r /\ StartFetch(r, TRUE)

(* The header's refresh and the banner's retry are never disabled. *)
RefreshSoftly == PageShown /\ Click /\ StartFetch(range, TRUE) /\ UNCHANGED range
Retry == RetryShown /\ Click /\ StartFetch(range, FALSE) /\ UNCHANGED range

(***************************************************************************)
(* Answers.                                                                *)
(***************************************************************************)
Newest(f) == f.seq = oSeq

FetchDropped(f) ==
    /\ ~Newest(f) /\ Arrives
    /\ oLoads' = oLoads \ {f}
    /\ UNCHANGED <<range, data, logs, usage, oLoading, oError, softError, oSeq>>

(* Mutant: the overview is taken whoever asked for it. *)
OverviewArrivesLate(f) ==
    /\ f.awaits = "overview" /\ Arrives
    /\ data' = NearestOpsWindow(f.range) /\ oError' = FALSE /\ softError' = FALSE
    /\ oLoads' = (oLoads \ {f}) \cup {[f EXCEPT !.awaits = "series"]}
    /\ UNCHANGED <<range, logs, usage, oLoading, oSeq>>

OverviewArrives(f) ==
    /\ Newest(f) /\ f.awaits = "overview" /\ Arrives
    /\ data' = NearestOpsWindow(f.range) /\ oError' = FALSE /\ softError' = FALSE
    /\ oLoads' = (oLoads \ {f}) \cup {[f EXCEPT !.awaits = "series"]}
    /\ UNCHANGED <<range, logs, usage, oLoading, oSeq>>

(* allSettled: each of the two may have failed, a 401 included.  A soft    *)
(* load keeps the old series of the one that has, a hard one empties it    *)
(* and says nothing.                                                       *)
Settled(f, ok, old) == IF ok THEN f.range ELSE IF f.soft THEN old ELSE NoRange

SeriesSettle(f) ==
    \E gotLogs, gotUsage \in BOOLEAN :
        /\ Newest(f) /\ f.awaits = "series"
        /\ IF gotLogs /\ gotUsage THEN Arrives ELSE Fails
        /\ logs' = Settled(f, gotLogs, logs)
        /\ usage' = Settled(f, gotUsage, usage)
        /\ softError' = (softError \/ (f.soft /\ ~(gotLogs /\ gotUsage)))
        /\ oLoading' = FALSE /\ oLoads' = oLoads \ {f}
        /\ UNCHANGED <<range, data, oError, oSeq>>

OverviewFails(f) ==
    /\ Newest(f) /\ f.awaits = "overview"
    /\ \/ /\ Fails
          /\ oError' = (oError \/ ~f.soft) /\ softError' = (softError \/ f.soft)
       \/ SignsOut /\ UNCHANGED <<oError, softError>>
    /\ oLoading' = FALSE /\ oLoads' = oLoads \ {f}
    /\ UNCHANGED <<range, data, logs, usage, oSeq>>

OverviewNext ==
    \/ \E r \in Ranges : ChooseRange(r)
    \/ RefreshSoftly \/ Retry
    \/ \E f \in oLoads : FetchDropped(f) \/ OverviewArrives(f) \/ SeriesSettle(f) \/ OverviewFails(f)

OverviewSpec == InitPage /\ OverviewInit /\ [][OverviewNext]_<<pageVars, overviewVars>>

(***************************************************************************)
(* Properties.                                                             *)
(***************************************************************************)
Loading == \E f \in oLoads : Newest(f)

(* At rest, with no error and no banner, all that the overview shows is of *)
(* the range in the picker, however fast ranges were chosen and whichever  *)
(* answers came late; a series may have been emptied by a first load.      *)
OverviewShowsRange ==
    at = "page" /\ ~Loading /\ ~oError /\ ~softError =>
        /\ data = NearestOpsWindow(range)
        /\ {logs, usage} \subseteq {range, NoRange}

(* The skeleton goes away with the newest load. *)
OverviewSpinnerBacked == at = "page" /\ oLoading => Loading
===============================================================================
