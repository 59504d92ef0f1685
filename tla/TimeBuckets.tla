------------------------------ MODULE TimeBuckets -----------------------------
(***************************************************************************)
(* The calendar of the date range picker and the time buckets of the model *)
(* analytics (time-buckets.ts).  A time is in minutes since Monday,        *)
(* 2024-01-01, 00:00 local; there is no daylight saving.  A bucket is      *)
(* named by its start, as its key names it.                                *)
(***************************************************************************)
EXTENDS Integers, FiniteSets, Sequences

CONSTANT MonthStart  \* month -> its first day, from month 0 to one after the last

LastMonth == Cardinality(DOMAIN MonthStart) - 2

ASSUME CalendarAssumption ==
    /\ LastMonth \in Nat /\ MonthStart \in [0 .. LastMonth + 1 -> Nat] /\ MonthStart[0] = 0
    /\ \A m \in 0 .. LastMonth : MonthStart[m + 1] - MonthStart[m] \in 28 .. 31

Hour == 60
Day == 24 * Hour

DayOf(t) == t \div Day
StartOfDay(t) == DayOf(t) * Day
EndOfDay(t) == StartOfDay(t) + Day - 1
MonthOf(day) == CHOOSE m \in 0 .. LastMonth : day \in MonthStart[m] .. MonthStart[m + 1] - 1

StartOfWeekMonday(t) == (DayOf(t) - (DayOf(t) % 7)) * Day
FloorToMinutes(t, step) == StartOfDay(t) + (((t % Day) \div step) * step)

(***************************************************************************)
(* Buckets, finest first.                                                  *)
(***************************************************************************)
KindOrder == <<"15m", "30m", "1h", "1d", "1w", "1M">>
Rank(kind) == CHOOSE i \in DOMAIN KindOrder : KindOrder[i] = kind
MaxBucketPoints == 48
MaxGuard == MaxBucketPoints + 8

Width(kind) ==
    CASE kind = "15m" -> 15 [] kind = "30m" -> 30 [] kind = "1h" -> Hour
      [] kind = "1d" -> Day [] kind = "1w" -> 7 * Day

AlignBucketStart(t, kind) ==
    CASE kind \in {"15m", "30m", "1h"} -> FloorToMinutes(t, Width(kind))
      [] kind = "1d" -> StartOfDay(t)
      [] kind = "1w" -> StartOfWeekMonday(t)
      [] kind = "1M" -> MonthStart[MonthOf(DayOf(t))] * Day

(* The months of a range, the first and the last included. *)
MonthsOf(from, to) == MonthOf(DayOf(to)) - MonthOf(DayOf(from)) + 1

BucketKeyFor(t, kind) == AlignBucketStart(t, kind)

NextBucketStart(t, kind) ==
    IF kind = "1M" THEN MonthStart[MonthOf(DayOf(t)) + 1] * Day ELSE t + Width(kind)

EstimatePointCount(from, to, kind) ==
    IF kind = "1M" THEN MonthsOf(from, to)
    ELSE ((to - from + Width(kind) - 1) \div Width(kind)) + 1

BaseKindForSpan(span) ==
    CASE span <= 3 * Hour -> "15m"
      [] span \in 3 * Hour + 1 .. 12 * Hour -> "30m"
      [] span \in 12 * Hour + 1 .. 48 * Hour -> "1h"
      [] span \in 48 * Hour + 1 .. 31 * Day -> "1d"
      [] span \in 31 * Day + 1 .. 180 * Day -> "1w"
      [] span > 180 * Day -> "1M"

(* Promoted to a coarser kind while there would be too many points. *)
ResolveBucketKind(from, to) ==
    LET base == Rank(BaseKindForSpan(to - from))
        fits(i) == EstimatePointCount(from, to, KindOrder[i]) <= MaxBucketPoints \/ i = Len(KindOrder)
    IN  KindOrder[CHOOSE i \in base .. Len(KindOrder) : fits(i) /\ \A j \in base .. i - 1 : ~fits(j)]

(* Mutant: the bucket that starts where the range ends is left out. *)
BuildAxisBefore(from, to, kind) ==
    LET cursor[i \in 1 .. MaxGuard] ==
            IF i = 1 THEN AlignBucketStart(from, kind)
            ELSE LET last == cursor[i - 1]
                 IN  IF last >= to THEN last ELSE NextBucketStart(last, kind)
    IN  {cursor[i] : i \in {j \in 1 .. MaxGuard : cursor[j] < to}}

(* The axis: bucket after bucket from the one with from in it to the one   *)
(* with to in it, or until the guard says stop.                            *)
BuildBucketAxis(from, to, kind) ==
    LET cursor[i \in 1 .. MaxGuard] ==
            IF i = 1 THEN AlignBucketStart(from, kind)
            ELSE LET last == cursor[i - 1]
                 IN  IF last > to THEN last ELSE NextBucketStart(last, kind)
    IN  {cursor[i] : i \in {j \in 1 .. MaxGuard : cursor[j] <= to}}

(* buildModelAnalytics: of the requests in the range it counts those whose *)
(* key is on the axis.                                                     *)
Counted(times, from, to) ==
    LET kind == ResolveBucketKind(from, to)
        axis == BuildBucketAxis(from, to, kind)
    IN  {t \in times : t \in from .. to /\ BucketKeyFor(t, kind) \in axis}
===============================================================================
