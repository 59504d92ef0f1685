---------------------------- MODULE DateRangePicker ---------------------------
(***************************************************************************)
(* The date range picker of the overview (DateRangePicker.tsx): a draft of *)
(* two days over two months of the calendar, presets, apply and cancel.    *)
(* The range it hands on is what the overview counts requests in.          *)
(***************************************************************************)
EXTENDS TimeBuckets

CONSTANTS
    Days,        \* the days a user clicks
    Nows         \* the moments at which one clicks a preset

ASSUME PickerAssumption ==
    /\ Days \subseteq 0 .. MonthStart[LastMonth] - 1
    /\ Nows \subseteq 31 * Day .. MonthStart[LastMonth] * Day - 1

VARIABLES
    value,       \* the range applied: [from, to, preset]
    open,
    draftFrom, draftTo,  \* days, NoDay for null
    leftCursor   \* the month on the left

pickerVars == <<value, open, draftFrom, draftTo, leftCursor>>

NoDay == -1
Presets == {"today", "7d", "week", "30d", "month"}

PickerTypeOK ==
    /\ value.from \in Nat /\ value.to \in Nat /\ value.preset \in Presets \cup {"custom"}
    /\ open \in BOOLEAN /\ leftCursor \in 0 .. LastMonth
    /\ {draftFrom, draftTo} \subseteq Nat \cup {NoDay}

(* A preset runs from the start of a day to this moment. *)
PresetRange(preset, now) ==
    LET today == DayOf(now)
        from == CASE preset = "today" -> today
                  [] preset = "7d"    -> today - 6
                  [] preset = "week"  -> today - (today % 7)
                  [] preset = "30d"   -> today - 29
                  [] preset = "month" -> MonthStart[MonthOf(today)]
    IN  [from |-> from * Day, to |-> now, preset |-> preset]

ClampRange(from, to) ==
    IF from <= to THEN [from |-> from * Day, to |-> EndOfDay(to * Day), preset |-> "custom"]
    ELSE [from |-> to * Day, to |-> EndOfDay(from * Day), preset |-> "custom"]

PickerInit ==
    /\ \E now \in Nows : value = PresetRange("7d", now)
    /\ open = FALSE
    /\ draftFrom = DayOf(value.from) /\ draftTo = DayOf(value.to)
    /\ leftCursor = MonthOf(DayOf(value.from))

(* Opening starts from the range that is applied. *)
OpenPicker ==
    /\ ~open /\ open' = TRUE
    /\ draftFrom' = DayOf(value.from) /\ draftTo' = DayOf(value.to)
    /\ leftCursor' = MonthOf(DayOf(value.from))
    /\ UNCHANGED value

(* The trigger again, cancel, Escape, a click outside. *)
ClosePicker == open /\ open' = FALSE /\ UNCHANGED <<value, draftFrom, draftTo, leftCursor>>

(* The days of a month that can be clicked. *)
MonthCells(m) == MonthStart[m] .. MonthStart[m + 1] - 1

Pick(d) ==
    /\ open /\ d \in MonthCells(leftCursor) \cup MonthCells(leftCursor + 1)
    /\ IF draftFrom = NoDay \/ draftTo # NoDay
       THEN draftFrom' = d /\ draftTo' = NoDay
       ELSE IF d < draftFrom
       THEN draftTo' = draftFrom /\ draftFrom' = d
       ELSE draftTo' = d /\ UNCHANGED draftFrom
    /\ UNCHANGED <<value, open, leftCursor>>

(* Mutant: one day clicked and no second. *)
ApplyHalfDraft ==
    /\ open /\ draftFrom # NoDay
    /\ value' = ClampRange(draftFrom, draftTo)
    /\ open' = FALSE
    /\ UNCHANGED <<draftFrom, draftTo, leftCursor>>

ApplyDraft ==
    /\ open /\ draftFrom # NoDay
    /\ value' = ClampRange(draftFrom, IF draftTo = NoDay THEN draftFrom ELSE draftTo)
    /\ open' = FALSE
    /\ UNCHANGED <<draftFrom, draftTo, leftCursor>>

ApplyPreset(preset) ==
    /\ open
    /\ \E now \in Nows : value' = PresetRange(preset, now)
    /\ open' = FALSE
    /\ UNCHANGED <<draftFrom, draftTo, leftCursor>>

TurnMonth ==
    /\ open
    /\ leftCursor' \in {leftCursor - 1, leftCursor + 1} \cap (0 .. LastMonth - 1)
    /\ UNCHANGED <<value, open, draftFrom, draftTo>>

PickerNext ==
    \/ OpenPicker \/ ClosePicker \/ ApplyDraft \/ TurnMonth
    \/ \E d \in Days : Pick(d)
    \/ \E preset \in Presets : ApplyPreset(preset)

PickerSpec == PickerInit /\ [][PickerNext]_pickerVars

(***************************************************************************)
(* Properties.                                                             *)
(***************************************************************************)
(* The ranges it can hand on: presets, and what is drafted from the days a *)
(* user clicks or a preset has left in the draft.                          *)
PresetRanges == {PresetRange(preset, now) : preset \in Presets, now \in Nows}
DraftDays == Days \cup UNION {{DayOf(r.from), DayOf(r.to)} : r \in PresetRanges}
DraftRanges == {ClampRange(a, b) : a \in DraftDays, b \in DraftDays}
RangesOffered == PresetRanges \cup DraftRanges

(* Some moments of a range: its ends and sixty evenly between them. *)
Moments(from, to) ==
    LET step == 1 + ((to - from) \div 60)
    IN  {to} \cup {t \in {from + i * step : i \in 0 .. 60} : t <= to}

(* The axis built for a range counts its first MaxGuard months, and the    *)
(* axis of one with at most MaxBucketPoints months has no more points.     *)
CountedToTheGuard(from, to) ==
    /\ Counted(Moments(from, to), from, to) = {t \in Moments(from, to) : MonthsOf(from, t) <= MaxGuard}
    /\ MonthsOf(from, to) <= MaxBucketPoints =>
         Cardinality(BuildBucketAxis(from, to, ResolveBucketKind(from, to))) <= MaxBucketPoints

(* A constant: TLC works it out once, not in every state. *)
AxisTable == [r \in RangesOffered |-> CountedToTheGuard(r.from, r.to)]

(* The picker hands on a range that starts before it ends, in whatever     *)
(* order days were clicked and months were turned, and the axis the        *)
(* overview builds for it counts every request of the range up to MaxGuard *)
(* months, with a bucket for the one the range ends in, on at most         *)
(* MaxBucketPoints points up to as many months.  Of a longer range the     *)
(* guard cuts off the months after MaxGuard, and exactly those.            *)
AxisCountsRange ==
    /\ draftTo # NoDay => draftFrom <= draftTo
    /\ value.from <= value.to
    /\ value \in RangesOffered /\ AxisTable[value]
===============================================================================
