------------------------------- MODULE ListView -------------------------------
(***************************************************************************)
(* What the list pages of the admin UI compute from the rows they hold:    *)
(* the filtered and sorted list, the page of it that is on screen, the     *)
(* pager, and the selection.  No state of its own.                         *)
(*                                                                         *)
(* A row is [on, tab, label]; the search text, the status, scheme, weight  *)
(* and limit filters and the sort are one choice, a view [status, sort].   *)
(***************************************************************************)
EXTENDS Integers, FiniteSets, Sequences, SequencesExt

Statuses == {"all", "enabled", "disabled"}
Sorts == {"label_asc", "label_desc", "status"}
View == [status : Statuses, sort : Sorts]
FirstView == [status |-> "all", sort |-> "label_asc"]

(* The status filter of a list. *)
Passes(row, status) ==
    /\ status = "enabled" => row.on
    /\ status = "disabled" => ~row.on

(* compareBySort on the ids a and b of rows: labels are ordered as ids are. *)
Before(rows, sort, a, b) ==
    \/ sort = "label_asc" /\ a < b
    \/ sort = "label_desc" /\ b < a
    \/ sort = "status" /\ \/ rows[a].on /\ ~rows[b].on
                          \/ rows[a].on = rows[b].on /\ a < b

(* The rows of a tab that pass the filter, in the order of the sort. *)
Listed(rows, tab, view) ==
    LET found == {i \in DOMAIN rows : rows[i].tab = tab /\ Passes(rows[i], view.status)}
        rank(i) == Cardinality({j \in found : Before(rows, view.sort, j, i)}) + 1
    IN  [k \in 1 .. Cardinality(found) |-> CHOOSE i \in found : rank(i) = k]

(***************************************************************************)
(* Paging.  slicePage takes the page as it is; the pager clamps it.        *)
(***************************************************************************)
AtLeast1(n) == IF n < 1 THEN 1 ELSE n
AtMost(n, m) == IF n > m THEN m ELSE n

SlicePage(list, page, pageSize) ==
    LET start == (AtLeast1(page) - 1) * pageSize
    IN  SubSeq(list, start + 1, AtMost(start + pageSize, Len(list)))

TotalPages(total, pageSize) == AtLeast1((total + pageSize - 1) \div pageSize)
SafePage(total, page, pageSize) == AtMost(AtLeast1(page), TotalPages(total, pageSize))

(* The page numbers the pager offers: all up to seven, else the ends and   *)
(* the neighbourhood of the current one.                                   *)
PageWindow(current, totalPages) ==
    IF totalPages <= 7 THEN 1 .. totalPages
    ELSE {p \in 1 .. totalPages :
            \/ p \in {1, totalPages} \cup (current - 1 .. current + 1)
            \/ current <= 3 /\ p \in 2 .. 4
            \/ current >= totalPages - 2 /\ p \in totalPages - 3 .. totalPages - 1}

(* The pages a click on the pager can ask for: a number, previous, next. *)
PagerTargets(total, page, pageSize) ==
    LET last == TotalPages(total, pageSize)
        safe == SafePage(total, page, pageSize)
    IN  IF total <= 0 THEN {}
        ELSE PageWindow(safe, last) \cup ({safe - 1, safe + 1} \cap (1 .. last))

(***************************************************************************)
(* The selection: useRowSelection.                                         *)
(***************************************************************************)
(* Mutant: the effect that prunes is missing. *)
PruneNever(selected, visible) == selected

Prune(selected, visible) == selected \cap visible

AllSelected(selected, visible) == visible # {} /\ visible \subseteq selected

ToggleAllOf(selected, visible) == IF AllSelected(selected, visible) THEN {} ELSE visible

ToggleOneOf(selected, id) == IF id \in selected THEN selected \ {id} ELSE selected \cup {id}

InvertOf(selected, visible) == (selected \ visible) \cup (visible \ selected)
===============================================================================
