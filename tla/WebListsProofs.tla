---------------------------- MODULE WebListsProofs ----------------------------
(***************************************************************************)
(* What holds of the four list pages for any rows the server starts with,  *)
(* any number of handlers in flight, and any number of clicks and faults.  *)
(*                                                                         *)
(* The parts: the list on screen holds rows of the tab (ListedRows shows   *)
(* that its ranks are a bijection, so that each place of it is a row); the *)
(* invariant; how a handler that starts, goes on or ends keeps it; then    *)
(* what each operation of AdminList does, and that each page is made of    *)
(* those operations.                                                       *)
(***************************************************************************)
EXTENDS MCWebLists, FiniteSetTheorems, SequenceTheorems, TLAPS

(***************************************************************************)
(* The list on screen.                                                     *)
(***************************************************************************)
(* compareBySort is a strict order that tells any two rows apart.          *)
LEMMA SortIsStrict ==
    ASSUME NEW r, IsTable(r), NEW sort \in Sorts,
           NEW a \in DOMAIN r, NEW b \in DOMAIN r, NEW c \in DOMAIN r
    PROVE  /\ ~Before(r, sort, a, a)
           /\ a # b => Before(r, sort, a, b) \/ Before(r, sort, b, a)
           /\ Before(r, sort, a, b) /\ Before(r, sort, b, c) => Before(r, sort, a, c)
<1>1. a \in Int /\ b \in Int /\ c \in Int BY ListAssumption DEF IsTable, Ids
<1>2. r[a].on \in BOOLEAN /\ r[b].on \in BOOLEAN /\ r[c].on \in BOOLEAN BY DEF IsTable, Row
<1>3. sort \in {"label_asc", "label_desc", "status"} BY DEF Sorts
<1> QED BY <1>1, <1>2, <1>3 DEF Before

(* Each place in a list is taken, by a row of the tab: the places of two   *)
(* rows differ, and there are as many places as rows.                      *)
LEMMA ListedRows ==
    ASSUME NEW r, IsTable(r), NEW t, NEW v \in View
    PROVE  /\ Len(Listed(r, t, v)) \in Nat /\ DOMAIN Listed(r, t, v) = 1 .. Len(Listed(r, t, v))
           /\ \A k \in DOMAIN Listed(r, t, v) :
                 Listed(r, t, v)[k] \in DOMAIN r /\ r[Listed(r, t, v)[k]].tab = t
<1> DEFINE found == {i \in DOMAIN r : r[i].tab = t /\ Passes(r[i], v.status)}
           sooner(i) == {j \in found : Before(r, v.sort, j, i)}
           rank(i) == Cardinality(sooner(i)) + 1
           place == [i \in found |-> rank(i)]
           n == Cardinality(found)
<1>1. v.sort \in Sorts BY DEF View
<1>2. IsFiniteSet(found) /\ n \in Nat
  <2>1. IsFiniteSet(Ids) BY ListAssumption, FS_Interval DEF Ids
  <2>2. found \in SUBSET Ids BY DEF IsTable
  <2> QED BY <2>1, <2>2, FS_Subset, FS_CardinalityType
<1>3. \A i \in found : IsFiniteSet(sooner(i)) /\ Cardinality(sooner(i)) \in Nat
  BY <1>2, FS_Subset, FS_CardinalityType
<1>4. \A i \in found : rank(i) \in 1 .. n
  <2> SUFFICES ASSUME NEW i \in found PROVE rank(i) \in 1 .. n OBVIOUS
  <2>1. i \notin sooner(i) BY <1>1, SortIsStrict
  <2>2. sooner(i) \in SUBSET (found \ {i}) BY <2>1
  <2>3. IsFiniteSet(found \ {i}) /\ Cardinality(found \ {i}) = n - 1 BY <1>2, FS_RemoveElement
  <2>4. Cardinality(sooner(i)) <= n - 1 BY <2>2, <2>3, FS_Subset
  <2> QED BY <1>2, <1>3, <2>4
<1>5. \A i, j \in found : Before(r, v.sort, i, j) => rank(i) < rank(j)
  <2> SUFFICES ASSUME NEW i \in found, NEW j \in found, Before(r, v.sort, i, j)
               PROVE  rank(i) < rank(j)
    OBVIOUS
  <2>1. sooner(i) \subseteq sooner(j) BY <1>1, SortIsStrict
  <2>2. i \in sooner(j) /\ i \notin sooner(i) BY <1>1, SortIsStrict
  <2>3. Cardinality(sooner(i)) <= Cardinality(sooner(j)) /\ Cardinality(sooner(i)) # Cardinality(sooner(j))
    BY <1>3, <2>1, <2>2, FS_Subset
  <2> QED BY <1>3, <2>3
<1>6. \A i, j \in found : i # j => rank(i) # rank(j)
  <2> SUFFICES ASSUME NEW i \in found, NEW j \in found, i # j PROVE rank(i) # rank(j) OBVIOUS
  <2>1. Before(r, v.sort, i, j) \/ Before(r, v.sort, j, i) BY <1>1, SortIsStrict
  <2>2. rank(i) < rank(j) \/ rank(j) < rank(i) BY <1>5, <2>1
  <2>3. rank(i) \in Nat /\ rank(j) \in Nat BY <1>3
  <2> HIDE DEF rank
  <2> QED BY <2>2, <2>3
<1>7. \A k \in 1 .. n : \E i \in found : rank(i) = k
  <2> HIDE DEF rank
  <2>1. place \in Injection(found, 1 .. n) BY <1>4, <1>6 DEF Injection, IsInjective
  <2>2. IsFiniteSet(1 .. n) /\ Cardinality(1 .. n) = n BY <1>2, FS_Interval
  <2>3. place \in Surjection(found, 1 .. n) BY <2>1, <2>2, FS_Injection
  <2> QED BY <2>3 DEF Surjection
<1>8. Listed(r, t, v) = [k \in 1 .. n |-> CHOOSE i \in found : rank(i) = k] BY DEF Listed
<1>9. Len(Listed(r, t, v)) = n /\ DOMAIN Listed(r, t, v) = 1 .. n BY <1>2, <1>8
<1>10. \A k \in 1 .. n : Listed(r, t, v)[k] \in found
  <2> HIDE DEF rank
  <2> QED BY <1>7, <1>8
<1> QED BY <1>2, <1>9, <1>10

(* What stands on a page of a list is a row of the list. *)
LEMMA SliceRows ==
    ASSUME NEW S, NEW list, Len(list) \in Nat, \A k \in 1 .. Len(list) : list[k] \in S,
           NEW p \in Nat \ {0}, NEW size \in Nat \ {0}
    PROVE  Range(SlicePage(list, p, size)) \subseteq S
<1> DEFINE first == (p - 1) * size
           last == AtMost(first + size, Len(list))
<1>1. first \in Nat /\ first + 1 \in Nat \ {0} BY SMTT(30)
<1>2. last \in Int /\ last <= Len(list) BY <1>1 DEF AtMost
<1>3. SlicePage(list, p, size) = SubSeq(list, first + 1, last)
  <2>1. AtLeast1(p) = p BY DEF AtLeast1
  <2> QED BY <2>1, Zenon DEF SlicePage
<1> HIDE DEF first, last
<1>4. \A i \in first + 1 .. last : list[i] \in S BY <1>1, <1>2
<1>5. SubSeq(list, first + 1, last) \in Seq(S) BY <1>1, <1>2, <1>4, SubSeqProperties
<1>6. \A q \in Seq(S) : Range(q) \subseteq S
  <2>1. \A q \in Seq(S) : \A k \in DOMAIN q : q[k] \in S OBVIOUS
  <2> QED BY <2>1, Zenon DEF Range
<1> QED BY <1>3, <1>5, <1>6

(* The rows on screen are rows of the tab. *)
OnScreen(r, t, v, p, size) == Range(SlicePage(Listed(r, t, v), p, size))

LEMMA ScreenRows ==
    ASSUME NEW r, IsTable(r), NEW t, NEW v \in View, NEW p \in Nat \ {0}, NEW size \in Nat \ {0}
    PROVE  \A i \in OnScreen(r, t, v, p, size) : i \in DOMAIN r /\ r[i].tab = t
<1> DEFINE S == {i \in DOMAIN r : r[i].tab = t}
<1>1. Len(Listed(r, t, v)) \in Nat /\ \A k \in 1 .. Len(Listed(r, t, v)) : Listed(r, t, v)[k] \in S
  BY ListedRows
<1>2. OnScreen(r, t, v, p, size) \subseteq S BY <1>1, SliceRows DEF OnScreen
<1> QED BY <1>2

(***************************************************************************)
(* The invariant.                                                          *)
(***************************************************************************)
Table == UNION {[S -> Row] : S \in SUBSET Ids}
Prunes == screen # "accounts"                \* the pages with useRowSelection

Task == [kind : {"none", "load", "create", "row", "edit", "bulk", "single", "batch", "export"},
         call : {"none", "list", "create", "rename", "enable", "delete", "read"},
         id : Ids \cup {None}, tab : Tabs \cup {"none"}, label : Label \cup {NoLabel},
         on : BOOLEAN, todo : SUBSET Ids, more : Nat, done : BOOLEAN, failed : BOOLEAN,
         chosen : SUBSET Ids, ans : {"none", "ok", "failed", "unauthorized"},
         snap : Table, stamp : Nat]

Typed ==
    /\ screen \in {"keys", "pool", "proxies", "accounts"} /\ at \in {"page", "login"}
    /\ db \in Table /\ DOMAIN db \subseteq 1 .. born /\ born \in 0 .. MaxId
    /\ rows \in Table /\ DOMAIN rows \subseteq 1 .. born
    /\ served \in Nat /\ applied \in 0 .. served /\ missed \in 0 .. served
    /\ tab \in Tabs /\ view \in Views /\ page \in Nat \ {0} /\ pageSize \in PageSizes
    /\ selected \subseteq Ids /\ editing \in Ids \cup {None} /\ form \in Label \cup {NoLabel}
    /\ {live, loading, listError, saving, bulkBusy, editSaving} \subseteq BOOLEAN
    /\ composer \in {"closed", "add", "batch", "import"}
    /\ task \in [Slots -> Task]

(* Labels are those of their rows; a row keeps its tab, and an id is given *)
(* out once, so that tables of any age agree on the tab of an id.          *)
Labelled(f) == \A i \in DOMAIN f : f[i].label.of = i
SameTabs(f) == \A i \in DOMAIN f \cap DOMAIN db : f[i].tab = db[i].tab
OfTab(ids, t) == ids \subseteq 1 .. born /\ \A i \in ids \cap DOMAIN db : db[i].tab = t

(* What each kind of handler calls, and what it carries for that.          *)
Paired(t) ==
    \/ t.kind = "load" /\ t.call = "list"
    \/ t.kind = "create" /\ t.call \in {"create", "list"}
    \/ t.kind \in {"single", "batch"} /\ t.call \in {"create", "list"} /\ screen = "accounts"
    \/ t.kind \in {"row", "bulk"} /\ t.call \in {"enable", "delete", "list"}
    \/ t.kind = "edit" /\ t.call \in {"rename", "list"}
    \/ t.kind = "export" /\ t.call = "read" /\ screen = "accounts"
    \/ t.kind = "none" /\ t.call = "none" /\ t.ans = "none" /\ ~t.done

InLoop(t) == t.kind = "bulk" /\ t.call \in {"enable", "delete"}
LeftIn(t) == t.todo \cup {t.id}

Sound(t) ==
    /\ t \in Task /\ Paired(t)
    /\ t.call = "create" => t.tab \in Tabs
    /\ t.call = "rename" => t.label \in Label /\ t.label.of = t.id
    /\ t.done => t.kind = "batch" \/ (t.kind = "create" /\ screen = "proxies")
    /\ t.stamp <= served /\ DOMAIN t.snap \subseteq 1 .. born /\ Labelled(t.snap) /\ SameTabs(t.snap)
    /\ InLoop(t) => OfTab(LeftIn(t), t.tab) /\ (Prunes => LeftIn(t) \subseteq t.chosen)

OnPage ==
    /\ Labelled(db) /\ Labelled(rows) /\ SameTabs(rows)
    /\ editing # None => form.of = editing
    /\ OfTab(selected, tab) /\ (Prunes => selected \subseteq VisibleIds)

(* A flag is up while the one handler that has raised it is in flight.     *)
Stands(flag, kinds) ==
    /\ flag <=> InFlight(kinds)
    /\ \A s, r \in Slots : task[s].kind \in kinds /\ task[r].kind \in kinds => s = r

Backed ==
    /\ Stands(saving, {"create"}) /\ Stands(editSaving, {"edit"}) /\ Stands(bulkBusy, BusyKinds)
    /\ loading => \E s \in Slots : task[s].call = "list"

(* A handler that has changed something, or goes through a loop that may   *)
(* have, owes the page a load; so does one whose load is not answered.     *)
Owes(t) ==
    \/ t.call # "list" /\ (t.kind \in {"bulk", "batch"} \/ t.done)
    \/ t.call = "list" /\ t.ans # "ok"
    \/ t.call \notin {"list", "read"} /\ t.ans = "ok"
Owed == \E s \in Slots : Owes(task[s])

(* The newest list that was answered, in flight or on screen, is what the  *)
(* server has, or a load is owed, or nothing will tell (missed).           *)
Fresh(f, n) == n = served /\ n > missed => f = db \/ Owed
Brings(t) == t.call = "list" /\ t.ans = "ok"

Current ==
    /\ Fresh(rows, applied)
    /\ \A s \in Slots : Brings(task[s]) => Fresh(task[s].snap, task[s].stamp)

IInv == /\ Typed /\ (\A s \in Slots : Sound(task[s])) /\ OnPage
        /\ at = "page" => Backed /\ Current

LEMMA TableIsTable ==
    ASSUME NEW f \in Table
    PROVE  IsTable(f) /\ f = [i \in DOMAIN f |-> f[i]]
  BY DEF Table, IsTable

LEMMA TablesAre ==
    ASSUME NEW S \in SUBSET Ids, NEW f \in [S -> Row] PROVE f \in Table /\ DOMAIN f = S
  BY DEF Table

LEMMA FreeIsSound ==
    ASSUME served \in Nat
    PROVE  Sound(Free) /\ ~Owes(Free) /\ ~Brings(Free) /\ Free.kind = "none"
<1>1. NoRows \in Table /\ DOMAIN NoRows = {}
  <2>1. NoRows \in [{} -> Row] BY DEF NoRows
  <2> QED BY <2>1, TablesAre
<1>2. Free \in Task BY <1>1 DEF Free, Task
<1>3. Sound(Free) BY <1>1, <1>2 DEF Free, Sound, Paired, Labelled, SameTabs, InLoop
<1> QED BY <1>3 DEF Free, Owes, Brings

(***************************************************************************)
(* Handlers that start, go on and end.                                     *)
(***************************************************************************)
(* How a flag follows the handler in s, which becomes h. *)
Follows(flag, flag2, kinds, s, h) ==
    /\ h.kind \in kinds /\ task[s].kind \notin kinds => ~flag
    /\ flag2 <=> h.kind \in kinds \/ (flag /\ task[s].kind \notin kinds)

LEMMA FlagStep ==
    ASSUME NEW kinds, NEW flag, NEW flag2, Stands(flag, kinds), task \in [Slots -> Task],
           NEW s \in Slots, NEW h, task' = [task EXCEPT ![s] = h], Follows(flag, flag2, kinds, s, h)
    PROVE  /\ flag2 <=> InFlight(kinds)'
           /\ \A r, q \in Slots : task'[r].kind \in kinds /\ task'[q].kind \in kinds => r = q
<1>1. task'[s] = h /\ \A r \in Slots \ {s} : task'[r] = task[r] OBVIOUS
<1>2. flag2 <=> InFlight(kinds)' BY <1>1 DEF Stands, Follows, InFlight
<1>3. \A r, q \in Slots : task'[r].kind \in kinds /\ task'[q].kind \in kinds => r = q
  BY <1>1 DEF Stands, Follows, InFlight
<1> QED BY <1>2, <1>3

Flags(s, h) ==
    /\ Follows(saving, saving', {"create"}, s, h) /\ Follows(editSaving, editSaving', {"edit"}, s, h)
    /\ Follows(bulkBusy, bulkBusy', BusyKinds, s, h)
    /\ loading' => h.call = "list" \/ (loading /\ task[s].call # "list")

(* The list on screen stays; no list arrives. *)
Quiet ==
    /\ UNCHANGED <<screen, db, born, served, rows, applied, tab, view, page, pageSize, form>>
    /\ at = "page" /\ at' \in {"page", "login"}
    /\ missed' \in {missed, served} /\ selected' \in {selected, {}} /\ editing' \in {editing, None}
    /\ composer' \in {"closed", "add", "batch", "import"}
    /\ {live', loading', listError', saving', bulkBusy', editSaving'} \subseteq BOOLEAN

LEMMA AdvanceStep ==
    ASSUME IInv, Quiet, NEW s \in Slots, NEW h, task' = [task EXCEPT ![s] = h],
           Sound(h), ~Brings(h),
           at' = "page" => Flags(s, h) /\ (Owes(task[s]) /\ missed' # served => Owes(h))
    PROVE  IInv'
<1>1. Typed /\ task \in [Slots -> Task] /\ (\A r \in Slots : Sound(task[r])) /\ OnPage /\ Backed /\ Current
  BY DEF IInv, Quiet, Typed
<1>2. task'[s] = h /\ \A r \in Slots \ {s} : task'[r] = task[r] BY <1>1
<1>3. Typed' 
  <2>1. task' \in [Slots -> Task] BY <1>1 DEF Sound
  <2> QED BY <1>1, <2>1 DEF Typed, Quiet
<1>4. \A t : Sound(t)' <=> Sound(t)
  BY DEF Quiet, Sound, Paired, Labelled, SameTabs, OfTab, Prunes
<1>5. \A r \in Slots : Sound(task[r])' BY <1>1, <1>2, <1>4
<1>6. VisibleIds' = VisibleIds BY DEF Quiet, VisibleIds, Matching
<1>7. OnPage' BY <1>1, <1>6 DEF OnPage, Quiet, Labelled, SameTabs, OfTab, Prunes
<1>8. ASSUME at' = "page" PROVE Backed'
  <2>1. Flags(s, h) BY <1>8
  <2>2. Stands(saving, {"create"})' BY <1>1, <2>1, FlagStep DEF Backed, Flags, Stands
  <2>3. Stands(editSaving, {"edit"})' BY <1>1, <2>1, FlagStep DEF Backed, Flags, Stands
  <2>4. Stands(bulkBusy, BusyKinds)' BY <1>1, <2>1, FlagStep DEF Backed, Flags, Stands, BusyKinds
  <2>5. loading' => \E r \in Slots : task'[r].call = "list" BY <1>1, <1>2, <2>1 DEF Backed, Flags
  <2> QED BY <2>2, <2>3, <2>4, <2>5 DEF Backed
<1>9. ASSUME at' = "page" PROVE Current'
  <2>1. missed' = served \/ (missed' = missed /\ (Owed => Owed')) BY <1>2, <1>9 DEF Owed, Quiet
  <2>2. served \in Nat BY <1>1 DEF Typed
  <2>3. \A f, n : Fresh(f, n) => Fresh(f, n)' BY <2>1, <2>2 DEF Fresh, Quiet
  <2>4. \A r \in Slots : Brings(task[r])' => r # s BY <1>2 DEF Brings
  <2> QED BY <1>1, <1>2, <2>3, <2>4 DEF Current, Quiet, Brings
<1> QED BY <1>3, <1>5, <1>7, <1>8, <1>9 DEF IInv

(* A handler goes on as one of its kind, with no flag changed but loading. *)
LEMMA GoesOnStep ==
    ASSUME IInv, Quiet, at' = at, NEW s \in Slots, NEW h, task' = [task EXCEPT ![s] = h],
           Sound(h), ~Brings(h), h.kind = task[s].kind, Owes(task[s]) => Owes(h),
           UNCHANGED <<saving, editSaving, bulkBusy>>,
           h.call = "list" \/ (loading' = loading /\ task[s].call # "list")
    PROVE  IInv'
<1>1. Backed /\ task \in [Slots -> Task] BY DEF IInv, Quiet, Typed
<1>2. \A kinds : task[s].kind \in kinds => InFlight(kinds) BY DEF InFlight
<1>3. Flags(s, h) BY <1>1, <1>2 DEF Flags, Follows, Backed, Stands
<1> QED BY <1>3, AdvanceStep

(* It ends; what it owes is either paid or missed. *)
LEMMA EndsStep ==
    ASSUME IInv, Quiet, NEW s \in Slots, Ends(s),
           at' = "page" => /\ task[s].call = "list" => ~loading'
                           /\ task[s].call # "list" => loading' = loading
                           /\ Owes(task[s]) => missed' = served
    PROVE  IInv'
<1>1. served \in Nat BY DEF IInv, Typed
<1>2. Sound(Free) /\ ~Owes(Free) /\ ~Brings(Free) /\ Free.kind = "none" BY <1>1, FreeIsSound
<1>3. task' = [task EXCEPT ![s] = Free] BY DEF Ends, Put
<1>4. at' = "page" => Flags(s, Free)
  BY <1>2 DEF Flags, Follows, Ends, Release, BusyKinds
<1> QED BY <1>2, <1>3, <1>4, AdvanceStep

(* One starts, in a slot that is free, and raises its flag. *)
LEMMA StartStep ==
    ASSUME IInv, Quiet, at' = at, NEW s \in Slots, IsFree(s), NEW h, Start(s, h),
           Sound(h), ~Brings(h),
           h.kind = "create" => ~saving, h.kind = "edit" => ~editSaving,
           h.kind \in BusyKinds => ~bulkBusy,
           saving' = (saving \/ h.kind = "create"), editSaving' = (editSaving \/ h.kind = "edit"),
           bulkBusy' = (bulkBusy \/ h.kind \in BusyKinds),
           loading' => h.call = "list" \/ loading
    PROVE  IInv'
<1>1. task' = [task EXCEPT ![s] = h] BY DEF Start, Put
<1>2. task[s].kind = "none" /\ task[s].call # "list" /\ ~Owes(task[s])
  BY DEF IsFree, IInv, Sound, Paired, Owes
<1>3. Flags(s, h) BY <1>2 DEF Flags, Follows, BusyKinds
<1> QED BY <1>1, <1>2, <1>3, AdvanceStep

(***************************************************************************)
(* Clicks.                                                                 *)
(***************************************************************************)
(* What a click hands to a new handler, beside its kind and its call. *)
LEMMA HandlerFields ==
    ASSUME IInv, NEW h \in Task, h.ans = "none", ~h.done, h.snap = NoRows, h.stamp = 0,
           Paired(h), h.call = "create" => h.tab \in Tabs,
           h.call = "rename" => h.label \in Label /\ h.label.of = h.id,
           InLoop(h) => OfTab(LeftIn(h), h.tab) /\ (Prunes => LeftIn(h) \subseteq h.chosen)
    PROVE  Sound(h) /\ ~Brings(h)
<1>1. served \in Nat BY DEF IInv, Typed
<1>2. DOMAIN NoRows = {} BY DEF NoRows
<1>3. Sound(h) BY <1>1, <1>2 DEF Sound, Labelled, SameTabs
<1> QED BY <1>3 DEF Brings

LEMMA HandlerType ==
    ASSUME IInv
    PROVE  /\ Free \in Task /\ Free.ans = "none" /\ ~Free.done /\ Free.snap = NoRows /\ Free.stamp = 0
  BY FreeIsSound DEF IInv, Typed, Sound, Free

LEMMA LoadClick ==
    ASSUME IInv, UNCHANGED screen, NEW s \in Slots, MayStart(s), NEW hard \in BOOLEAN, StartLoad(s, hard)
    PROVE  IInv'
<1> DEFINE h == Handler("load", "list")
<1>1. /\ h \in Task /\ h.ans = "none" /\ ~h.done /\ h.snap = NoRows /\ h.stamp = 0
      /\ h.kind = "load" /\ h.call = "list"
  BY HandlerType DEF Handler, Task
<1>2. Start(s, h) /\ loading' = (hard \/ loading) BY DEF StartLoad
<1> HIDE DEF h
<1>3. Sound(h) /\ ~Brings(h) BY <1>1, HandlerFields DEF Paired, InLoop
<1>4. Quiet /\ at' = at /\ IsFree(s) /\ UNCHANGED <<saving, editSaving, bulkBusy>>
  BY DEF StartLoad, StayOnPage, MayStart, Quiet, IInv, Typed, serverVars, viewVars
<1> QED BY <1>1, <1>2, <1>3, <1>4, StartStep DEF BusyKinds, IInv, Typed

LEMMA CreateClick ==
    ASSUME IInv, UNCHANGED screen, NEW s \in Slots, MayStart(s), ~saving, NEW n \in 1 .. 2, StartCreate(s, n)
    PROVE  IInv'
<1> DEFINE h == [Handler("create", "create") EXCEPT !.tab = tab, !.more = n - 1]
<1>1. /\ h \in Task /\ h.ans = "none" /\ ~h.done /\ h.snap = NoRows /\ h.stamp = 0
      /\ h.kind = "create" /\ h.call = "create" /\ h.tab \in Tabs
  <2>1. n - 1 \in Nat /\ tab \in Tabs BY DEF IInv, Typed
  <2> QED BY <2>1, HandlerType DEF Handler, Task
<1>2. Start(s, h) /\ saving' = TRUE BY DEF StartCreate
<1> HIDE DEF h
<1>3. Sound(h) /\ ~Brings(h) BY <1>1, HandlerFields DEF Paired, InLoop
<1>4. Quiet /\ at' = at /\ IsFree(s) /\ UNCHANGED <<loading, editSaving, bulkBusy>>
  BY DEF StartCreate, StayOnPage, MayStart, Quiet, IInv, Typed, serverVars, viewVars
<1> QED BY <1>1, <1>2, <1>3, <1>4, StartStep DEF BusyKinds, IInv, Typed

LEMMA RowClick ==
    ASSUME IInv, UNCHANGED screen, NEW s \in Slots, MayStart(s), NEW i \in Ids, i \in DOMAIN rows,
           NEW call \in {"enable", "delete"}, StartRow(s, call, i)
    PROVE  IInv'
<1> DEFINE h == [Handler("row", call) EXCEPT !.id = i, !.on = ~rows[i].on]
<1>1. /\ h \in Task /\ h.ans = "none" /\ ~h.done /\ h.snap = NoRows /\ h.stamp = 0
      /\ h.kind = "row" /\ h.call = call
  <2>1. (~rows[i].on) \in BOOLEAN OBVIOUS
  <2> QED BY <2>1, HandlerType DEF Handler, Task
<1>2. Start(s, h) BY DEF StartRow
<1> HIDE DEF h
<1>3. Sound(h) /\ ~Brings(h) BY <1>1, HandlerFields DEF Paired, InLoop
<1>4. Quiet /\ at' = at /\ IsFree(s) /\ UNCHANGED <<loading, saving, editSaving, bulkBusy>>
  BY DEF StartRow, StayOnPage, MayStart, Quiet, IInv, Typed, serverVars, viewVars
<1> QED BY <1>1, <1>2, <1>3, <1>4, StartStep DEF BusyKinds, IInv, Typed

(* The form of the edit dialog carries the label of the row it was opened on. *)
LEMMA EditClick ==
    ASSUME IInv, UNCHANGED screen, NEW s \in Slots, MayStart(s), editing # None, ~editSaving, StartEdit(s)
    PROVE  IInv'
<1>1. form.of = editing /\ form \in Label /\ editing \in Ids
  BY DEF IInv, OnPage, Typed, NoLabel
<1>2. PICK text \in {form, [of |-> editing, new |-> TRUE]} :
         Start(s, [Handler("edit", "rename") EXCEPT !.id = editing, !.label = text])
  BY DEF StartEdit
<1>3. text \in Label /\ text.of = editing
  <2>1. [of |-> editing, new |-> TRUE] \in Label BY <1>1 DEF Label
  <2>2. text \in {form, [of |-> editing, new |-> TRUE]} BY <1>2, Zenon
  <2>3. [of |-> editing, new |-> TRUE].of = editing OBVIOUS
  <2> QED BY <1>1, <2>1, <2>2, <2>3, Zenon
<1> DEFINE h == [Handler("edit", "rename") EXCEPT !.id = editing, !.label = text]
<1>4. /\ h \in Task /\ h.ans = "none" /\ ~h.done /\ h.snap = NoRows /\ h.stamp = 0
      /\ h.kind = "edit" /\ h.call = "rename" /\ h.label \in Label /\ h.label.of = h.id
  BY <1>1, <1>3, HandlerType DEF Handler, Task
<1>5. Start(s, h) /\ editSaving' = TRUE BY <1>2 DEF StartEdit
<1> HIDE DEF h
<1>6. Sound(h) /\ ~Brings(h) BY <1>4, HandlerFields DEF Paired, InLoop
<1>7. Quiet /\ at' = at /\ IsFree(s) /\ UNCHANGED <<loading, saving, bulkBusy>>
  BY DEF StartEdit, StayOnPage, MayStart, Quiet, IInv, Typed, serverVars, viewVars
<1> QED BY <1>4, <1>5, <1>6, <1>7, StartStep DEF BusyKinds, IInv, Typed

(* A loop takes the selection: rows of the tab, on most pages of the screen. *)
LEMMA BulkClick ==
    ASSUME IInv, UNCHANGED screen, NEW s \in Slots, MayStart(s), ~bulkBusy,
           NEW call \in {"enable", "delete"}, NEW on \in BOOLEAN, StartBulk(s, call, on)
    PROVE  IInv'
<1>1. PICK i \in selected :
         Start(s, [Handler("bulk", call) EXCEPT !.id = i, !.on = on, !.tab = tab,
                                                !.todo = selected \ {i}, !.chosen = selected \cap VisibleIds])
  BY DEF StartBulk
<1> DEFINE h == [Handler("bulk", call) EXCEPT !.id = i, !.on = on, !.tab = tab,
                                              !.todo = selected \ {i}, !.chosen = selected \cap VisibleIds]
<1>2. /\ h \in Task /\ h.ans = "none" /\ ~h.done /\ h.snap = NoRows /\ h.stamp = 0
      /\ h.kind = "bulk" /\ h.call = call /\ h.tab = tab
      /\ h.chosen = selected \cap VisibleIds /\ h.id = i /\ h.todo = selected \ {i}
  BY HandlerType DEF Handler, Task, IInv, Typed
<1>3. Start(s, h) /\ bulkBusy' = TRUE BY <1>1 DEF StartBulk
<1> HIDE DEF h
<1>4. LeftIn(h) = selected BY <1>2 DEF LeftIn
<1>5. OfTab(selected, tab) /\ (Prunes => selected \subseteq VisibleIds) BY DEF IInv, OnPage
<1>6. Sound(h) /\ ~Brings(h) BY <1>2, <1>4, <1>5, HandlerFields DEF Paired
<1>7. Quiet /\ at' = at /\ IsFree(s) /\ UNCHANGED <<loading, saving, editSaving>>
  BY DEF StartBulk, StayOnPage, MayStart, Quiet, IInv, Typed, serverVars, viewVars
<1> QED BY <1>2, <1>3, <1>6, <1>7, StartStep DEF BusyKinds, IInv, Typed

(* The dialogs and the export of the accounts page, which share one flag. *)
LEMMA BusyClick ==
    ASSUME IInv, UNCHANGED screen, screen = "accounts", NEW s \in Slots, MayStart(s),
           NEW h \in Task, Accounts!StartBusy(s, h), h.ans = "none", ~h.done, h.snap = NoRows, h.stamp = 0,
           \/ h.kind \in {"single", "batch"} /\ h.call = "create" /\ h.tab \in Tabs
           \/ h.kind = "export" /\ h.call = "read",
           listError' \in BOOLEAN
    PROVE  IInv'
<1>1. ~bulkBusy /\ bulkBusy' = TRUE /\ Start(s, h)
  BY Zenon DEF Accounts!StartBusy, Accounts!Start, Start, Accounts!Put, Put
<1>2. Sound(h) /\ ~Brings(h) BY HandlerFields DEF Paired, InLoop
<1>3. Quiet /\ at' = at /\ IsFree(s) /\ UNCHANGED <<loading, saving, editSaving>>
  BY DEF Accounts!StartBusy, MayStart, Quiet, IInv, Typed, Accounts!serverVars, Accounts!viewVars
<1> QED BY <1>1, <1>2, <1>3, StartStep DEF BusyKinds, IInv, Typed

(***************************************************************************)
(* Answers that lead a handler on.                                         *)
(***************************************************************************)
LEMMA InSlot ==
    ASSUME IInv, NEW s \in Slots
    PROVE  task[s] \in Task /\ Sound(task[s])
  BY DEF IInv, Typed

LEMMA RefuseStep ==
    ASSUME IInv, UNCHANGED screen, at = "page", NEW s \in Slots, Refuse(s),
           UNCHANGED <<dataVars, viewVars, formVars, at, work, moves>>
    PROVE  IInv'
<1>1. PICK ans \in {"failed", "unauthorized"} : task' = [task EXCEPT ![s] = [task[s] EXCEPT !.ans = ans]]
  BY DEF Refuse, Give, Put
<1> DEFINE h == [task[s] EXCEPT !.ans = ans]
<1>2. task[s] \in Task /\ Sound(task[s]) /\ task[s].kind # "none" /\ task[s].ans = "none"
  BY InSlot DEF Refuse, Waiting, IsFree
<1>3. /\ h \in Task /\ h.ans = ans /\ h.kind = task[s].kind /\ h.call = task[s].call /\ h.done = task[s].done
      /\ h.tab = task[s].tab /\ h.label = task[s].label /\ h.id = task[s].id /\ h.stamp = task[s].stamp
      /\ h.snap = task[s].snap /\ h.todo = task[s].todo /\ h.chosen = task[s].chosen
  BY <1>2 DEF Task
<1>4. task' = [task EXCEPT ![s] = h] BY <1>1
<1> HIDE DEF h
<1>5. Sound(h) BY <1>2, <1>3 DEF Sound, Paired, InLoop, LeftIn
<1>6. ~Brings(h) /\ (Owes(task[s]) => Owes(h)) BY <1>2, <1>3 DEF Brings, Owes
<1>7. Quiet
  BY DEF Refuse, Quiet, serverVars, dataVars, viewVars, formVars, IInv, Typed
<1>8. UNCHANGED <<at, loading, saving, editSaving, bulkBusy>> BY DEF formVars, dataVars
<1> QED BY <1>3, <1>4, <1>5, <1>6, <1>7, <1>8, GoesOnStep

LEMMA BulkNextStep ==
    ASSUME IInv, UNCHANGED screen, NEW s \in Slots, BulkNext(s)
    PROVE  IInv'
<1>1. PICK i \in task[s].todo :
         task' = [task EXCEPT ![s] = [task[s] EXCEPT !.id = i, !.todo = @ \ {i}, !.ans = "none"]]
  BY DEF BulkNext, Put
<1> DEFINE h == [task[s] EXCEPT !.id = i, !.todo = @ \ {i}, !.ans = "none"]
<1>2. /\ task[s] \in Task /\ Sound(task[s]) /\ at = "page"
      /\ task[s].kind \in {"bulk", "export"} /\ task[s].call # "list"
  BY InSlot DEF BulkNext, BulkAnswered
<1>3. task[s].kind = "bulk" => task[s].call \in {"enable", "delete"} BY <1>2 DEF Sound, Paired
<1>4. /\ h \in Task /\ h.ans = "none" /\ h.kind = task[s].kind /\ h.call = task[s].call /\ h.done = task[s].done
      /\ h.tab = task[s].tab /\ h.label = task[s].label /\ h.stamp = task[s].stamp /\ h.snap = task[s].snap
      /\ h.chosen = task[s].chosen /\ h.id = i /\ h.todo = task[s].todo \ {i}
  BY <1>2 DEF Task
<1>5. task' = [task EXCEPT ![s] = h] BY <1>1
<1> HIDE DEF h
<1>6. LeftIn(h) \subseteq LeftIn(task[s]) BY <1>4 DEF LeftIn
<1>7. Sound(h) BY <1>2, <1>4, <1>6 DEF Sound, Paired, InLoop, OfTab
<1>8. ~Brings(h) /\ (Owes(task[s]) => Owes(h)) BY <1>2, <1>3, <1>4 DEF Brings, Owes, Sound, Paired
<1>9. Quiet BY <1>2 DEF BulkNext, Quiet, serverVars, dataVars, viewVars, formVars, IInv, Typed
<1>10. UNCHANGED <<at, loading, saving, editSaving, bulkBusy>> BY DEF BulkNext, formVars, dataVars
<1> QED BY <1>2, <1>4, <1>5, <1>7, <1>8, <1>9, <1>10, GoesOnStep

(* Pasted items: a success among those behind it is kept in done. *)
LEMMA NextItemStep ==
    ASSUME IInv, UNCHANGED screen, NEW s \in Slots, NextItem(s), screen = "proxies" \/ task[s].kind = "batch"
    PROVE  IInv'
<1> DEFINE h == [task[s] EXCEPT !.more = @ - 1, !.ans = "none", !.done = SomeDone(s), !.failed = SomeFailed(s)]
<1>1. /\ task[s] \in Task /\ Sound(task[s]) /\ at = "page" /\ task[s].call = "create" /\ task[s].more > 0
      /\ task' = [task EXCEPT ![s] = h]
  BY InSlot DEF NextItem, ItemAnswered, Put
<1>2. task[s].kind = "batch" \/ (task[s].kind = "create" /\ screen = "proxies") BY <1>1 DEF Sound, Paired
<1>3. task[s].more - 1 \in Nat /\ SomeDone(s) \in BOOLEAN /\ SomeFailed(s) \in BOOLEAN
  <2>1. task[s].more \in Nat BY <1>1 DEF Task
  <2> QED BY <1>1, <2>1 DEF SomeDone, SomeFailed
<1>4. /\ h \in Task /\ h.ans = "none" /\ h.kind = task[s].kind /\ h.call = "create" /\ h.done = SomeDone(s)
      /\ h.tab = task[s].tab /\ h.label = task[s].label /\ h.stamp = task[s].stamp /\ h.snap = task[s].snap
  <2> DEFINE next(m, d, f) == [task[s] EXCEPT !.more = m, !.ans = "none", !.done = d, !.failed = f]
  <2>1. ASSUME NEW m \in Nat, NEW d \in BOOLEAN, NEW f \in BOOLEAN
        PROVE  /\ next(m, d, f) \in Task /\ next(m, d, f).ans = "none" /\ next(m, d, f).kind = task[s].kind
               /\ next(m, d, f).call = task[s].call /\ next(m, d, f).done = d
               /\ next(m, d, f).tab = task[s].tab /\ next(m, d, f).label = task[s].label
               /\ next(m, d, f).stamp = task[s].stamp /\ next(m, d, f).snap = task[s].snap
    BY <1>1 DEF Task
  <2>2. h = next(task[s].more - 1, SomeDone(s), SomeFailed(s)) OBVIOUS
  <2> HIDE DEF next, h
  <2> QED BY <1>1, <1>3, <2>1, <2>2, Zenon
<1> HIDE DEF h
<1>5. Sound(h) BY <1>1, <1>2, <1>4 DEF Sound, Paired, InLoop
<1>6. ~Brings(h) /\ (Owes(task[s]) => Owes(h)) BY <1>1, <1>4 DEF Brings, Owes, SomeDone
<1>7. Quiet BY <1>1 DEF NextItem, Quiet, serverVars, dataVars, viewVars, formVars, IInv, Typed
<1>8. UNCHANGED <<at, loading, saving, editSaving, bulkBusy>> BY DEF NextItem, formVars, dataVars
<1> QED BY <1>1, <1>4, <1>5, <1>6, <1>7, <1>8, GoesOnStep

(* load(), at the end of a handler that has changed something. *)
LEMMA ReloadStep ==
    ASSUME IInv, Quiet, at' = at, NEW s \in Slots, task[s].kind \notin {"none", "export"},
           Put(s, [task[s] EXCEPT !.call = "list", !.ans = "none"]),
           UNCHANGED <<saving, editSaving, bulkBusy>>
    PROVE  IInv'
<1> DEFINE h == [task[s] EXCEPT !.call = "list", !.ans = "none"]
<1>1. task[s] \in Task /\ Sound(task[s]) BY InSlot
<1>2. task' = [task EXCEPT ![s] = h] BY DEF Put
<1>3. /\ h \in Task /\ h.ans = "none" /\ h.kind = task[s].kind /\ h.call = "list" /\ h.done = task[s].done
      /\ h.stamp = task[s].stamp /\ h.snap = task[s].snap
  BY <1>1 DEF Task
<1> HIDE DEF h
<1>4. Sound(h) BY <1>1, <1>3 DEF Sound, Paired, InLoop
<1>5. ~Brings(h) /\ Owes(h) BY <1>3 DEF Brings, Owes
<1> QED BY <1>2, <1>3, <1>4, <1>5, GoesOnStep

LEMMA ChangedStep ==
    ASSUME IInv, UNCHANGED screen, NEW s \in Slots, NEW hard \in BOOLEAN,
           \/ CreateSucceeds(s, hard) \/ RowSucceeds(s, hard) \/ EditSucceeds(s, hard)
           \/ BulkDone(s, hard) /\ (screen # "accounts" \/ task[s].kind = "bulk")
    PROVE  IInv'
<1>1. Sound(task[s]) /\ Typed BY InSlot DEF IInv
<1>2. at = "page" /\ Reload(s, hard)
  BY DEF CreateSucceeds, RowSucceeds, EditSucceeds, BulkDone, BulkAnswered, Answered
<1>3. task[s].kind \notin {"none", "export"}
  <2>1. CASE CreateSucceeds(s, hard) BY <1>1, <2>1 DEF CreateSucceeds, Answered, Sound, Paired
  <2>2. CASE RowSucceeds(s, hard) BY <2>2 DEF RowSucceeds
  <2>3. CASE EditSucceeds(s, hard) BY <1>1, <2>3 DEF EditSucceeds, Answered, Sound, Paired
  <2>4. CASE BulkDone(s, hard) /\ (screen # "accounts" \/ task[s].kind = "bulk")
    BY <1>1, <2>4 DEF BulkDone, BulkAnswered, Sound, Paired
  <2> QED BY <2>1, <2>2, <2>3, <2>4
<1>4. Quiet /\ at' = at
  BY <1>1, <1>2 DEF Quiet, Reload, CreateSucceeds, RowSucceeds, EditSucceeds, BulkDone, Typed, serverVars, viewVars
<1>5. Put(s, [task[s] EXCEPT !.call = "list", !.ans = "none"]) /\ UNCHANGED <<saving, editSaving, bulkBusy>>
  BY <1>2 DEF Reload
<1> QED BY <1>3, <1>4, <1>5, ReloadStep

(* What is given up is not owed: the handlers that can owe are not these. *)
LEMMA GivenUpStep ==
    ASSUME IInv, UNCHANGED screen, NEW s \in Slots, NEW kinds \in SUBSET {"create", "row", "edit"},
           "create" \in kinds => screen # "proxies",
           ListFails(s) \/ ChangeFails(s, kinds) \/ SignedOut(s)
    PROVE  IInv'
<1>1. task[s] \in Task /\ Sound(task[s]) /\ Typed BY InSlot DEF IInv
<1>2. at = "page" /\ Ends(s) BY DEF ListFails, ChangeFails, SignedOut, Answered
<1>3. Quiet
  BY <1>1, <1>2 DEF Quiet, ListFails, ChangeFails, SignedOut, Ends, Release, Typed,
                   serverVars, viewVars, dataVars, budgetVars
<1>4. CASE ListFails(s) BY <1>2, <1>3, <1>4, EndsStep DEF ListFails, Answered
<1>5. CASE ChangeFails(s, kinds)
  <2>1. task[s].call # "list" /\ task[s].ans = "failed" /\ task[s].kind \in kinds /\ loading' = loading
    BY <1>5 DEF ChangeFails, dataVars
  <2>2. ~Owes(task[s]) BY <1>1, <2>1 DEF Owes, Sound
  <2> QED BY <1>2, <1>3, <2>1, <2>2, EndsStep
<1>6. CASE SignedOut(s) BY <1>2, <1>3, <1>6, EndsStep DEF SignedOut
<1> QED BY <1>4, <1>5, <1>6

(***************************************************************************)
(* The server.                                                             *)
(***************************************************************************)
(* A list answer is newer than any other, and shows what the server has. *)
LEMMA ServeListStep ==
    ASSUME IInv, UNCHANGED screen, at = "page", NEW s \in Slots, ServeList(s),
           UNCHANGED <<dataVars, viewVars, formVars, at, work, moves>>
    PROVE  IInv'
<1>0. PICK h : h = [task[s] EXCEPT !.ans = "ok", !.snap = db, !.stamp = served + 1] OBVIOUS
<1>1. /\ task[s] \in Task /\ task \in [Slots -> Task] /\ Typed /\ OnPage /\ Backed /\ Current
      /\ (\A r \in Slots : Sound(task[r])) /\ task[s].call = "list"
  BY InSlot DEF IInv, Typed, ServeList
<1>2. /\ task' = [task EXCEPT ![s] = h] /\ served' = served + 1 /\ served \in Nat
      /\ UNCHANGED <<db, born, live, missed, rows, applied, loading, listError, tab, view, page, pageSize, selected>>
      /\ UNCHANGED <<composer, saving, bulkBusy, editSaving, editing, form, at, screen>>
  BY <1>0, <1>1 DEF ServeList, Put, Typed, dataVars, viewVars, formVars
<1>3. /\ h \in Task /\ h.ans = "ok" /\ h.kind = task[s].kind /\ h.call = "list" /\ h.done = task[s].done
      /\ h.stamp = served + 1 /\ h.snap = db
  <2>1. db \in Table /\ served + 1 \in Nat BY <1>1, <1>2 DEF Typed
  <2>2. task[s] \in Task /\ task[s].call = "list" BY <1>1
  <2> QED BY <1>0, <2>1, <2>2 DEF Task
<1>4. task' \in [Slots -> Task] /\ task'[s] = h /\ \A r \in Slots \ {s} : task'[r] = task[r]
  BY <1>1, <1>2, <1>3
<1>5. Typed'
  <2>1. served' \in Nat /\ applied \in 0 .. served' /\ missed \in 0 .. served' BY <1>1, <1>2 DEF Typed
  <2> QED BY <1>1, <1>2, <1>4, <2>1 DEF Typed
<1>6. \A t : Sound(t) => Sound(t)'
  <2>1. \A t \in Task : t.stamp <= served => t.stamp <= served + 1 BY <1>2 DEF Task
  <2> QED BY <1>2, <2>1 DEF Sound, Paired, Labelled, SameTabs, OfTab, Prunes
<1>7. Sound(h)'
  <2>1. Labelled(db)' /\ SameTabs(db)' /\ (DOMAIN db \subseteq 1 .. born)' /\ served + 1 <= served'
    BY <1>1, <1>2 DEF OnPage, SameTabs, Labelled, Typed
  <2>2. Paired(task[s]) /\ (task[s].done => task[s].kind = "batch" \/ (task[s].kind = "create" /\ screen = "proxies"))
    BY <1>1 DEF Sound
  <2>3. Paired(h)' BY <1>1, <1>2, <1>3, <2>2 DEF Paired
  <2>4. h.snap = db' /\ screen' = screen BY <1>2, <1>3
  <2> QED BY <1>3, <2>1, <2>2, <2>3, <2>4 DEF Sound, InLoop
<1>8. \A r \in Slots : Sound(task[r])' BY <1>1, <1>4, <1>6, <1>7
<1>9. VisibleIds' = VisibleIds
  <2>1. UNCHANGED <<rows, tab, view, page, pageSize>> BY <1>2
  <2> QED BY <2>1, Zenon DEF VisibleIds, Matching
<1>10. OnPage' BY <1>1, <1>2, <1>9 DEF OnPage, Labelled, SameTabs, OfTab, Prunes
<1>11. Backed'
  <2>1. \A r \in Slots : task'[r].kind = task[r].kind /\ task'[r].call = task[r].call BY <1>1, <1>3, <1>4
  <2> QED BY <1>1, <1>2, <2>1 DEF Backed, Stands, InFlight
<1>12. Current'
  <2>1. \A f, n : n \in 0 .. served => Fresh(f, n)' BY <1>2 DEF Fresh
  <2>2. \A r \in Slots : task[r].stamp \in 0 .. served BY <1>1, <1>2 DEF Sound, Task
  <2>3. applied \in 0 .. served BY <1>1 DEF Typed
  <2>4. Fresh(rows, applied)' BY <1>2, <2>1, <2>3
  <2>5. ASSUME NEW r \in Slots PROVE Fresh(task[r].snap, task[r].stamp)'
    <3>1. CASE r = s BY <1>2, <1>3, <1>4, <3>1 DEF Fresh
    <3>2. CASE r # s
      <4>1. task'[r].snap = task[r].snap /\ task'[r].stamp = task[r].stamp /\ task[r].stamp # served'
        BY <1>2, <1>4, <2>2, <3>2
      <4> QED BY <4>1 DEF Fresh
    <3> QED BY <3>1, <3>2
  <2> QED BY <2>4, <2>5 DEF Current
<1> QED BY <1>5, <1>8, <1>10, <1>11, <1>12 DEF IInv

(* What a change does to the table: ids are new or as they were, each with *)
(* the tab it had, and no row takes the label of another.                  *)
LEMMA EffectTable ==
    ASSUME db \in Table, DOMAIN db \subseteq 1 .. born, born \in 0 .. MaxId, Labelled(db), served \in Nat,
           NEW t \in Task, Sound(t), t.call \notin {"none", "list"},
           t.call = "create" => born < MaxId, t.call # "create" => t.id \in DOMAIN db
    PROVE  /\ Effect(t) \in Table /\ Labelled(Effect(t)) /\ (t.call = "read" => Effect(t) = db)
           /\ DOMAIN Effect(t) \subseteq 1 .. (IF t.call = "create" THEN born + 1 ELSE born)
           /\ \A i \in DOMAIN Effect(t) \cap (1 .. born) : i \in DOMAIN db /\ Effect(t)[i].tab = db[i].tab
<1>1. db \in [DOMAIN db -> Row] /\ DOMAIN db \in SUBSET Ids BY TableIsTable DEF IsTable
<1>2. CASE t.call = "create"
  <2> DEFINE S == DOMAIN db \cup {born + 1}
             f == [i \in S |-> IF i = born + 1 THEN NewRow(i, t.tab) ELSE db[i]]
  <2>1. Effect(t) = f BY <1>2 DEF Effect
  <2>2. born + 1 \in Ids /\ S \in SUBSET Ids /\ born + 1 \notin DOMAIN db /\ born + 1 \notin 1 .. born /\ S \subseteq 1 .. born + 1
    BY <1>1, <1>2, ListAssumption DEF Ids
  <2>3. NewRow(born + 1, t.tab) \in Row /\ NewRow(born + 1, t.tab).label.of = born + 1
    BY <1>2, <2>2 DEF NewRow, Row, Label, Sound
  <2>4. f \in [S -> Row] BY <1>1, <2>2, <2>3
  <2>5. f \in Table /\ DOMAIN f = S BY <2>2, <2>4, TablesAre
  <2>6. Labelled(f) BY <2>3 DEF Labelled
  <2>7. \A i \in S \cap (1 .. born) : i \in DOMAIN db /\ f[i].tab = db[i].tab BY <2>2
  <2> QED BY <1>2, <2>1, <2>2, <2>5, <2>6, <2>7
<1>3. CASE t.call = "rename"
  <2> DEFINE g == [db[t.id] EXCEPT !.label = t.label]
             f == [db EXCEPT ![t.id] = g]
  <2>1. Effect(t) = f BY <1>3 DEF Effect
  <2>2. t.label \in Label /\ t.label.of = t.id BY <1>3 DEF Sound
  <2>3. g \in Row /\ g.label = t.label /\ g.tab = db[t.id].tab BY <1>1, <1>3, <2>2 DEF Row
  <2> HIDE DEF g
  <2>4. f \in [DOMAIN db -> Row] BY <1>1, <2>3
  <2>5. f \in Table /\ DOMAIN f = DOMAIN db BY <1>1, <2>4, TablesAre
  <2>6. Labelled(f) BY <1>1, <2>2, <2>3 DEF Labelled
  <2>7. \A i \in DOMAIN db : f[i].tab = db[i].tab BY <1>1, <2>3
  <2> QED BY <1>3, <2>1, <2>5, <2>6, <2>7
<1>4. CASE t.call = "enable"
  <2> DEFINE g == [db[t.id] EXCEPT !.on = t.on]
             f == [db EXCEPT ![t.id] = g]
  <2>1. Effect(t) = f BY <1>4 DEF Effect
  <2>2. t.on \in BOOLEAN BY DEF Task
  <2>3. g \in Row /\ g.label = db[t.id].label /\ g.tab = db[t.id].tab BY <1>1, <1>4, <2>2 DEF Row
  <2> HIDE DEF g
  <2>4. f \in [DOMAIN db -> Row] BY <1>1, <2>3
  <2>5. f \in Table /\ DOMAIN f = DOMAIN db BY <1>1, <2>4, TablesAre
  <2>6. Labelled(f) BY <1>1, <2>3 DEF Labelled
  <2>7. \A i \in DOMAIN db : f[i].tab = db[i].tab BY <1>1, <2>3
  <2> QED BY <1>4, <2>1, <2>5, <2>6, <2>7
<1>5. CASE t.call = "delete"
  <2> DEFINE S == DOMAIN db \ {t.id}
             f == [i \in S |-> db[i]]
  <2>1. Effect(t) = f BY <1>5 DEF Effect
  <2>2. f \in [S -> Row] /\ S \in SUBSET Ids BY <1>1
  <2>3. f \in Table /\ DOMAIN f = S BY <2>2, TablesAre
  <2>4. Labelled(f) BY DEF Labelled
  <2> QED BY <1>5, <2>1, <2>3, <2>4
<1>6. CASE t.call = "read"
  <2>1. Effect(t) = db BY <1>6 DEF Effect
  <2> QED BY <1>6, <2>1
<1>7. t.call \in {"create", "rename", "enable", "delete", "read"} BY DEF Task
<1> QED BY <1>2, <1>3, <1>4, <1>5, <1>6, <1>7

(* The row a change is for keeps its tab, so what was sound stays sound; a *)
(* change that is answered is owed, one whose answer is lost is missed.    *)
LEMMA ServeChangeStep ==
    ASSUME IInv, UNCHANGED screen, at = "page", NEW s \in Slots, ServeChange(s),
           UNCHANGED <<dataVars, viewVars, formVars, at, work, moves>>
    PROVE  IInv'
<1>1. /\ task[s] \in Task /\ task \in [Slots -> Task] /\ Typed /\ OnPage /\ Backed /\ Current
      /\ \A r \in Slots : Sound(task[r])
  BY InSlot DEF IInv, Typed
<1>2. /\ task[s].kind # "none" /\ task[s].ans = "none" /\ task[s].call # "list"
      /\ task[s].call = "create" => born < MaxId
      /\ task[s].call # "create" => task[s].id \in DOMAIN db
      /\ db' = Effect(task[s]) /\ born' = IF task[s].call = "create" THEN born + 1 ELSE born
      /\ UNCHANGED <<live, served, rows, applied, loading, listError, tab, view, page, pageSize, selected>>
      /\ UNCHANGED <<composer, saving, bulkBusy, editSaving, editing, form, at, screen>>
  BY DEF ServeChange, Found, Waiting, IsFree, dataVars, viewVars, formVars
<1>3. task[s].call # "none" BY <1>1, <1>2 DEF Sound, Paired
<1>4. PICK ans \in {"ok", "failed"} : /\ task' = [task EXCEPT ![s] = [task[s] EXCEPT !.ans = ans]]
                                     /\ missed' = IF ans = "ok" THEN missed ELSE served
  BY Zenon DEF ServeChange, Give, Put
<1>5. PICK h : h = [task[s] EXCEPT !.ans = ans] OBVIOUS
<1>6. /\ h \in Task /\ h.ans = ans /\ h.kind = task[s].kind /\ h.call = task[s].call /\ h.done = task[s].done
      /\ h.tab = task[s].tab /\ h.label = task[s].label /\ h.id = task[s].id /\ h.stamp = task[s].stamp
      /\ h.snap = task[s].snap /\ h.todo = task[s].todo /\ h.chosen = task[s].chosen
  BY <1>1, <1>5 DEF Task
<1>7. task' \in [Slots -> Task] /\ task'[s] = h /\ \A r \in Slots \ {s} : task'[r] = task[r]
  BY <1>1, <1>4, <1>5, <1>6
<1>8. /\ db' \in Table /\ Labelled(db') /\ DOMAIN db' \subseteq 1 .. born' /\ (task[s].call = "read" => db' = db)
      /\ \A i \in DOMAIN db' \cap (1 .. born) : i \in DOMAIN db /\ db'[i].tab = db[i].tab
  BY <1>1, <1>2, <1>3, EffectTable DEF Typed, OnPage
<1>9. born' \in 0 .. MaxId /\ 1 .. born \subseteq 1 .. born' /\ served \in Nat
  BY <1>1, <1>2, ListAssumption DEF Typed
<1>10. Typed'
  <2>1. DOMAIN rows \subseteq 1 .. born' /\ missed' \in 0 .. served BY <1>1, <1>4, <1>9 DEF Typed
  <2> QED BY <1>1, <1>2, <1>7, <1>8, <1>9, <2>1 DEF Typed
<1>11. \A f : DOMAIN f \subseteq 1 .. born /\ SameTabs(f) => SameTabs(f)' BY <1>8 DEF SameTabs
<1>12. \A ids, t : OfTab(ids, t) => OfTab(ids, t)' BY <1>8, <1>9 DEF OfTab
<1>13. \A t : Sound(t) => Sound(t)'
  <2>1. \A t : Paired(t) => Paired(t)' BY <1>2 DEF Paired
  <2>2. Prunes' = Prunes BY <1>2 DEF Prunes
  <2>3. \A f : DOMAIN f \subseteq 1 .. born => DOMAIN f \subseteq 1 .. born' BY <1>9
  <2> QED BY <1>2, <1>11, <1>12, <2>1, <2>2, <2>3 DEF Sound
<1>14. Sound(h) BY <1>1, <1>2, <1>3, <1>6 DEF Sound, Paired, InLoop, LeftIn
<1>15. \A r \in Slots : Sound(task[r])' BY <1>1, <1>7, <1>13, <1>14
<1>16. OnPage'
  <2>1. VisibleIds' = VisibleIds
    <3>1. UNCHANGED <<rows, tab, view, page, pageSize>> BY <1>2
    <3> QED BY <3>1, Zenon DEF VisibleIds, Matching
  <2>2. Prunes' = Prunes BY <1>2 DEF Prunes
  <2>3. SameTabs(rows)' BY <1>1, <1>2, <1>11 DEF OnPage, Typed
  <2>4. OfTab(selected, tab)' BY <1>1, <1>2, <1>12 DEF OnPage
  <2>5. Labelled(rows)' BY <1>1, <1>2 DEF OnPage, Labelled
  <2>6. Labelled(db)' BY <1>8 DEF Labelled
  <2> QED BY <1>1, <1>2, <2>1, <2>2, <2>3, <2>4, <2>5, <2>6 DEF OnPage
<1>17. Backed'
  <2>1. \A r \in Slots : task'[r].kind = task[r].kind /\ task'[r].call = task[r].call BY <1>1, <1>6, <1>7
  <2> QED BY <1>1, <1>2, <2>1 DEF Backed, Stands, InFlight
<1>18. Current'
  <2>1. \A r \in Slots : Brings(task[r])' => /\ Brings(task[r]) /\ task'[r].snap = task[r].snap
                                             /\ task'[r].stamp = task[r].stamp
    BY <1>2, <1>6, <1>7 DEF Brings
  <2>2. CASE ans = "failed"
    <3>1. \A f, n : Fresh(f, n)' BY <1>2, <1>4, <1>9, <2>2 DEF Fresh
    <3> QED BY <3>1, Zenon DEF Current
  <2>3. CASE ans = "ok" /\ task[s].call # "read"
    <3>1. Owes(h) BY <1>2, <1>3, <1>6, <2>3 DEF Owes
    <3>2. Owed' BY <1>7, <3>1 DEF Owed
    <3> QED BY <3>2 DEF Current, Fresh
  <2>4. CASE ans = "ok" /\ task[s].call = "read"
    <3>1. Owes(task[s]) => Owes(h) BY <1>6, <2>4 DEF Owes
    <3>2. Owed => Owed' BY <1>7, <3>1 DEF Owed
    <3>3. UNCHANGED <<db, missed, served, rows, applied>> BY <1>2, <1>4, <1>8, <2>4
    <3>4. \A f, n : Fresh(f, n) => Fresh(f, n)' BY <3>2, <3>3 DEF Fresh
    <3> QED BY <1>1, <2>1, <3>3, <3>4 DEF Current
  <2> QED BY <2>2, <2>3, <2>4
<1> QED BY <1>10, <1>15, <1>16, <1>17, <1>18 DEF IInv

LEMMA ServeStep ==
    ASSUME IInv, UNCHANGED screen, NEW s \in Slots, Serve(s)
    PROVE  IInv'
  BY RefuseStep, ServeListStep, ServeChangeStep DEF Serve

(***************************************************************************)
(* The list and the selection.                                             *)
(***************************************************************************)
(* A list that arrives is as current as it was in flight, since a handler  *)
(* whose list is answered owes nothing any more.                           *)
LEMMA ListArrivesStep ==
    ASSUME IInv, UNCHANGED screen, NEW s \in Slots, ListArrives(s, Prunes)
    PROVE  IInv'
<1>1. /\ task[s] \in Task /\ task \in [Slots -> Task] /\ at = "page" /\ Typed /\ OnPage /\ Backed /\ Current
      /\ (\A r \in Slots : Sound(task[r])) /\ Brings(task[s])
  BY InSlot DEF IInv, Typed, ListArrives, Answered, Brings
<1>2. /\ rows' = task[s].snap /\ applied' = task[s].stamp /\ listError' = FALSE /\ loading' = FALSE
      /\ Release(s) /\ selected' = (IF Prunes THEN selected \cap VisibleIds' ELSE selected)
      /\ UNCHANGED <<db, born, live, served, missed, tab, view, page, pageSize, composer, editing, form, at, screen>>
  BY DEF ListArrives, Ends, Selects, Prune, serverVars
<1>3. task' = [task EXCEPT ![s] = Free] BY DEF ListArrives, Ends, Put
<1>4. Sound(Free) /\ ~Owes(Free) /\ ~Brings(Free) /\ Free.kind = "none" /\ Free \in Task
  BY <1>1, FreeIsSound DEF Typed, Sound
<1>5. task' \in [Slots -> Task] /\ task'[s] = Free /\ \A r \in Slots \ {s} : task'[r] = task[r]
  BY <1>1, <1>3, <1>4
<1>6. /\ rows' \in Table /\ DOMAIN rows' \subseteq 1 .. born /\ applied' \in 0 .. served
      /\ Labelled(rows') /\ SameTabs(rows')
  <2>1. task[s].snap \in Table /\ task[s].stamp \in Nat /\ served \in Nat BY <1>1 DEF Task, Typed
  <2>2. Sound(task[s]) BY <1>1
  <2> QED BY <1>2, <2>1, <2>2 DEF Sound
<1>7. Typed'
  <2>1. {loading', listError', saving', editSaving', bulkBusy'} \subseteq BOOLEAN /\ selected' \subseteq Ids
    BY <1>1, <1>2 DEF Release, Typed
  <2> QED BY <1>1, <1>2, <1>5, <1>6, <2>1 DEF Typed
<1>8. \A t : Sound(t) => Sound(t)' BY <1>2 DEF Sound, Paired, Labelled, SameTabs, OfTab, Prunes
<1>9. \A r \in Slots : Sound(task[r])' BY <1>1, <1>4, <1>5, <1>8
<1>10. OnPage'
  <2>1. Labelled(rows)' /\ SameTabs(rows)' /\ Labelled(db)' BY <1>1, <1>2, <1>6 DEF Labelled, SameTabs, OnPage
  <2>2. OfTab(selected, tab)' BY <1>1, <1>2 DEF OfTab, OnPage
  <2>3. Prunes' => selected' \subseteq VisibleIds' BY <1>2 DEF Prunes
  <2> QED BY <1>1, <1>2, <2>1, <2>2, <2>3 DEF OnPage
<1>11. Backed'
  <2>1. /\ Follows(saving, saving', {"create"}, s, Free) /\ Follows(editSaving, editSaving', {"edit"}, s, Free)
        /\ Follows(bulkBusy, bulkBusy', BusyKinds, s, Free)
    BY <1>2, <1>4 DEF Follows, Release, BusyKinds
  <2>2. Stands(saving, {"create"})' BY <1>1, <1>3, <2>1, FlagStep DEF Backed, Stands
  <2>3. Stands(editSaving, {"edit"})' BY <1>1, <1>3, <2>1, FlagStep DEF Backed, Stands
  <2>4. Stands(bulkBusy, BusyKinds)' BY <1>1, <1>3, <2>1, FlagStep DEF Backed, Stands, BusyKinds
  <2> QED BY <1>2, <2>2, <2>3, <2>4 DEF Backed
<1>12. Current'
  <2>1. Owed => Owed' BY <1>1, <1>5 DEF Owed, Owes, Brings
  <2>2. \A f, n : Fresh(f, n) => Fresh(f, n)' BY <1>2, <2>1 DEF Fresh
  <2>3. \A r \in Slots : Brings(task[r])' => r # s BY <1>4, <1>5 DEF Brings
  <2> QED BY <1>1, <1>2, <1>5, <2>2, <2>3 DEF Current, Brings
<1> QED BY <1>7, <1>9, <1>10, <1>11, <1>12 DEF IInv

LEMMA ScreenOfTab ==
    ASSUME Typed, OnPage, NEW t, NEW v \in Views, NEW p \in Nat \ {0}, NEW size \in PageSizes
    PROVE  OfTab(OnScreen(rows, t, v, p, size), t)
<1>1. v \in View /\ size \in Nat \ {0} BY ListAssumption
<1>2. IsTable(rows) /\ DOMAIN rows \subseteq 1 .. born /\ SameTabs(rows) BY TableIsTable DEF Typed, OnPage
<1>3. \A i \in OnScreen(rows, t, v, p, size) : i \in DOMAIN rows /\ rows[i].tab = t BY <1>1, <1>2, ScreenRows
<1> HIDE DEF OnScreen
<1> QED BY <1>2, <1>3 DEF OfTab, SameTabs

(* A click that only changes what is on screen. *)
LEMMA MoveStep ==
    ASSUME IInv, UNCHANGED <<screen, db, born, served, rows, applied, missed, task, at>>,
           UNCHANGED <<loading, saving, bulkBusy, editSaving>>,
           tab' \in Tabs, view' \in Views, page' \in Nat \ {0}, pageSize' \in PageSizes,
           live' \in BOOLEAN, listError' \in BOOLEAN, composer' \in {"closed", "add", "batch", "import"},
           editing' \in Ids \cup {None}, form' \in Label \cup {NoLabel}, editing' # None => form'.of = editing',
           OfTab(selected', tab'), Prunes => selected' \subseteq VisibleIds'
    PROVE  IInv'
<1>1. Typed /\ OnPage /\ \A s \in Slots : Sound(task[s]) BY DEF IInv
<1>2. Typed'
  <2>1. 1 .. born \subseteq Ids BY <1>1, ListAssumption DEF Typed, Ids
  <2>2. selected' \subseteq Ids BY <2>1 DEF OfTab
  <2> QED BY <1>1, <2>2 DEF Typed
<1>3. \A t : Sound(t) => Sound(t)' BY DEF Sound, Paired, Labelled, SameTabs, OfTab, Prunes
<1>4. OnPage' BY <1>1 DEF OnPage, Labelled, SameTabs, OfTab, Prunes
<1>5. Owed' = Owed /\ \A f, n : Fresh(f, n) => Fresh(f, n)' BY DEF Owed, Fresh
<1>6. at' = "page" => Backed' BY DEF IInv, Backed, Stands, InFlight
<1>7. at' = "page" => Current' BY <1>5 DEF IInv, Current
<1> QED BY <1>1, <1>2, <1>3, <1>4, <1>6, <1>7 DEF IInv

LEMMA SelectionNow ==
    ASSUME IInv, at = "page"
    PROVE  /\ OfTab(selected, tab) /\ OfTab(VisibleIds, tab) /\ (Prunes => selected \subseteq VisibleIds)
           /\ VisibleIds \subseteq DOMAIN rows /\ Typed
<1>1. Typed /\ OnPage BY DEF IInv
<1>2. VisibleIds = OnScreen(rows, tab, view, page, pageSize) BY Zenon DEF VisibleIds, Matching, OnScreen
<1>3. IsTable(rows) /\ view \in View /\ pageSize \in Nat \ {0} /\ tab \in Tabs /\ view \in Views
      /\ page \in Nat \ {0} /\ pageSize \in PageSizes
  BY <1>1, TableIsTable, ListAssumption DEF Typed
<1>4. OfTab(VisibleIds, tab) BY <1>1, <1>2, <1>3, ScreenOfTab
<1>5. VisibleIds \subseteq DOMAIN rows BY <1>2, <1>3, ScreenRows
<1> QED BY <1>1, <1>4, <1>5 DEF OnPage

(* What the list, the pager and the check boxes do to the view. *)
LEMMA BrowseStep ==
    ASSUME IInv, UNCHANGED screen, at = "page", NEW views \in SUBSET Views, Browse(views, Prunes)
    PROVE  IInv'
<1>1. /\ OfTab(selected, tab) /\ OfTab(VisibleIds, tab) /\ (Prunes => selected \subseteq VisibleIds)
      /\ Typed /\ OnPage
  BY SelectionNow DEF IInv
<1>2. UNCHANGED tab /\ StayOnScreen
  BY DEF Browse, GoPage, ResizePage, ChooseView, ToggleOne, ToggleAll, Invert, ClearSelection, Mark
<1>3. /\ UNCHANGED <<screen, db, born, live, served, rows, applied, missed, task, at, tab>>
      /\ UNCHANGED <<loading, listError, saving, bulkBusy, editSaving, composer, editing, form>>
  BY <1>2 DEF StayOnScreen, serverVars, dataVars, formVars
<1>4. view' \in Views /\ page' \in Nat \ {0} /\ pageSize' \in PageSizes
  BY <1>1, ListAssumption DEF Browse, GoPage, ResizePage, ChooseView, ToggleOne, ToggleAll, Invert, ClearSelection, Mark,
                  Typed, Ids
<1>5. OfTab(selected', tab') /\ (Prunes => selected' \subseteq VisibleIds')
  <2>1. CASE Selects(selected, Prunes)
    BY <1>1, <1>3, <2>1 DEF Selects, Prune, OfTab
  <2>2. CASE UNCHANGED <<view, page, pageSize>> /\ selected' \subseteq selected \cup VisibleIds
    <3>1. VisibleIds' = VisibleIds
      <4>1. UNCHANGED <<rows, tab, view, page, pageSize>> BY <1>3, <2>2
      <4> QED BY <4>1, Zenon DEF VisibleIds, Matching
    <3> QED BY <1>1, <1>3, <2>2, <3>1 DEF OfTab
  <2>3. CASE \/ \E p \in Ids : GoPage(p, Prunes)
             \/ \E n \in PageSizes : ResizePage(n, Prunes)
             \/ \E v \in views : ChooseView(v, Prunes)
    BY <2>1, <2>3 DEF GoPage, ResizePage, ChooseView
  <2>4. CASE (\E i \in Ids : ToggleOne(i)) \/ ToggleAll \/ Invert \/ ClearSelection
    <3>1. UNCHANGED <<view, page, pageSize>> BY <2>4 DEF ToggleOne, ToggleAll, Invert, ClearSelection, Mark
    <3>2. selected' \subseteq selected \cup VisibleIds
      BY <2>4 DEF ToggleOne, ToggleAll, Invert, ClearSelection, Mark, ToggleOneOf, ToggleAllOf, InvertOf
    <3> QED BY <2>2, <3>1, <3>2
  <2> QED BY <2>3, <2>4 DEF Browse
<1> QED BY <1>1, <1>3, <1>4, <1>5, MoveStep DEF Typed, OnPage

(* The dialogs: the edit form is filled from a row on screen. *)
LEMMA FormStep ==
    ASSUME IInv, UNCHANGED screen, at = "page",
           \/ \E c \in {"closed", "add", "batch", "import"} : SetComposer(c)
           \/ \E i \in VisibleIds : FillForm(i)
           \/ DropForm
    PROVE  IInv'
<1>1. /\ OfTab(selected, tab) /\ (Prunes => selected \subseteq VisibleIds) /\ VisibleIds \subseteq DOMAIN rows
      /\ Typed /\ OnPage
  BY SelectionNow DEF IInv
<1>2. Opens /\ UNCHANGED viewVars BY DEF SetComposer, FillForm, DropForm
<1>3. /\ UNCHANGED <<screen, db, born, live, served, rows, applied, missed, task, at>>
      /\ UNCHANGED <<loading, listError, saving, bulkBusy, editSaving, tab, view, page, pageSize, selected>>
  BY <1>2 DEF Opens, serverVars, dataVars, viewVars
<1>4. VisibleIds' = VisibleIds
  <2>1. UNCHANGED <<rows, tab, view, page, pageSize>> BY <1>3
  <2> QED BY <2>1, Zenon DEF VisibleIds, Matching
<1>5. composer' \in {"closed", "add", "batch", "import"} BY <1>1 DEF SetComposer, FillForm, DropForm, Typed
<1>6. /\ editing' \in Ids \cup {None} /\ form' \in Label \cup {NoLabel}
      /\ editing' # None => form'.of = editing'
  <2>1. CASE \E c \in {"closed", "add", "batch", "import"} : SetComposer(c) BY <1>1, <2>1 DEF SetComposer, Typed, OnPage
  <2>2. CASE \E i \in VisibleIds : FillForm(i)
    <3>1. PICK i \in VisibleIds : FillForm(i) BY <2>2
    <3>2. i \in Ids /\ rows[i].label \in Label /\ rows[i].label.of = i
      BY <1>1, TableIsTable DEF Typed, OnPage, Labelled, IsTable, Row
    <3> QED BY <3>1, <3>2 DEF FillForm
  <2>3. CASE DropForm BY <1>1, <2>3 DEF DropForm, Typed
  <2> QED BY <2>1, <2>2, <2>3
<1> QED BY <1>1, <1>3, <1>4, <1>5, <1>6, MoveStep DEF Typed

LEMMA ExpireStep ==
    ASSUME IInv, UNCHANGED screen, Expire
    PROVE  IInv'
<1>1. /\ UNCHANGED <<screen, db, born, served, rows, applied, missed, task, at, tab, view, page, pageSize, selected>>
      /\ UNCHANGED <<loading, listError, saving, bulkBusy, editSaving, composer, editing, form>> /\ live' = FALSE
  BY DEF Expire, dataVars, viewVars, formVars
<1>2. Typed /\ OnPage BY DEF IInv
<1>3. VisibleIds' = VisibleIds
  <2>1. UNCHANGED <<rows, tab, view, page, pageSize>> BY <1>1
  <2> QED BY <2>1, Zenon DEF VisibleIds, Matching
<1>4. OfTab(selected', tab') BY <1>1, <1>2 DEF OnPage
<1> QED BY <1>1, <1>2, <1>3, <1>4, MoveStep DEF Typed, OnPage

(***************************************************************************)
(* The pages.  Each is an instance of its module, and with it of AdminList: *)
(* what AdminList does there is what it does here.                         *)
(***************************************************************************)
Clicks(s) ==
    \/ \E hard \in BOOLEAN : StartLoad(s, hard)
    \/ ~saving /\ \E n \in 1 .. 2 : StartCreate(s, n)
    \/ \E i \in VisibleIds : StartRow(s, "enable", i) \/ StartRow(s, "delete", i)
    \/ editing # None /\ ~editSaving /\ StartEdit(s)
    \/ ~bulkBusy /\ \E on \in BOOLEAN : StartBulk(s, "enable", on) \/ StartBulk(s, "delete", on)

Proceeds(s) ==
    \/ \E hard \in BOOLEAN :
          \/ CreateSucceeds(s, hard) \/ RowSucceeds(s, hard) \/ EditSucceeds(s, hard)
          \/ BulkDone(s, hard) /\ (screen # "accounts" \/ task[s].kind = "bulk")
    \/ NextItem(s) /\ (screen = "proxies" \/ task[s].kind = "batch")
    \/ BulkNext(s) \/ ListArrives(s, Prunes) \/ ListFails(s) \/ SignedOut(s)
    \/ \E kinds \in SUBSET {"create", "row", "edit"} :
          ("create" \in kinds => screen # "proxies") /\ ChangeFails(s, kinds)

Looks ==
    \/ \E views \in SUBSET Views : Browse(views, Prunes)
    \/ \E c \in {"closed", "add", "batch", "import"} : SetComposer(c)
    \/ \E i \in VisibleIds : FillForm(i)
    \/ DropForm

LEMMA ListStep ==
    ASSUME IInv, UNCHANGED screen,
           \/ \E s \in Slots : (MayStart(s) /\ Clicks(s)) \/ Serve(s) \/ Proceeds(s)
           \/ Expire
           \/ MayMove /\ Looks
    PROVE  IInv'
<1>1. ASSUME NEW s \in Slots, MayStart(s), Clicks(s) PROVE IInv'
  <2>1. CASE \E hard \in BOOLEAN : StartLoad(s, hard) BY <1>1, <2>1, LoadClick
  <2>2. CASE ~saving /\ \E n \in 1 .. 2 : StartCreate(s, n) BY <1>1, <2>2, CreateClick
  <2>3. CASE \E i \in VisibleIds : StartRow(s, "enable", i) \/ StartRow(s, "delete", i)
    <3>1. VisibleIds \subseteq DOMAIN rows /\ DOMAIN rows \subseteq Ids
      BY <1>1, SelectionNow, TableIsTable DEF MayStart, Typed, IsTable
    <3> QED BY <1>1, <2>3, <3>1, RowClick
  <2>4. CASE editing # None /\ ~editSaving /\ StartEdit(s) BY <1>1, <2>4, EditClick
  <2>5. CASE ~bulkBusy /\ \E on \in BOOLEAN : StartBulk(s, "enable", on) \/ StartBulk(s, "delete", on)
    BY <1>1, <2>5, BulkClick
  <2> QED BY <1>1, <2>1, <2>2, <2>3, <2>4, <2>5 DEF Clicks
<1>2. ASSUME NEW s \in Slots, Proceeds(s) PROVE IInv'
  <2>1. CASE \E hard \in BOOLEAN :
               \/ CreateSucceeds(s, hard) \/ RowSucceeds(s, hard) \/ EditSucceeds(s, hard)
               \/ BulkDone(s, hard) /\ (screen # "accounts" \/ task[s].kind = "bulk")
    BY <2>1, ChangedStep
  <2>2. CASE NextItem(s) /\ (screen = "proxies" \/ task[s].kind = "batch") BY <2>2, NextItemStep
  <2>3. CASE BulkNext(s) BY <2>3, BulkNextStep
  <2>4. CASE ListArrives(s, Prunes) BY <2>4, ListArrivesStep
  <2>5. CASE ListFails(s) \/ SignedOut(s)
    <3>1. {} \in SUBSET {"create", "row", "edit"} /\ "create" \notin {} OBVIOUS
    <3> QED BY <2>5, <3>1, GivenUpStep
  <2>6. CASE \E kinds \in SUBSET {"create", "row", "edit"} :
               ("create" \in kinds => screen # "proxies") /\ ChangeFails(s, kinds)
    BY <2>6, GivenUpStep
  <2> QED BY <1>2, <2>1, <2>2, <2>3, <2>4, <2>5, <2>6 DEF Proceeds
<1>3. ASSUME MayMove, Looks PROVE IInv'
  <2>1. at = "page" BY <1>3 DEF MayMove
  <2>2. CASE \E views \in SUBSET Views : Browse(views, Prunes) BY <2>1, <2>2, BrowseStep
  <2> QED BY <1>3, <2>1, <2>2, FormStep DEF Looks
<1> QED BY <1>1, <1>2, <1>3, ServeStep, ExpireStep

(* What the pages do of their own: another tab, ...                        *)
LEMMA SwitchStep ==
    ASSUME IInv, UNCHANGED screen, at = "page", Opens,
           tab' \in Tabs, view' = FirstView, page' = 1, UNCHANGED <<pageSize, form>>,
           composer' \in {composer, "closed"}, editing' \in {editing, None},
           selected' = {} \/ Selects(selected, TRUE)
    PROVE  IInv'
<1>1. Typed /\ OnPage BY DEF IInv
<1>2. /\ UNCHANGED <<screen, db, born, live, served, rows, applied, missed, task, at>>
      /\ UNCHANGED <<loading, listError, saving, bulkBusy, editSaving>>
  BY DEF Opens, serverVars, dataVars
<1>3. view' \in Views /\ page' \in Nat \ {0} /\ pageSize' \in PageSizes BY <1>1, ListAssumption DEF Typed
<1>4. OfTab(selected', tab') /\ selected' \subseteq VisibleIds'
  <2>1. CASE selected' = {} BY <2>1 DEF OfTab
  <2>2. CASE Selects(selected, TRUE)
    <3>1. OfTab(OnScreen(rows, tab', view', page', pageSize'), tab') BY <1>1, <1>3, ScreenOfTab
    <3>2. VisibleIds' = OnScreen(rows, tab', view', page', pageSize')
      <4>1. rows' = rows BY <1>2
      <4> QED BY <4>1, Zenon DEF VisibleIds, Matching, OnScreen
    <3>3. selected' = selected \cap VisibleIds' BY <2>2 DEF Selects, Prune
    <3> HIDE DEF OnScreen, VisibleIds
    <3> QED BY <3>1, <3>2, <3>3 DEF OfTab
  <2> QED BY <2>1, <2>2
<1> QED BY <1>1, <1>2, <1>3, <1>4, MoveStep DEF Typed, OnPage

(* ... a text that is shown without a call, ...                            *)
LEMMA NoticeStep ==
    ASSUME IInv, UNCHANGED screen, at = "page", listError' \in BOOLEAN,
           UNCHANGED <<serverVars, rows, loading, applied, missed, viewVars, formVars, at, task, work, faults>>
    PROVE  IInv'
<1>1. Typed /\ OnPage BY DEF IInv
<1>2. /\ UNCHANGED <<screen, db, born, live, served, rows, applied, missed, task, at, tab, view, page, pageSize>>
      /\ UNCHANGED <<selected, loading, saving, bulkBusy, editSaving, composer, editing, form>>
  BY DEF serverVars, viewVars, formVars
<1>3. VisibleIds' = VisibleIds
  <2>1. UNCHANGED <<rows, tab, view, page, pageSize>> BY <1>2
  <2> QED BY <2>1, Zenon DEF VisibleIds, Matching
<1>4. OfTab(selected', tab') BY <1>1, <1>2 DEF OnPage
<1> QED BY <1>1, <1>2, <1>3, <1>4, MoveStep DEF Typed, OnPage

(* ... a batch that has come to its end, with and without a reload, ...    *)
LEMMA BatchDoneStep ==
    ASSUME IInv, UNCHANGED screen, NEW s \in Slots, at = "page", task[s].call = "create",
           Put(s, [task[s] EXCEPT !.call = "list", !.ans = "none"]),
           composer' = "closed", loading' = TRUE, listError' \in BOOLEAN,
           UNCHANGED <<serverVars, rows, applied, missed, viewVars, saving, bulkBusy, editSaving, editing, form, at>>
    PROVE  IInv'
<1>1. Sound(task[s]) /\ Typed BY InSlot DEF IInv
<1>2. task[s].kind \notin {"none", "export"} BY <1>1 DEF Sound, Paired
<1>3. Quiet BY <1>1 DEF Quiet, Typed, serverVars, viewVars
<1> QED BY <1>2, <1>3, ReloadStep

LEMMA BatchLostStep ==
    ASSUME IInv, UNCHANGED screen, screen = "proxies", NEW s \in Slots, at = "page",
           task[s].call = "create", task[s].ans = "failed", ~task[s].done, Ends(s),
           UNCHANGED <<serverVars, dataVars, missed, viewVars, composer, editing, form, at, budgetVars>>
    PROVE  IInv'
<1>1. Sound(task[s]) /\ Typed BY InSlot DEF IInv
<1>2. ~Owes(task[s]) BY <1>1 DEF Sound, Paired, Owes
<1>3. Quiet BY <1>1 DEF Quiet, Typed, Ends, Release, serverVars, dataVars, viewVars
<1>4. loading' = loading BY DEF dataVars
<1> QED BY <1>2, <1>3, <1>4, EndsStep

(* ... and the two ends of a loop that does not reload.                    *)
LEMMA ExportedStep ==
    ASSUME IInv, UNCHANGED screen, NEW s \in Slots, at = "page",
           task[s].call = "read", task[s].ans = "ok", Ends(s),
           UNCHANGED <<serverVars, dataVars, missed, viewVars, composer, editing, form, at, budgetVars>>
    PROVE  IInv'
<1>1. Sound(task[s]) /\ Typed BY InSlot DEF IInv
<1>2. ~Owes(task[s]) BY <1>1 DEF Sound, Paired, Owes
<1>3. Quiet BY <1>1 DEF Quiet, Typed, Ends, Release, serverVars, dataVars, viewVars
<1>4. loading' = loading BY DEF dataVars
<1> QED BY <1>2, <1>3, <1>4, EndsStep

LEMMA AbortedStep ==
    ASSUME IInv, UNCHANGED screen, NEW s \in Slots, at = "page",
           task[s].call # "list", listError' = TRUE, missed' = served, Ends(s),
           UNCHANGED <<serverVars, rows, loading, applied, viewVars, composer, editing, form, at, budgetVars>>
    PROVE  IInv'
<1>1. Typed BY DEF IInv
<1>2. Quiet BY <1>1 DEF Quiet, Typed, Ends, Release, serverVars, viewVars
<1> QED BY <1>2, EndsStep

USE DEF serverVars, dataVars, viewVars, formVars, budgetVars, Ids, None, Tabs, NoLabel, NoRows, NewRow,
        Free, Handler, Put, IsFree, Waiting, Answered, MayStart, Start, MayMove, Move, Give, ServeList,
        Found, Effect, ServeChange, Refuse, Serve, Expire, Passes, Before, Listed, AtLeast1, AtMost,
        SlicePage, TotalPages, SafePage, PageWindow, PagerTargets, Prune, AllSelected, ToggleAllOf,
        ToggleOneOf, InvertOf, Range, Cardinality, Matching, VisibleIds, Selects, StayOnScreen, GoPage,
        ResizePage, ChooseView, Mark, ToggleOne, ToggleAll, Invert, ClearSelection, Browse, StayOnPage,
        StartLoad, StartCreate, StartRow, StartEdit, StartBulk, Opens, SetComposer, FillForm, DropForm,
        BusyKinds, Release, Ends, Reload, CreateSucceeds, RowSucceeds, EditSucceeds, ItemAnswered,
        SomeDone, SomeFailed, NextItem, BulkAnswered, BulkNext, BulkDone, ListArrives, ListFails,
        ChangeFails, SignedOut, FirstView, InitList

LEMMA KeysActions ==
    ASSUME NEW s
    PROVE  /\ Keys!MayStart(s) => MayStart(s)
           /\ Keys!Refresh(s) => StartLoad(s, TRUE)
           /\ Keys!OnCreate(s) => ~saving /\ StartCreate(s, 1)
           /\ Keys!OnSaveEdit(s) => editing # None /\ ~editSaving /\ StartEdit(s)
           /\ Keys!BulkSetEnabled(s) => ~bulkBusy /\ \E on \in BOOLEAN : StartBulk(s, "enable", on)
           /\ Keys!BulkRevoke(s) => ~bulkBusy /\ StartBulk(s, "delete", FALSE)
           /\ \A i : Keys!OnRevoke(s, i) => i \in VisibleIds /\ StartRow(s, "delete", i)
           /\ \A i : Keys!ToggleEnabled(s, i) => i \in VisibleIds /\ StartRow(s, "enable", i)
           /\ Keys!Serve(s) => Serve(s)
           /\ Keys!Created(s) => CreateSucceeds(s, TRUE)
           /\ Keys!RowChanged(s) => RowSucceeds(s, TRUE)
           /\ Keys!EditSaved(s) => EditSucceeds(s, TRUE)
           /\ Keys!BulkNext(s) => BulkNext(s)
           /\ Keys!BulkEnds(s) => BulkDone(s, TRUE)
           /\ Keys!ListArrives(s, TRUE) => ListArrives(s, TRUE)
           /\ Keys!ListFails(s) => ListFails(s)
           /\ Keys!SignedOut(s) => SignedOut(s)
           /\ Keys!ChangeFails(s, {"create", "row", "edit"}) => ChangeFails(s, {"create", "row", "edit"})
           /\ Keys!Expire => Expire
           /\ Keys!MayMove => MayMove
           /\ Keys!ToggleComposer => SetComposer("add") \/ SetComposer("closed")
           /\ Keys!CloseEdit => DropForm
           /\ \A i : Keys!OpenEdit(i) => i \in VisibleIds /\ FillForm(i)
           /\ Keys!Browse(Views, TRUE) => Browse(Views, TRUE)
  BY Zenon
  DEF Keys!serverVars, Keys!dataVars, Keys!viewVars, Keys!formVars, Keys!budgetVars, Keys!Ids, Keys!None,
      Keys!Tabs, Keys!NoLabel, Keys!NoRows, Keys!NewRow, Keys!Free, Keys!Handler, Keys!Put, Keys!IsFree,
      Keys!Waiting, Keys!Answered, Keys!MayStart, Keys!Start, Keys!MayMove, Keys!Move, Keys!Give,
      Keys!ServeList, Keys!Found, Keys!Effect, Keys!ServeChange, Keys!Refuse, Keys!Serve, Keys!Expire,
      Keys!Passes, Keys!Before, Keys!Listed, Keys!AtLeast1, Keys!AtMost, Keys!SlicePage, Keys!TotalPages,
      Keys!SafePage, Keys!PageWindow, Keys!PagerTargets, Keys!Prune, Keys!AllSelected, Keys!ToggleAllOf,
      Keys!ToggleOneOf, Keys!InvertOf, Keys!Range, Keys!Cardinality, Keys!Matching, Keys!VisibleIds,
      Keys!Selects, Keys!StayOnScreen, Keys!GoPage, Keys!ResizePage, Keys!ChooseView, Keys!Mark,
      Keys!ToggleOne, Keys!ToggleAll, Keys!Invert, Keys!ClearSelection, Keys!Browse, Keys!StayOnPage,
      Keys!StartLoad, Keys!StartCreate, Keys!StartRow, Keys!StartEdit, Keys!StartBulk, Keys!Opens,
      Keys!SetComposer, Keys!FillForm, Keys!DropForm, Keys!BusyKinds, Keys!Release, Keys!Ends, Keys!Reload,
      Keys!CreateSucceeds, Keys!RowSucceeds, Keys!EditSucceeds, Keys!ItemAnswered, Keys!SomeDone,
      Keys!SomeFailed, Keys!NextItem, Keys!BulkAnswered, Keys!BulkNext, Keys!BulkDone, Keys!ListArrives,
      Keys!ListFails, Keys!ChangeFails, Keys!SignedOut, Keys!FirstView,
      Keys!Refresh, Keys!OnCreate, Keys!OnSaveEdit, Keys!BulkSetEnabled, Keys!BulkRevoke, Keys!OnRevoke,
      Keys!ToggleEnabled, Keys!Created, Keys!RowChanged, Keys!EditSaved, Keys!BulkEnds, Keys!ToggleComposer,
      Keys!CloseEdit, Keys!OpenEdit, Keys!BulkButtons, Keys!RowShown

LEMMA PoolActions ==
    ASSUME NEW s
    PROVE  /\ Pool!MayStart(s) => MayStart(s)
           /\ Pool!Refresh(s) => StartLoad(s, DOMAIN rows = {})
           /\ Pool!OnCreate(s) => ~saving /\ StartCreate(s, 1)
           /\ Pool!OnSaveEdit(s) => editing # None /\ ~editSaving /\ StartEdit(s)
           /\ Pool!BulkSetEnabled(s) => ~bulkBusy /\ \E on \in BOOLEAN : StartBulk(s, "enable", on)
           /\ Pool!BulkDelete(s) => ~bulkBusy /\ StartBulk(s, "delete", FALSE)
           /\ \A i : Pool!ToggleEnabled(s, i) => i \in VisibleIds /\ StartRow(s, "enable", i)
           /\ \A i : Pool!DeleteKey(s, i) => i \in VisibleIds /\ StartRow(s, "delete", i)
           /\ Pool!Serve(s) => Serve(s)
           /\ Pool!Created(s) => CreateSucceeds(s, FALSE)
           /\ Pool!RowChanged(s) => RowSucceeds(s, FALSE)
           /\ Pool!EditSaved(s) => EditSucceeds(s, FALSE)
           /\ Pool!BulkNext(s) => BulkNext(s)
           /\ Pool!BulkEnds(s) => BulkDone(s, FALSE)
           /\ Pool!ListArrives(s, TRUE) => ListArrives(s, TRUE)
           /\ Pool!ListFails(s) => ListFails(s)
           /\ Pool!SignedOut(s) => SignedOut(s)
           /\ Pool!ChangeFails(s, {"create", "row", "edit"}) => ChangeFails(s, {"create", "row", "edit"})
           /\ Pool!Expire => Expire
           /\ Pool!MayMove => MayMove
           /\ Pool!ToggleComposer => SetComposer("add") \/ SetComposer("closed")
           /\ Pool!CloseEdit => DropForm
           /\ \A t \in Pool!Tabs : Pool!ChooseProvider(t) =>
                 /\ Opens /\ tab' \in Tabs /\ view' = FirstView /\ page' = 1 /\ UNCHANGED pageSize
                 /\ composer' = "closed" /\ editing' = None /\ UNCHANGED form /\ Selects(selected, TRUE)
           /\ \A i : Pool!OpenEdit(i) => i \in VisibleIds /\ FillForm(i)
           /\ Pool!Browse(Views, TRUE) => Browse(Views, TRUE)
  BY Zenon
  DEF Pool!serverVars, Pool!dataVars, Pool!viewVars, Pool!formVars, Pool!budgetVars, Pool!Ids, Pool!None,
      Pool!Tabs, Pool!NoLabel, Pool!NoRows, Pool!NewRow, Pool!Free, Pool!Handler, Pool!Put, Pool!IsFree,
      Pool!Waiting, Pool!Answered, Pool!MayStart, Pool!Start, Pool!MayMove, Pool!Move, Pool!Give,
      Pool!ServeList, Pool!Found, Pool!Effect, Pool!ServeChange, Pool!Refuse, Pool!Serve, Pool!Expire,
      Pool!Passes, Pool!Before, Pool!Listed, Pool!AtLeast1, Pool!AtMost, Pool!SlicePage, Pool!TotalPages,
      Pool!SafePage, Pool!PageWindow, Pool!PagerTargets, Pool!Prune, Pool!AllSelected, Pool!ToggleAllOf,
      Pool!ToggleOneOf, Pool!InvertOf, Pool!Range, Pool!Cardinality, Pool!Matching, Pool!VisibleIds,
      Pool!Selects, Pool!StayOnScreen, Pool!GoPage, Pool!ResizePage, Pool!ChooseView, Pool!Mark,
      Pool!ToggleOne, Pool!ToggleAll, Pool!Invert, Pool!ClearSelection, Pool!Browse, Pool!StayOnPage,
      Pool!StartLoad, Pool!StartCreate, Pool!StartRow, Pool!StartEdit, Pool!StartBulk, Pool!Opens,
      Pool!SetComposer, Pool!FillForm, Pool!DropForm, Pool!BusyKinds, Pool!Release, Pool!Ends, Pool!Reload,
      Pool!CreateSucceeds, Pool!RowSucceeds, Pool!EditSucceeds, Pool!ItemAnswered, Pool!SomeDone,
      Pool!SomeFailed, Pool!NextItem, Pool!BulkAnswered, Pool!BulkNext, Pool!BulkDone, Pool!ListArrives,
      Pool!ListFails, Pool!ChangeFails, Pool!SignedOut, Pool!FirstView,
      Pool!Refresh, Pool!OnCreate, Pool!OnSaveEdit, Pool!BulkSetEnabled, Pool!BulkDelete, Pool!DeleteKey,
      Pool!ToggleEnabled, Pool!Created, Pool!RowChanged, Pool!EditSaved, Pool!BulkEnds, Pool!ToggleComposer,
      Pool!CloseEdit, Pool!OpenEdit, Pool!BulkButtons, Pool!RowShown, Pool!ChooseProvider

LEMMA ProxiesActions ==
    ASSUME NEW s
    PROVE  /\ Proxies!MayStart(s) => MayStart(s)
           /\ Proxies!Refresh(s) => StartLoad(s, TRUE)
           /\ Proxies!OnCreate(s) => ~saving /\ \E n \in 1 .. 2 : StartCreate(s, n)
           /\ Proxies!OnSaveEdit(s) => editing # None /\ ~editSaving /\ StartEdit(s)
           /\ Proxies!BulkSetEnabled(s) => ~bulkBusy /\ \E on \in BOOLEAN : StartBulk(s, "enable", on)
           /\ Proxies!BulkDelete(s) => ~bulkBusy /\ StartBulk(s, "delete", FALSE)
           /\ \A i : Proxies!ToggleEnabled(s, i) => i \in VisibleIds /\ StartRow(s, "enable", i)
           /\ \A i : Proxies!DeleteProxy(s, i) => i \in VisibleIds /\ StartRow(s, "delete", i)
           /\ Proxies!Serve(s) => Serve(s)
           /\ Proxies!NextItem(s) => NextItem(s)
           /\ Proxies!SomeCreated(s) =>
                 /\ ItemAnswered(s) /\ composer' = "closed" /\ Reload(s, TRUE) /\ UNCHANGED <<viewVars, editing>>
           /\ Proxies!NoneCreated(s) =>
                 /\ ItemAnswered(s) /\ ~SomeDone(s) /\ Ends(s)
                 /\ UNCHANGED <<serverVars, dataVars, missed, viewVars, composer, editing, form, at, budgetVars>>
           /\ Proxies!RowChanged(s) => RowSucceeds(s, TRUE)
           /\ Proxies!EditSaved(s) => EditSucceeds(s, TRUE)
           /\ Proxies!BulkNext(s) => BulkNext(s)
           /\ Proxies!BulkEnds(s) => BulkDone(s, TRUE)
           /\ Proxies!ListArrives(s, TRUE) => ListArrives(s, TRUE)
           /\ Proxies!ListFails(s) => ListFails(s)
           /\ Proxies!SignedOut(s) => SignedOut(s)
           /\ Proxies!ChangeFails(s, {"row", "edit"}) => ChangeFails(s, {"row", "edit"})
           /\ Proxies!Expire => Expire
           /\ Proxies!MayMove => MayMove
           /\ Proxies!ToggleComposer => SetComposer("add") \/ SetComposer("closed")
           /\ Proxies!CloseEdit => DropForm
           /\ \A i : Proxies!OpenEdit(i) => i \in VisibleIds /\ FillForm(i)
           /\ Proxies!Browse(Views, TRUE) => Browse(Views, TRUE)
  BY Zenon
  DEF Proxies!serverVars, Proxies!dataVars, Proxies!viewVars, Proxies!formVars, Proxies!budgetVars,
      Proxies!Ids, Proxies!None, Proxies!Tabs, Proxies!NoLabel, Proxies!NoRows, Proxies!NewRow,
      Proxies!Free, Proxies!Handler, Proxies!Put, Proxies!IsFree, Proxies!Waiting, Proxies!Answered,
      Proxies!MayStart, Proxies!Start, Proxies!MayMove, Proxies!Move, Proxies!Give, Proxies!ServeList,
      Proxies!Found, Proxies!Effect, Proxies!ServeChange, Proxies!Refuse, Proxies!Serve, Proxies!Expire,
      Proxies!Passes, Proxies!Before, Proxies!Listed, Proxies!AtLeast1, Proxies!AtMost, Proxies!SlicePage,
      Proxies!TotalPages, Proxies!SafePage, Proxies!PageWindow, Proxies!PagerTargets, Proxies!Prune,
      Proxies!AllSelected, Proxies!ToggleAllOf, Proxies!ToggleOneOf, Proxies!InvertOf, Proxies!Range,
      Proxies!Cardinality, Proxies!Matching, Proxies!VisibleIds, Proxies!Selects, Proxies!StayOnScreen,
      Proxies!GoPage, Proxies!ResizePage, Proxies!ChooseView, Proxies!Mark, Proxies!ToggleOne,
      Proxies!ToggleAll, Proxies!Invert, Proxies!ClearSelection, Proxies!Browse, Proxies!StayOnPage,
      Proxies!StartLoad, Proxies!StartCreate, Proxies!StartRow, Proxies!StartEdit, Proxies!StartBulk,
      Proxies!Opens, Proxies!SetComposer, Proxies!FillForm, Proxies!DropForm, Proxies!BusyKinds,
      Proxies!Release, Proxies!Ends, Proxies!Reload, Proxies!CreateSucceeds, Proxies!RowSucceeds,
      Proxies!EditSucceeds, Proxies!ItemAnswered, Proxies!SomeDone, Proxies!SomeFailed, Proxies!NextItem,
      Proxies!BulkAnswered, Proxies!BulkNext, Proxies!BulkDone, Proxies!ListArrives, Proxies!ListFails,
      Proxies!ChangeFails, Proxies!SignedOut, Proxies!FirstView,
      Proxies!Refresh, Proxies!OnCreate, Proxies!OnSaveEdit, Proxies!BulkSetEnabled, Proxies!BulkDelete,
      Proxies!DeleteProxy, Proxies!ToggleEnabled, Proxies!ParsedItems, Proxies!SomeCreated, Proxies!NoneCreated,
      Proxies!RowChanged, Proxies!EditSaved, Proxies!BulkEnds, Proxies!ToggleComposer,
      Proxies!CloseEdit, Proxies!OpenEdit, Proxies!BulkButtons, Proxies!RowShown

LEMMA AccountsActions ==
    ASSUME NEW s
    PROVE  /\ Accounts!MayStart(s) => MayStart(s)
           /\ Accounts!Refresh(s) => StartLoad(s, TRUE)
           /\ Accounts!OnCreateSingle(s) =>
                 Accounts!StartBusy(s, [Handler("single", "create") EXCEPT !.tab = tab]) /\ UNCHANGED listError
           /\ Accounts!SubmitItems(s) =>
                 /\ \E n \in 1 .. 2 :
                       Accounts!StartBusy(s, [Handler("batch", "create") EXCEPT !.tab = tab, !.more = n - 1])
                 /\ UNCHANGED listError
           /\ Accounts!ExportSecrets(s) =>
                 /\ \E i \in Accounts!InTab :
                       Accounts!StartBusy(s, [Handler("export", "read") EXCEPT !.id = i, !.tab = tab,
                                                                              !.todo = Accounts!InTab \ {i}])
                 /\ listError' = FALSE
           /\ Accounts!BulkSetEnabled(s) => ~bulkBusy /\ \E on \in BOOLEAN : StartBulk(s, "enable", on)
           /\ Accounts!BulkDelete(s) => ~bulkBusy /\ StartBulk(s, "delete", FALSE)
           /\ \A i : Accounts!ToggleEnabled(s, i) => i \in VisibleIds /\ StartRow(s, "enable", i)
           /\ \A i : Accounts!DeleteAccount(s, i) => i \in VisibleIds /\ StartRow(s, "delete", i)
           /\ Accounts!Serve(s) => Serve(s)
           /\ Accounts!SingleCreated(s) => CreateSucceeds(s, TRUE)
           /\ Accounts!NextItem(s) => NextItem(s)
           /\ Accounts!ItemsDone(s) =>
                 /\ ItemAnswered(s) /\ Put(s, [task[s] EXCEPT !.call = "list", !.ans = "none"])
                 /\ listError' = (listError \/ SomeFailed(s)) /\ composer' = "closed" /\ loading' = TRUE
                 /\ UNCHANGED <<serverVars, rows, applied, missed, viewVars, saving, bulkBusy, editSaving,
                                editing, form, at, budgetVars>>
           /\ Accounts!NextRow(s) => BulkNext(s)
           /\ Accounts!BulkEnds(s) => BulkDone(s, TRUE) /\ task[s].kind = "bulk"
           /\ Accounts!Exported(s) =>
                 /\ Answered(s, "read", "ok") /\ Ends(s)
                 /\ UNCHANGED <<serverVars, dataVars, missed, viewVars, composer, editing, form, at, budgetVars>>
           /\ Accounts!Aborted(s) =>
                 /\ at = "page" /\ task[s].call # "list" /\ listError' = TRUE /\ missed' = served /\ Ends(s)
                 /\ UNCHANGED <<serverVars, rows, loading, applied, viewVars, composer, editing, form, at, budgetVars>>
           /\ Accounts!RowChanged(s) => RowSucceeds(s, TRUE)
           /\ Accounts!ListArrives(s, FALSE) => ListArrives(s, FALSE)
           /\ Accounts!ListFails(s) => ListFails(s)
           /\ Accounts!SignedOut(s) => SignedOut(s)
           /\ Accounts!ChangeFails(s, {"row"}) => ChangeFails(s, {"row"})
           /\ Accounts!Expire => Expire
           /\ Accounts!MayMove => MayMove
           /\ Accounts!CloseDialog => SetComposer("closed")
           /\ \A d : Accounts!OpenDialog(d) => SetComposer(d)
           /\ Accounts!NothingParsed =>
                 /\ listError' = TRUE
                 /\ UNCHANGED <<serverVars, rows, loading, applied, missed, viewVars, formVars, at, task, work, faults>>
           /\ Accounts!ExportManifest =>
                 /\ listError' = FALSE
                 /\ UNCHANGED <<serverVars, rows, loading, applied, missed, viewVars, formVars, at, task, work, faults>>
           /\ \A t \in Accounts!Tabs : Accounts!ChooseTab(t) =>
                 /\ Opens /\ tab' \in Tabs /\ view' = FirstView /\ page' = 1 /\ selected' = {}
                 /\ UNCHANGED <<pageSize, composer, editing, form>>
           /\ \A views : Accounts!Browse(views, FALSE) => Browse(views, FALSE)
  BY Zenon
  DEF Accounts!serverVars, Accounts!dataVars, Accounts!viewVars, Accounts!formVars, Accounts!budgetVars,
      Accounts!Ids, Accounts!None, Accounts!Tabs, Accounts!NoLabel, Accounts!NoRows, Accounts!NewRow,
      Accounts!Free, Accounts!Handler, Accounts!Put, Accounts!IsFree, Accounts!Waiting, Accounts!Answered,
      Accounts!MayStart, Accounts!Start, Accounts!MayMove, Accounts!Move, Accounts!Give,
      Accounts!ServeList, Accounts!Found, Accounts!Effect, Accounts!ServeChange, Accounts!Refuse,
      Accounts!Serve, Accounts!Expire, Accounts!Passes, Accounts!Before, Accounts!Listed,
      Accounts!AtLeast1, Accounts!AtMost, Accounts!SlicePage, Accounts!TotalPages, Accounts!SafePage,
      Accounts!PageWindow, Accounts!PagerTargets, Accounts!Prune, Accounts!AllSelected,
      Accounts!ToggleAllOf, Accounts!ToggleOneOf, Accounts!InvertOf, Accounts!Range, Accounts!Cardinality,
      Accounts!Matching, Accounts!VisibleIds, Accounts!Selects, Accounts!StayOnScreen, Accounts!GoPage,
      Accounts!ResizePage, Accounts!ChooseView, Accounts!Mark, Accounts!ToggleOne, Accounts!ToggleAll,
      Accounts!Invert, Accounts!ClearSelection, Accounts!Browse, Accounts!StayOnPage, Accounts!StartLoad,
      Accounts!StartCreate, Accounts!StartRow, Accounts!StartEdit, Accounts!StartBulk, Accounts!Opens,
      Accounts!SetComposer, Accounts!FillForm, Accounts!DropForm, Accounts!BusyKinds, Accounts!Release,
      Accounts!Ends, Accounts!Reload, Accounts!CreateSucceeds, Accounts!RowSucceeds, Accounts!EditSucceeds,
      Accounts!ItemAnswered, Accounts!SomeDone, Accounts!SomeFailed, Accounts!NextItem,
      Accounts!BulkAnswered, Accounts!BulkNext, Accounts!BulkDone, Accounts!ListArrives,
      Accounts!ListFails, Accounts!ChangeFails, Accounts!SignedOut, Accounts!FirstView,
      Accounts!Refresh, Accounts!OnCreateSingle, Accounts!SubmitItems, Accounts!ParsedItems, Accounts!ExportSecrets,
      Accounts!BulkSetEnabled, Accounts!BulkDelete, Accounts!ToggleEnabled, Accounts!DeleteAccount,
      Accounts!SingleCreated, Accounts!ItemsDone, Accounts!NextRow, Accounts!BulkEnds, Accounts!Exported,
      Accounts!Aborted, Accounts!RowChanged, Accounts!CloseDialog, Accounts!OpenDialog, Accounts!NothingParsed,
      Accounts!ExportManifest, Accounts!ChooseTab, Accounts!BulkButtons, Accounts!RowShown

HIDE DEF serverVars, dataVars, viewVars, formVars, budgetVars, Ids, None, Tabs, NoLabel, NoRows, NewRow,
        Free, Handler, Put, IsFree, Waiting, Answered, MayStart, Start, MayMove, Move, Give, ServeList,
        Found, Effect, ServeChange, Refuse, Serve, Expire, Passes, Before, Listed, AtLeast1, AtMost,
        SlicePage, TotalPages, SafePage, PageWindow, PagerTargets, Prune, AllSelected, ToggleAllOf,
        ToggleOneOf, InvertOf, Range, Cardinality, Matching, VisibleIds, Selects, StayOnScreen, GoPage,
        ResizePage, ChooseView, Mark, ToggleOne, ToggleAll, Invert, ClearSelection, Browse, StayOnPage,
        StartLoad, StartCreate, StartRow, StartEdit, StartBulk, Opens, SetComposer, FillForm, DropForm,
        BusyKinds, Release, Ends, Reload, CreateSucceeds, RowSucceeds, EditSucceeds, ItemAnswered,
        SomeDone, SomeFailed, NextItem, BulkAnswered, BulkNext, BulkDone, ListArrives, ListFails,
        ChangeFails, SignedOut, FirstView, InitList

LEMMA KeysStep ==
    ASSUME IInv, UNCHANGED screen, screen = "keys", Keys!Next
    PROVE  IInv'
<1>1. Prunes = TRUE BY DEF Prunes
<1>2. \A s \in Slots : Keys!Click(s) => Clicks(s)
  <2>1. 1 \in 1 .. 2 OBVIOUS
  <2> QED BY <2>1, KeysActions, Zenon DEF Keys!Click, Clicks
<1>3. \A s \in Slots : Keys!GoesOn(s) => Proceeds(s) BY <1>1, KeysActions DEF Keys!GoesOn, Proceeds
<1>4. Keys!Moves => Looks BY <1>1, KeysActions DEF Keys!Moves, Looks
<1> QED BY <1>2, <1>3, <1>4, KeysActions, ListStep DEF Keys!Next

LEMMA PoolStep ==
    ASSUME IInv, UNCHANGED screen, screen = "pool", Pool!Next
    PROVE  IInv'
<1>1. Prunes = TRUE BY DEF Prunes
<1>2. \A s \in Slots : Pool!Click(s) => Clicks(s)
  <2>1. 1 \in 1 .. 2 /\ (DOMAIN rows = {}) \in BOOLEAN OBVIOUS
  <2> QED BY <2>1, PoolActions, Zenon DEF Pool!Click, Clicks
<1>3. \A s \in Slots : Pool!GoesOn(s) => Proceeds(s) BY <1>1, PoolActions DEF Pool!GoesOn, Proceeds
<1>4. ASSUME NEW t \in Pool!Tabs, Pool!MayMove, Pool!ChooseProvider(t) PROVE IInv'
  <2>1. at = "page" BY <1>4, PoolActions DEF MayMove
  <2> QED BY <1>4, <2>1, PoolActions, SwitchStep
<1>5. Pool!Moves => Looks \/ \E t \in Pool!Tabs : Pool!ChooseProvider(t)
  BY <1>1, PoolActions DEF Pool!Moves, Looks
<1> QED BY <1>2, <1>3, <1>4, <1>5, PoolActions, ListStep DEF Pool!Next

LEMMA ProxiesStep ==
    ASSUME IInv, UNCHANGED screen, screen = "proxies", Proxies!Next
    PROVE  IInv'
<1>1. Prunes = TRUE BY DEF Prunes
<1>2. \A s \in Slots : Proxies!Click(s) => Clicks(s) BY ProxiesActions, Zenon DEF Proxies!Click, Clicks
<1>3. ASSUME NEW s \in Slots, Proxies!SomeCreated(s) PROVE IInv'
  BY <1>3, ProxiesActions, BatchDoneStep DEF ItemAnswered, Reload, IInv, Typed
<1>4. ASSUME NEW s \in Slots, Proxies!NoneCreated(s) PROVE IInv'
  BY <1>4, ProxiesActions, BatchLostStep DEF ItemAnswered, SomeDone
<1>5. \A s \in Slots : Proxies!GoesOn(s) => Proceeds(s) \/ Proxies!SomeCreated(s) \/ Proxies!NoneCreated(s)
  BY <1>1, ProxiesActions DEF Proxies!GoesOn, Proceeds
<1>6. Proxies!Moves => Looks BY <1>1, ProxiesActions DEF Proxies!Moves, Looks
<1> QED BY <1>2, <1>3, <1>4, <1>5, <1>6, ProxiesActions, ListStep DEF Proxies!Next

LEMMA AccountsClick ==
    ASSUME IInv, UNCHANGED screen, screen = "accounts", NEW s \in Slots, Accounts!MayStart(s),
           Accounts!OnCreateSingle(s) \/ Accounts!SubmitItems(s) \/ Accounts!ExportSecrets(s)
    PROVE  IInv'
<1>1. MayStart(s) /\ Typed BY AccountsActions DEF IInv
<1>2. CASE Accounts!OnCreateSingle(s)
  <2> DEFINE h == [Handler("single", "create") EXCEPT !.tab = tab]
  <2>1. Accounts!StartBusy(s, h) /\ listError' = listError BY <1>2, AccountsActions
  <2>2. /\ h \in Task /\ h.ans = "none" /\ ~h.done /\ h.snap = NoRows /\ h.stamp = 0
        /\ h.kind = "single" /\ h.call = "create" /\ h.tab \in Tabs
    BY <1>1, HandlerType DEF Handler, Task, Typed
  <2> HIDE DEF h
  <2>3. listError' \in BOOLEAN BY <1>1, <2>1 DEF Typed
  <2> QED BY <1>1, <2>1, <2>2, <2>3, BusyClick
<1>3. CASE Accounts!SubmitItems(s)
  <2>1. PICK n \in 1 .. 2 : Accounts!StartBusy(s, [Handler("batch", "create") EXCEPT !.tab = tab, !.more = n - 1])
    BY <1>3, AccountsActions
  <2> DEFINE h == [Handler("batch", "create") EXCEPT !.tab = tab, !.more = n - 1]
  <2>2. /\ h \in Task /\ h.ans = "none" /\ ~h.done /\ h.snap = NoRows /\ h.stamp = 0
        /\ h.kind = "batch" /\ h.call = "create" /\ h.tab \in Tabs
    <3>1. n - 1 \in Nat /\ tab \in Tabs BY <1>1 DEF Typed
    <3> QED BY <3>1, HandlerType DEF Handler, Task
  <2>3. Accounts!StartBusy(s, h) BY <2>1
  <2>4. listError' \in BOOLEAN BY <1>1, <1>3, AccountsActions DEF Typed
  <2> HIDE DEF h
  <2> QED BY <1>1, <2>2, <2>3, <2>4, BusyClick
<1>4. CASE Accounts!ExportSecrets(s)
  <2>1. PICK i \in Accounts!InTab :
           Accounts!StartBusy(s, [Handler("export", "read") EXCEPT !.id = i, !.tab = tab,
                                                                  !.todo = Accounts!InTab \ {i}])
    BY <1>4, AccountsActions
  <2> DEFINE h == [Handler("export", "read") EXCEPT !.id = i, !.tab = tab, !.todo = Accounts!InTab \ {i}]
  <2>2. Accounts!InTab \subseteq Ids BY <1>1, TableIsTable DEF Typed, IsTable, Accounts!InTab
  <2>3. /\ h \in Task /\ h.ans = "none" /\ ~h.done /\ h.snap = NoRows /\ h.stamp = 0
        /\ h.kind = "export" /\ h.call = "read"
    BY <1>1, <2>2, HandlerType DEF Handler, Task, Typed
  <2>4. Accounts!StartBusy(s, h) BY <2>1
  <2>5. listError' \in BOOLEAN BY <1>4, AccountsActions
  <2> HIDE DEF h
  <2> QED BY <1>1, <2>3, <2>4, <2>5, BusyClick
<1> QED BY <1>2, <1>3, <1>4

LEMMA AccountsStep ==
    ASSUME IInv, UNCHANGED screen, screen = "accounts", Accounts!Next
    PROVE  IInv'
<1>1. Prunes = FALSE BY DEF Prunes
<1>2. \A s \in Slots : Accounts!Click(s) =>
        \/ Clicks(s)
        \/ Accounts!OnCreateSingle(s) \/ Accounts!SubmitItems(s) \/ Accounts!ExportSecrets(s)
  BY AccountsActions, Zenon DEF Accounts!Click, Clicks
<1>3. ASSUME NEW s \in Slots, Accounts!ItemsDone(s) PROVE IInv'
  <2>1. (listError \/ SomeFailed(s)) \in BOOLEAN OBVIOUS
  <2> QED BY <1>3, <2>1, AccountsActions, BatchDoneStep DEF ItemAnswered
<1>4. ASSUME NEW s \in Slots, Accounts!Exported(s) PROVE IInv'
  BY <1>4, AccountsActions, ExportedStep DEF Answered
<1>5. ASSUME NEW s \in Slots, Accounts!Aborted(s) PROVE IInv'
  BY <1>5, AccountsActions, AbortedStep
<1>6. \A s \in Slots : Accounts!GoesOn(s) =>
        \/ Proceeds(s)
        \/ Accounts!ItemsDone(s) \/ Accounts!Exported(s) \/ Accounts!Aborted(s)
  BY <1>1, AccountsActions DEF Accounts!GoesOn, Proceeds
<1>7. ASSUME Accounts!MayMove, \/ \E t \in Accounts!Tabs : Accounts!ChooseTab(t)
                               \/ Accounts!NothingParsed \/ Accounts!ExportManifest
      PROVE  IInv'
  <2>1. at = "page" BY <1>7, AccountsActions DEF MayMove
  <2>2. CASE \E t \in Accounts!Tabs : Accounts!ChooseTab(t) BY <2>1, <2>2, AccountsActions, SwitchStep
  <2>3. CASE Accounts!NothingParsed \/ Accounts!ExportManifest BY <2>1, <2>3, AccountsActions, NoticeStep
  <2> QED BY <1>7, <2>2, <2>3
<1>8. Accounts!Moves => \/ Looks
                        \/ \E t \in Accounts!Tabs : Accounts!ChooseTab(t)
                        \/ Accounts!NothingParsed \/ Accounts!ExportManifest
  <2>1. {v \in Views : v.sort = Accounts!FirstView.sort} \in SUBSET Views OBVIOUS
  <2> QED BY <1>1, <2>1, AccountsActions, Zenon DEF Accounts!Moves, Looks
<1>9. \A s \in Slots : Accounts!MayStart(s) => MayStart(s) BY AccountsActions
<1> QED BY <1>2, <1>3, <1>4, <1>5, <1>6, <1>7, <1>8, <1>9, AccountsActions, AccountsClick, ListStep DEF Accounts!Next

LEMMA PagesInit ==
    /\ Keys!Init => InitList({"opencode"})
    /\ Pool!Init => InitList(Tabs)
    /\ Proxies!Init => InitList({"opencode"})
    /\ Accounts!Init => InitList(Tabs)
  BY Zenon DEF Keys!Init, Pool!Init, Proxies!Init, Accounts!Init,
      InitList, NoRows, FirstView, None, NoLabel, Free, Handler, Tabs, Cardinality,
      Keys!InitList, Keys!NoRows, Keys!FirstView, Keys!None, Keys!NoLabel, Keys!Free, Keys!Handler, Keys!Tabs, Keys!Cardinality,
      Pool!InitList, Pool!NoRows, Pool!FirstView, Pool!None, Pool!NoLabel, Pool!Free, Pool!Handler, Pool!Tabs, Pool!Cardinality,
      Proxies!InitList, Proxies!NoRows, Proxies!FirstView, Proxies!None, Proxies!NoLabel, Proxies!Free, Proxies!Handler, Proxies!Tabs, Proxies!Cardinality,
      Accounts!InitList, Accounts!NoRows, Accounts!FirstView, Accounts!None, Accounts!NoLabel, Accounts!Free, Accounts!Handler, Accounts!Tabs, Accounts!Cardinality

(***************************************************************************)
(* The theorems.                                                           *)
(***************************************************************************)
LEMMA InitInvariant == MCInit => IInv
<1> SUFFICES ASSUME MCInit PROVE IInv OBVIOUS
<1>1. PICK tabs \in SUBSET Tabs : InitList(tabs)
  <2>1. {"opencode"} \in SUBSET Tabs /\ Tabs \in SUBSET Tabs BY DEF Tabs
  <2> QED BY <2>1, PagesInit, Zenon DEF MCInit
<1>2. screen \in {"keys", "pool", "proxies", "accounts"} BY DEF MCInit
<1>3. PICK n \in 0 .. MaxId : /\ FirstRows \in [1 .. n -> Row]
                             /\ \A i \in 1 .. n : FirstRows[i].label = [of |-> i, new |-> FALSE]
  BY ListAssumption
<1>4. n \in Nat /\ 1 .. n \in SUBSET Ids BY ListAssumption DEF Ids
<1>5. born = n
  <2>1. Cardinality(1 .. n) = n BY <1>4, FS_Interval
  <2> QED BY <1>1, <1>3, <2>1 DEF InitList
<1>6. /\ db \in Table /\ DOMAIN db = 1 .. born /\ Labelled(db)
  <2>1. db = FirstRows BY <1>1 DEF InitList
  <2>2. FirstRows \in Table /\ DOMAIN FirstRows = 1 .. n BY <1>3, <1>4, TablesAre
  <2>3. \A i \in 1 .. n : FirstRows[i].label.of = i
    <3>1. \A i : [of |-> i, new |-> FALSE].of = i OBVIOUS
    <3> QED BY <1>3, <3>1, Zenon
  <2> QED BY <1>5, <2>1, <2>2, <2>3 DEF Labelled
<1>7. rows \in Table /\ DOMAIN rows = {}
  <2>1. NoRows \in [{} -> Row] /\ rows = NoRows BY <1>1 DEF NoRows, InitList
  <2> QED BY <2>1, TablesAre
<1>8. served = 0 /\ Sound(Free) /\ Free \in Task BY <1>1, FreeIsSound DEF InitList, Sound
<1> DEFINE h == Handler("load", "list")
<1>9. h \in Task /\ h.kind = "load" /\ h.call = "list" /\ h.ans = "none" /\ ~h.done /\ h.stamp = 0 /\ h.snap = NoRows
  BY <1>8 DEF Handler, Task, Free
<1>10. Free.kind = "none" /\ Free.call = "none" /\ Free.ans = "none" BY DEF Free
<1>11. PICK s \in Slots : task = [r \in Slots |-> IF r = s THEN h ELSE Free] BY <1>1 DEF InitList
<1> HIDE DEF h
<1>12. task \in [Slots -> Task] /\ \A r \in Slots : task[r] \in {h, Free} BY <1>8, <1>9, <1>11
<1>13. Typed
  <2>1. tab \in Tabs /\ view \in Views /\ pageSize \in PageSizes BY <1>1, ListAssumption DEF InitList
  <2>2. DOMAIN db \subseteq 1 .. born /\ born \in 0 .. MaxId /\ DOMAIN rows \subseteq 1 .. born BY <1>5, <1>6, <1>7
  <2>3. /\ at = "page" /\ served = 0 /\ applied = 0 /\ missed = 0 /\ page = 1 /\ selected = {} /\ composer = "closed"
        /\ editing = None /\ form = NoLabel
    BY <1>1 DEF InitList
  <2>4. {live, loading, listError, saving, bulkBusy, editSaving} \subseteq BOOLEAN BY <1>1 DEF InitList
  <2> QED BY <1>2, <1>6, <1>7, <1>12, <2>1, <2>2, <2>3, <2>4 DEF Typed
<1>14. Sound(h)
  <2>1. DOMAIN NoRows = {} BY DEF NoRows
  <2> QED BY <1>8, <1>9, <2>1 DEF Sound, Paired, Labelled, SameTabs, InLoop
<1>15. \A r \in Slots : Sound(task[r]) BY <1>8, <1>12, <1>14
<1>16. OnPage BY <1>1, <1>6, <1>7 DEF OnPage, InitList, Labelled, SameTabs, OfTab
<1>17. Backed
  <2>1. \A r \in Slots : task[r].kind \in {"load", "none"} BY <1>9, <1>10, <1>12
  <2>2. ~saving /\ ~editSaving /\ ~bulkBusy BY <1>1 DEF InitList
  <2>3. task[s].call = "list" BY <1>9, <1>11
  <2> QED BY <2>1, <2>2, <2>3 DEF Backed, Stands, InFlight, BusyKinds
<1>18. Current
  <2>1. \A r \in Slots : ~Brings(task[r]) BY <1>9, <1>10, <1>12 DEF Brings
  <2>2. applied = 0 /\ missed = 0 BY <1>1 DEF InitList
  <2> QED BY <2>1, <2>2 DEF Current, Fresh
<1> QED BY <1>13, <1>15, <1>16, <1>17, <1>18 DEF IInv

LEMMA NextInvariant == IInv /\ [MCNext]_<<listVars, screen>> => IInv'
<1> SUFFICES ASSUME IInv, [MCNext]_<<listVars, screen>> PROVE IInv' OBVIOUS
<1>1. CASE MCNext BY <1>1, KeysStep, PoolStep, ProxiesStep, AccountsStep DEF MCNext
<1>2. CASE UNCHANGED <<listVars, screen>>
  <2>1. /\ UNCHANGED <<screen, db, born, live, served, rows, applied, missed, task, at, tab, view, page, pageSize, selected>>
        /\ UNCHANGED <<loading, listError, saving, bulkBusy, editSaving, composer, editing, form>>
    BY <1>2 DEF listVars, serverVars, dataVars, viewVars, formVars
  <2>2. Typed /\ OnPage BY DEF IInv
  <2>3. VisibleIds' = VisibleIds
    <3>1. UNCHANGED <<rows, tab, view, page, pageSize>> BY <2>1
    <3> QED BY <3>1, Zenon DEF VisibleIds, Matching
  <2>4. OfTab(selected', tab') BY <2>1, <2>2 DEF OnPage
  <2> QED BY <2>1, <2>2, <2>3, <2>4, MoveStep DEF Typed, OnPage
<1> QED BY <1>1, <1>2

LEMMA Invariant == MCSpec => []IInv
  BY InitInvariant, NextInvariant, PTL DEF MCSpec

(* The state of a list page, whichever of the four it is, keeps its shape. *)
THEOREM TypeCorrect == MCSpec => []ListTypeOK
<1>1. IInv => ListTypeOK
  <2> SUFFICES ASSUME IInv PROVE ListTypeOK OBVIOUS
  <2>1. Typed BY DEF IInv
  <2>2. IsTable(db) /\ IsTable(rows) BY <2>1, TableIsTable DEF Typed
  <2>3. \A s \in Slots : task[s].ans \in {"none", "ok", "failed", "unauthorized"} BY <2>1 DEF Typed, Task
  <2> QED BY <2>1, <2>2, <2>3 DEF ListTypeOK, Typed
<1> QED BY <1>1, Invariant, PTL

(* A page at rest shows what the server has, whatever overlapped before:   *)
(* every handler that changes something and is answered owes a load until  *)
(* the load is answered, and the newest answered list is what the server   *)
(* has as long as nothing is owed.                                         *)
THEOREM QuietCorrect == MCSpec => []QuietMeansCurrent
<1>1. IInv => QuietMeansCurrent
  <2> SUFFICES ASSUME IInv, at = "page", \A s \in Slots : IsFree(s), applied = served, applied > missed
               PROVE  rows = db
    BY DEF QuietMeansCurrent
  <2>1. Current /\ \A s \in Slots : Sound(task[s]) BY DEF IInv
  <2>2. \A s \in Slots : ~Owes(task[s]) BY <2>1 DEF IsFree, Sound, Paired, Owes
  <2> QED BY <2>1, <2>2 DEF Current, Fresh, Owed
<1> QED BY <1>1, Invariant, PTL

(* A bulk action on the local keys, the pool or the proxies works only     *)
(* through rows that were selected and on screen when it was confirmed,    *)
(* and on every page only through rows of the tab it was started on.       *)
THEOREM ChoiceCorrect == MCSpec => []BulkStaysWithinChoice
<1>1. IInv => BulkStaysWithinChoice
  <2>1. \A t : Sound(t) /\ InLoop(t) => OfTab(LeftIn(t), t.tab) /\ (Prunes => LeftIn(t) \subseteq t.chosen) BY DEF Sound
  <2> QED BY <2>1 DEF IInv, BulkStaysWithinChoice, InLoop, LeftIn, OfTab, Prunes
<1> QED BY <1>1, Invariant, PTL

(* No save puts the text typed for one row on another.                     *)
THEOREM LabelsCorrect == MCSpec => []LabelsStayHome
<1>1. IInv => LabelsStayHome BY DEF IInv, OnPage, Labelled, LabelsStayHome
<1> QED BY <1>1, Invariant, PTL

(* A busy flag is up exactly while the one handler that lowers it runs.    *)
THEOREM SpinnersCorrect == MCSpec => []BusyIsBacked
<1>1. IInv => BusyIsBacked BY DEF IInv, Backed, Stands, BusyIsBacked
<1> QED BY <1>1, Invariant, PTL
===============================================================================
