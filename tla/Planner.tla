------------------------------- MODULE Planner -------------------------------
(***************************************************************************)
(* The deterministic planner of PlanningService: where a day has room      *)
(* (find_free_slots), in which order tasks are placed (_ordered_tasks) and *)
(* where each of them goes (_build_plan_items, _build_split_items).        *)
(*                                                                         *)
(* Time is counted in units from the first midnight of the user's zone.    *)
(* Changes of the zone's offset are left out: a day has DayLength units.   *)
(***************************************************************************)
EXTENDS Integers, FiniteSets, SequencesExt

CONSTANTS
    Task,
    DayLength, WorkStart, WorkEnd,  \* a day, and the hours of work in it
    WorkDays,                       \* the days whose weekday is allowed
    Increment,                      \* slot_increment_minutes, 15 by default
    DailyLimit,                     \* max_daily_minutes
    Duration, Due,                  \* of a task; Due may be NoTime
    Before, After,                  \* its buffers
    Splittable, MinChunk,           \* the tasks that split, and how small
    PlanningLocked,                 \* the tasks the planner may not place
    Rank                            \* [ordering -> [task -> place]]

NoTime == -1

ASSUME PlannerAssumption ==
    /\ DayLength \in Nat \ {0}
    /\ WorkStart \in 0..DayLength /\ WorkEnd \in WorkStart..DayLength
    /\ WorkDays \subseteq Nat
    /\ Increment \in Nat \ {0} /\ DailyLimit \in Nat \ {0}
    /\ Duration \in [Task -> Nat \ {0}]
    /\ Due \in [Task -> Nat \union {NoTime}]
    /\ Before \in [Task -> Nat] /\ After \in [Task -> Nat]
    /\ MinChunk \in [Task -> Nat \ {0}]
    /\ Splittable \subseteq Task /\ PlanningLocked \subseteq Task
    \* The sort keys end with the id of the task, which tells equals apart.
    /\ \A o \in DOMAIN Rank : /\ Rank[o] \in [Task -> Nat]
                             /\ \A t, u \in Task : Rank[o][t] = Rank[o][u] => t = u
    /\ DOMAIN Rank # {} /\ IsFiniteSet(Task)

Ordering == DOMAIN Rank

\* Constraints of the tables of tasks and events let none end before its start.
Interval == {i \in [start : Nat, end : Nat] : i.start <= i.end}
Span(s, e) == [start |-> s, end |-> e]
Overlap(a, b) == a.start < b.end /\ a.end > b.start
Clear(i, S) == \A j \in S : ~Overlap(i, j)

Day(t) == t \div DayLength

\* TaskScheduleDecision: what the user or the agent demands of one task.
NoDecision == [exact |-> NoTime, earliest |-> NoTime, latest |-> NoTime,
               preferred |-> NoTime, preds |-> {}, gap |-> 0]

Decision == LET Time == Nat \union {NoTime}
            IN [exact : Time, earliest : Time, latest : Time, preferred : Time,
                preds : SUBSET Task, gap : Nat]

Given(times) == times \ {NoTime}

-----------------------------------------------------------------------------
(* Free slots *)

\* The elements of a finite set, in the order of a relation strict and total on it.
InOrder(S, R) ==
    [k \in 1..Cardinality(S) |->
        CHOOSE x \in S : Cardinality({y \in S : <<y, x>> \in R}) = k - 1]

ByTime(S) ==
    {p \in S \X S : \/ p[1].start < p[2].start
                    \/ p[1].start = p[2].start /\ p[1].end < p[2].end}

\* _merge_intervals trusting that what starts later ends later.
JoinedByStart(merged, i) ==
    IF merged = <<>> \/ i.start > Last(merged).end
    THEN Append(merged, i)
    ELSE [merged EXCEPT ![Len(merged)] = Span(@.start, i.end)]

\* What touches the last of the merged intervals is joined to it.
Joined(merged, i) ==
    IF merged = <<>> \/ i.start > Last(merged).end
    THEN Append(merged, i)
    ELSE [merged EXCEPT ![Len(merged)] = Span(@.start, Max({@.end, i.end}))]

\* _merge_intervals: busy intervals in order, joined one after the other.
Merging(S) ==
    LET sorted == InOrder(S, ByTime(S))
        merged[n \in 0..Cardinality(S)] ==
            IF n = 0 THEN <<>> ELSE Joined(merged[n - 1], sorted[n])
    IN merged

MergeIntervals(S) == Merging(S)[Cardinality(S)]

\* _append_gap_slots: a start every Increment from the gap's beginning.
GapSlots(from, to, length) ==
    {s \in from..(to - length) : (s - from) % Increment = 0}

\* _append_window_slots with a cursor that may move back over a busy interval
\* that began before the last one ended.
PassedCursorBack(scan, i, to, length) ==
    IF i.end <= scan.cursor \/ i.start >= to THEN scan
    ELSE [cursor |-> i.start,
          slots |-> scan.slots \union GapSlots(scan.cursor, Min({i.start, to}), length)]

\* The cursor meets a busy interval: the gap before it is used.
Passed(scan, i, to, length) ==
    IF i.end <= scan.cursor \/ i.start >= to THEN scan
    ELSE [cursor |-> Max({scan.cursor, i.end}),
          slots |-> scan.slots \union GapSlots(scan.cursor, Min({i.start, to}), length)]

Scanning(from, to, busy, length) ==
    LET scan[n \in 0..Len(busy)] ==
            IF n = 0 THEN [cursor |-> from, slots |-> {}]
            ELSE Passed(scan[n - 1], busy[n], to, length)
    IN scan

\* _append_window_slots: the gaps the cursor meets on its way past the busy
\* intervals, and the one that is left behind the last of them.
WindowSlots(from, to, busy, length) ==
    LET scan == Scanning(from, to, busy, length)[Len(busy)]
    IN scan.slots \union GapSlots(scan.cursor, to, length)

\* _daily_window
DailyWindow(d, range) ==
    Span(Max({d * DayLength + WorkStart, range.start}),
         Min({d * DayLength + WorkEnd, range.end}))

\* find_free_slots: the starts of the slots, of all days of the range.
FreeSlots(busy, range, length) ==
    LET near == MergeIntervals({i \in busy : Overlap(i, range)})
        days == WorkDays \intersect Day(range.start)..Day(range.end)
    IN UNION {WindowSlots(DailyWindow(d, range).start, DailyWindow(d, range).end,
                          near, length) : d \in days}

-----------------------------------------------------------------------------
(* The order in which tasks are placed *)

ByRank(ts, ordering) ==
    {p \in ts \X ts : Rank[ordering][p[1]] < Rank[ordering][p[2]]}

Ready(pending, decisions) == {t \in pending : decisions[t].preds \intersect pending = {}}

\* _ordered_tasks: by rank, all tasks without a pending predecessor at a time.
Rounds(ts, ordering, decisions) ==
    LET round[n \in 0..Cardinality(ts)] ==
            IF n = 0 THEN [placed |-> <<>>, pending |-> ts]
            ELSE LET ready == Ready(round[n - 1].pending, decisions)
                 IN [placed |-> round[n - 1].placed \o InOrder(ready, ByRank(ready, ordering)),
                     pending |-> round[n - 1].pending \ ready]
    IN round

LastRound(ts, ordering, decisions) == Rounds(ts, ordering, decisions)[Cardinality(ts)]

\* "Task planning decisions contain a dependency cycle"
Acyclic(ts, decisions) == LastRound(ts, CHOOSE o \in Ordering : TRUE, decisions).pending = {}

OrderedTasks(ts, ordering, decisions) == LastRound(ts, ordering, decisions).placed

-----------------------------------------------------------------------------
(* Items: one for each task, or one for each segment of a split task *)

\* The interval of an item lies within what is reserved for it.
Item == {i \in [task : Task, version : Nat, state : {"placed", "unplaced"},
                locked : BOOLEAN, at : Interval, reserved : Interval] :
            i.reserved.start <= i.at.start /\ i.at.end <= i.reserved.end}

Placed(t, version, reservedFrom, minutes) ==
    LET start == reservedFrom + Before[t] IN
    [task |-> t, version |-> version, state |-> "placed", locked |-> FALSE,
     at |-> Span(start, start + minutes),
     reserved |-> Span(reservedFrom, start + minutes + After[t])]

\* _unplaced_item: an item without an interval.
NoSpan == Span(0, 0)
Unplaced(t, version) ==
    [task |-> t, version |-> version, state |-> "unplaced",
     locked |-> t \in PlanningLocked, at |-> NoSpan, reserved |-> NoSpan]

PlacedOf(items) == {i \in items : i.state = "placed"}
ItemsOf(items, ts) == {i \in items : i.task \in ts}
Reserved(items) == {i.reserved : i \in PlacedOf(items)}

\* The minutes items take, counted one by one, and those planned on a day.
UnitsOf(items) == UNION {{<<i, m>> : m \in i.at.start..(i.at.end - 1)} : i \in items}
Minutes(items) == Cardinality(UnitsOf(items))
PlacedOn(items, d) == {i \in PlacedOf(items) : Day(i.at.start) = d}
MinutesOn(items, d) == Minutes(PlacedOn(items, d))

\* scheduled_task_ends: of a task all of whose items are placed.
EndOf(items, t) ==
    LET own == ItemsOf(items, {t}) IN
    IF own = {} \/ own # PlacedOf(own) THEN NoTime
    ELSE Max({i.at.end : i \in own})

\* The slots left by what is already assigned and by the daily limit.
Available(slots, length, minutes, items) ==
    {s \in slots : /\ Clear(Span(s, s + length), Reserved(items))
                   /\ MinutesOn(items, Day(s)) + minutes <= DailyLimit}

\* The preferred slot is the nearest, and of two the earlier.
Choose(slots, preferred) ==
    IF preferred = NoTime THEN Min(slots)
    ELSE LET Distance(s) == IF s < preferred THEN preferred - s ELSE s - preferred
             nearest == {s \in slots : \A o \in slots : Distance(s) <= Distance(o)}
         IN Min(nearest)

Length(t, minutes) == Before[t] + minutes + After[t]

\* What of a task may be put in one place: nothing or another chunk is left.
ChunkSizes(t, left) ==
    LET least == Min({Duration[t], MinChunk[t]}) IN
    {s \in least..left : (left - s) % Increment = 0 /\ (left = s \/ left - s >= least)}

ChunkSlots(t, size, busy, range, items) ==
    LET length == Length(t, size)
    IN Available(FreeSlots(busy, range, length), length, size, items)

\* The segments made so far, and the largest chunk of the rest that fits.
NextSegment(t, version, busy, range, preferred, items, made) ==
    LET sizes == {s \in ChunkSizes(t, Duration[t] - Minutes(made)) :
                     ChunkSlots(t, s, busy, range, items \union made) # {}}
        size == Max(sizes)
        slots == ChunkSlots(t, size, busy, range, items \union made)
    IN IF Minutes(made) = Duration[t] \/ sizes = {} THEN made
       ELSE made \union {Placed(t, version,
                                Choose(slots, IF made = {} THEN preferred ELSE NoTime), size)}

Segments(t, version, busy, range, preferred, items) ==
    LET segment[n \in 0..Duration[t]] ==
            IF n = 0 THEN {}
            ELSE NextSegment(t, version, busy, range, preferred, items, segment[n - 1])
    IN segment

\* _build_split_items: the segments if they are all of the task and more than
\* one, nothing otherwise.
SplitItems(t, version, busy, range, preferred, items) ==
    LET all == Segments(t, version, busy, range, preferred, items)[Duration[t]]
    IN IF Minutes(all) = Duration[t] /\ Cardinality(all) > 1 THEN all ELSE {}

\* One task of _build_plan_items: its items, given those placed before it.
TaskItems(t, version, d, busy, range, notBefore, strategy, items) ==
    LET length == Length(t, Duration[t])
        starts == {range.start, notBefore} \union Given({d.earliest})
                  \union {EndOf(items, p) + d.gap * DayLength : p \in d.preds}
        ends == {range.end} \union Given({Due[t], d.latest})
        window == Span(Max(starts), Min(ends))
        exactly == Span(d.exact - Before[t], d.exact - Before[t] + length)
        slots == IF d.exact # NoTime
                 THEN {exactly.start} \intersect FreeSlots(busy, exactly, length)
                 ELSE FreeSlots(busy, window, length)
        free == Available(slots, length, Duration[t], items)
        split == IF strategy = "create_linked_event_blocks" /\ t \in Splittable
                 THEN SplitItems(t, version, busy, window, d.preferred, items)
                 ELSE {}
    IN IF \/ t \in PlanningLocked
          \/ \E p \in d.preds : EndOf(items, p) = NoTime
          \/ window.end <= window.start
          \/ d.exact # NoTime /\ (exactly.start < window.start \/ exactly.end > window.end)
       THEN {Unplaced(t, version)}
       ELSE IF free # {}
       THEN {Placed(t, version, Choose(free, d.preferred), Duration[t])}
       ELSE IF d.exact = NoTime /\ split # {} THEN split
       ELSE {Unplaced(t, version)}

Placing(order, version, decisions, busy, range, notBefore, strategy, retained) ==
    LET items[n \in 0..Len(order)] ==
            IF n = 0 THEN retained
            ELSE items[n - 1] \union
                 TaskItems(order[n], version[order[n]], decisions[order[n]], busy, range,
                           notBefore, strategy, items[n - 1])
    IN items

\* _build_plan_items: retained items keep their intervals.
BuildPlanItems(order, version, decisions, busy, range, notBefore, strategy, retained) ==
    Placing(order, version, decisions, busy, range, notBefore, strategy, retained)[Len(order)]
=============================================================================
