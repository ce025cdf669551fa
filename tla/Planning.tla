------------------------------ MODULE Planning ------------------------------
(***************************************************************************)
(* SchedulePlan rows of one user and the schedule they are made for.       *)
(*                                                                         *)
(* A plan is a draft that was right when it was made.  Until somebody      *)
(* applies it, tasks are moved and completed, events come and go, a        *)
(* calendar sync brings some that nobody asked about, and clients edit and *)
(* regenerate the plan, each with the version it has last seen.  Every     *)
(* writer but abandon, which changes one row, and a proposal without       *)
(* operation_id holds the user's advisory lock, so that each is one step.  *)
(* A proposal without operation_id reads and writes in steps of its own,   *)
(* and what it reads may change in between.                                *)
(***************************************************************************)
EXTENDS Schedule

CONSTANTS
    Plan,
    Strategy,           \* subset of the two strategies
    DecisionChoices,    \* what an agent may demand: a set of [Task -> decision]
    RangeChoices,       \* the ranges plans are asked for
    PlanTTL,            \* SCHEDULE_PLAN_TTL_SECONDS
    MaxVersion          \* bound: the version up to which drafts are edited

ASSUME PlanningAssumption ==
    /\ Strategy \subseteq {"plan_tasks_only", "create_linked_event_blocks"}
    /\ DecisionChoices \subseteq [Task -> Decision]
    /\ RangeChoices \subseteq Interval
    /\ PlanTTL \in Nat \ {0} /\ MaxVersion \in Nat

VARIABLES
    plan,               \* SchedulePlan rows
    seen,               \* the version and the items a client was last shown
    basis,              \* the task rows each plan is computed from
    proposing           \* the rows that proposals without a lock are making

planVars == <<plan, seen, basis, proposing>>
vars == <<scheduleVars, planVars>>

Ended == {"applied", "abandoned", "invalidated"}
NoPlan == [status |-> "none", version |-> 0, items |-> {},
           decisions |-> [t \in Task |-> NoDecision], strategy |-> "plan_tasks_only",
           range |-> NoSpan, expires |-> 0, tasks |-> {}]
NoView == [version |-> 0, items |-> {}]

PlanRow == [status : {"none", "draft"} \union Ended, version : Nat, items : SUBSET Item,
            decisions : [Task -> Decision], range : Interval, expires : Nat,
            strategy : {"plan_tasks_only", "create_linked_event_blocks"}, tasks : SUBSET Task]
View == [version : Nat, items : SUBSET Item]

\* A proposal that holds no lock: its row, with the items of the first tasks of
\* the order; the time it began at; what a query reads next, and the events it met;
\* and the intervals that every one of its queries has met.
NoProposal == [row |-> NoPlan]
Proposal == [row : PlanRow, order : Seq(Task), done : Nat, at : Nat,
             reads : {"events", "tasks"}, spans : SUBSET Interval, known : SUBSET Interval]

TypeOK ==
    /\ ScheduleOK
    /\ plan \in [Plan -> PlanRow] /\ \A p \in Plan : IsFiniteSet(plan[p].items)
    /\ seen \in [Plan -> View]
    /\ basis \in [Plan -> [Task -> TaskRow]]
    /\ proposing \in [Plan -> Proposal \union {NoProposal}]

Init ==
    /\ ScheduleInit
    /\ plan = [p \in Plan |-> NoPlan]
    /\ seen = [p \in Plan |-> NoView]
    /\ basis = [p \in Plan |-> tasks]
    /\ proposing = [p \in Plan |-> NoProposal]

-----------------------------------------------------------------------------
(* Validation *)

\* The decisions of a plan hold for the items that are placed.
DecisionsHold(items, decisions) ==
    \A i \in PlacedOf(items) :
        LET d == decisions[i.task] IN
        /\ d.exact # NoTime => i.at.start = d.exact
                               /\ PlacedOf(ItemsOf(items, {i.task})) = {i}
        /\ d.earliest # NoTime => i.at.start >= d.earliest
        /\ d.latest # NoTime => i.at.end <= d.latest
        /\ \A q \in d.preds :
              /\ EndOf(items, q) # NoTime
              /\ i.at.start >= EndOf(items, q) + d.gap * DayLength

\* _slots_respect_constraint_snapshot
InWorkHours(s) ==
    /\ Day(s.start) \in WorkDays
    /\ s.start >= Day(s.start) * DayLength + WorkStart
    /\ s.end <= Day(s.start) * DayLength + WorkEnd

DaysOf(items) == {Day(i.at.start) : i \in PlacedOf(items)}

ItemsAreApart(items) ==
    \A i, j \in PlacedOf(items) : i # j => ~Overlap(i.reserved, j.reserved)

WithinDailyLimit(items) == \A d \in DaysOf(items) : MinutesOn(items, d) <= DailyLimit

\* What a plan needs whatever the rest of the schedule is.
Feasible(items) ==
    /\ WithinDailyLimit(items)
    /\ \A s \in Reserved(items) : InWorkHours(s)
    /\ ItemsAreApart(items)

Moved(row) == {i.task : i \in PlacedOf(row.items)}

\* Exempting every task of the plan, also those the plan leaves where they are.
ExemptAll(row) == row.tasks

\* The tasks whose current interval is no obstacle: those the plan moves.
Exempt(row) == Moved(row)

\* _plan_validation_reason_codes finding nothing.
Valid(row, t) ==
    LET placed == PlacedOf(row.items) IN
    /\ row.status = "draft"
    /\ row.expires > t
    /\ \A i \in placed : /\ i.at.end > i.at.start
                         /\ i.reserved.start >= t
                         /\ tasks[i.task].version = i.version
                         /\ Due[i.task] # NoTime => i.at.end <= Due[i.task]
    /\ DecisionsHold(row.items, row.decisions)
    /\ Feasible(row.items)
    /\ SlotsAreFree(Reserved(row.items), Exempt(row))

-----------------------------------------------------------------------------
(* Plans *)

Versions == [t \in Task |-> tasks[t].version]

\* propose_schedule_plan: the row it makes.
NewRow(ts, decisions, strategy, range, items) ==
    [status |-> "draft", version |-> 1, decisions |-> decisions, strategy |-> strategy,
     range |-> range, tasks |-> ts, expires |-> now + PlanTTL, items |-> items]

\* The row it makes under the lock.  It leaves out what the plan's own tasks occupy.
Draft(ts, decisions, strategy, range, ordering) ==
    NewRow(ts, decisions, strategy, range,
           BuildPlanItems(OrderedTasks(ts, ordering, decisions), Versions,
                          decisions, Busy(ts), range, now, strategy, {}))

Requestable(ts, decisions) ==
    /\ \A t \in Task : decisions[t] # NoDecision => t \in ts /\ decisions[t].preds \subseteq ts
    /\ Acyclic(ts, decisions)

Unused(p) == plan[p].status = "none" /\ proposing[p] = NoProposal

\* propose_schedule_plan with an operation_id, under the lock.
Propose(p, ts, decisions, strategy, range, ordering) ==
    /\ Unused(p)
    /\ Requestable(ts, decisions)
    /\ plan' = [plan EXCEPT ![p] = Draft(ts, decisions, strategy, range, ordering)]
    /\ seen' = [seen EXCEPT ![p] = NoView]
    /\ basis' = [basis EXCEPT ![p] = tasks]
    /\ UNCHANGED <<scheduleVars, proposing>>

\* Without operation_id: the clock and the tasks are read ...
BeginProposal(p, ts, decisions, strategy, range, ordering) ==
    /\ Unused(p)
    /\ Requestable(ts, decisions)
    /\ proposing' = [proposing EXCEPT ![p] =
         [row |-> NewRow(ts, decisions, strategy, range, {}),
          order |-> OrderedTasks(ts, ordering, decisions), done |-> 0, at |-> now,
          reads |-> "events", spans |-> {}, known |-> Busy(ts)]]
    /\ basis' = [basis EXCEPT ![p] = tasks]
    /\ UNCHANGED <<scheduleVars, plan, seen>>

\* ... for each task in turn find_free_slots reads the events ...
ReadEvents(p) ==
    LET r == proposing[p] IN
    /\ r # NoProposal
    /\ r.reads = "events" /\ r.done < Len(r.order)
    /\ proposing' = [proposing EXCEPT ![p] = [r EXCEPT !.reads = "tasks", !.spans = EventSpans]]
    /\ UNCHANGED <<scheduleVars, plan, seen, basis>>

\* ... and then the planned intervals, and the task is placed ...
PlaceNext(p) ==
    LET r == proposing[p]
        t == r.order[r.done + 1]
        busy == r.spans \union PlannedBut(tasks, r.row.tasks)
        own == TaskItems(t, basis[p][t].version, r.row.decisions[t], busy, r.row.range,
                         r.at, r.row.strategy, r.row.items)
    IN /\ r # NoProposal
       /\ r.reads = "tasks"
       /\ proposing' = [proposing EXCEPT ![p] =
            [row |-> [r.row EXCEPT !.items = @ \union own],
             order |-> r.order, done |-> r.done + 1, at |-> r.at,
             reads |-> "events", spans |-> {}, known |-> r.known \intersect busy]]
       /\ UNCHANGED <<scheduleVars, plan, seen, basis>>

\* ... until the row is inserted.  compare_schedule_plans makes two of them, one
\* for each ordering, one after the other.
FinishProposal(p) ==
    LET r == proposing[p] IN
    /\ r # NoProposal
    /\ r.done = Len(r.order)
    /\ plan' = [plan EXCEPT ![p] = r.row]
    /\ seen' = [seen EXCEPT ![p] = NoView]
    /\ proposing' = [proposing EXCEPT ![p] = NoProposal]
    /\ UNCHANGED <<scheduleVars, basis>>

\* get_schedule_plan, and what every operation answers with.
Look(p) ==
    /\ plan[p].status # "none"
    /\ seen' = [seen EXCEPT ![p] = [version |-> plan[p].version, items |-> plan[p].items]]
    /\ seen' # seen
    /\ UNCHANGED <<scheduleVars, plan, basis, proposing>>

\* The guard of every operation on a draft: expected_version is what was seen.
AsSeen(p) == plan[p].status = "draft" /\ plan[p].version = seen[p].version

Unexpired(p) == plan[p].expires > now

\* regenerate_schedule_plan, forgetting that the plan is another one now.
RenewedUnversioned(p, items, decisions) ==
    [plan[p] EXCEPT !.items = items, !.decisions = decisions, !.expires = now + PlanTTL]

\* What edit_schedule_plan and regenerate_schedule_plan save.
Renewed(p, items, decisions) ==
    [plan[p] EXCEPT !.items = items, !.decisions = decisions,
                    !.expires = now + PlanTTL, !.version = plan[p].version + 1]

\* The minutes and intervals of retained items are taken into account, their
\* decisions are not.
Regenerate(p, ts, ordering) ==
    LET row == plan[p]
        retained == row.items \ ItemsOf(row.items, ts)
        items == BuildPlanItems(OrderedTasks(ts, ordering, row.decisions), Versions,
                                row.decisions, Busy(ts), row.range, now,
                                row.strategy, retained)
    IN /\ AsSeen(p) /\ Unexpired(p) /\ plan[p].version < MaxVersion
       /\ ts \subseteq row.tasks
       /\ \A i \in ItemsOf(row.items, ts) : ~i.locked
       /\ plan' = [plan EXCEPT ![p] = Renewed(p, items, row.decisions)]
       /\ basis' = [basis EXCEPT ![p] = [t \in Task |-> IF t \in ts THEN tasks[t] ELSE @[t]]]
       /\ UNCHANGED <<scheduleVars, seen, proposing>>

\* edit_schedule_plan, one item at a time: it moves, is locked or unlocked.
Edit(p, i, at, locked) ==
    LET row == plan[p]
        t == i.task
        moved == IF at = NoSpan THEN i
                 ELSE [i EXCEPT !.state = "placed", !.at = at,
                                !.reserved = Span(at.start - Before[t], at.end + After[t])]
        decisions == IF at = NoSpan THEN row.decisions
                     ELSE [row.decisions EXCEPT
                             ![t] = [@ EXCEPT !.exact = at.start, !.preferred = NoTime]]
        new == Renewed(p, (row.items \ {i}) \union {[moved EXCEPT !.locked = locked]},
                       decisions)
    IN /\ AsSeen(p) /\ Unexpired(p) /\ plan[p].version < MaxVersion
       /\ i \in row.items /\ ItemsOf(row.items, {t}) = {i}
       /\ at # NoSpan /\ i.locked => ~locked
       /\ at # NoSpan \/ locked # i.locked
       /\ Valid(new, now)
       /\ plan' = [plan EXCEPT ![p] = new]
       /\ UNCHANGED <<scheduleVars, seen, basis, proposing>>

End(p, status) ==
    plan' = [plan EXCEPT ![p] =
               [@ EXCEPT !.status = status, !.version = plan[p].version + 1]]

\* validate_schedule_plan and apply_schedule_plan on a draft that is no longer
\* right, committed although apply answers with an error.
Invalidate(p) ==
    /\ AsSeen(p)
    /\ ~Valid(plan[p], now)
    /\ End(p, "invalidated")
    /\ UNCHANGED <<scheduleVars, seen, basis, proposing>>

Abandon(p) ==
    /\ AsSeen(p)
    /\ End(p, "abandoned")
    /\ UNCHANGED <<scheduleVars, seen, basis, proposing>>

\* apply_schedule_plan writing to the tasks: reschedule_task of every item ...
ApplyToTasks(p) ==
    LET placed == PlacedOf(plan[p].items)
        SlotOf(t) == (CHOOSE i \in placed : i.task = t).at
    IN /\ AsSeen(p)
       /\ Valid(plan[p], now)
       /\ plan[p].strategy = "plan_tasks_only"
       /\ tasks' = [t \in Task |->
                      IF t \in Moved(plan[p])
                      THEN [tasks[t] EXCEPT !.slot = SlotOf(t), !.version = @ + 1]
                      ELSE tasks[t]]
       /\ End(p, "applied")
       /\ UNCHANGED <<now, events, seen, basis, proposing, writes>>

\* ... or a linked event for every item, and the new estimate of their tasks.
ApplyAsEvents(p) ==
    LET placed == PlacedOf(plan[p].items) IN
    /\ AsSeen(p)
    /\ Valid(plan[p], now)
    /\ plan[p].strategy = "create_linked_event_blocks"
    /\ \A i \in placed : Clear(i.at, EventSpans)
    /\ events' = events \union {[at |-> i.at, task |-> i.task] : i \in placed}
    /\ tasks' = [t \in Task |-> IF t \in Moved(plan[p])
                                THEN [tasks[t] EXCEPT !.version = @ + 1] ELSE tasks[t]]
    /\ End(p, "applied")
    /\ UNCHANGED <<now, seen, basis, proposing, writes>>

-----------------------------------------------------------------------------
SomePlan ==
    \E p \in Plan, ts \in (SUBSET Task) \ {{}}, decisions \in DecisionChoices,
       strategy \in Strategy, range \in RangeChoices, ordering \in Ordering :
        \/ Propose(p, ts, decisions, strategy, range, ordering)
        \/ BeginProposal(p, ts, decisions, strategy, range, ordering)

ProposalStep(p) == ReadEvents(p) \/ PlaceNext(p) \/ FinishProposal(p)

UsePlan(p) ==
    \/ Look(p)
    \/ \E ts \in (SUBSET plan[p].tasks) \ {{}}, ordering \in Ordering : Regenerate(p, ts, ordering)
    \/ \E i \in plan[p].items, at \in SpanChoices \union {NoSpan}, locked \in BOOLEAN :
          Edit(p, i, at, locked)
    \/ Invalidate(p)
    \/ Abandon(p)
    \/ ApplyToTasks(p)
    \/ ApplyAsEvents(p)

Next ==
    \/ SomePlan
    \/ \E p \in Plan : ProposalStep(p) \/ UsePlan(p)
    \/ ChangeSchedule /\ UNCHANGED planVars

Spec == Init /\ [][Next]_vars

-----------------------------------------------------------------------------
(* Properties *)

Applied(p) == plan[p].status = "draft" /\ plan'[p].status = "applied"

\* Optimistic concurrency of SchedulePlan.version: what is applied is item for
\* item what the client that asks for it was shown, whatever other clients
\* edited or regenerated meanwhile.
WhatWasSeenIsApplied ==
    [][\A p \in Plan : Applied(p) => plan[p].items = seen[p].items]_vars

\* item.task_version and Task.version: a task moved by a plan is in the state
\* the plan was computed from; no change of a user in between is overwritten.
NoEditIsOverwritten ==
    [][\A p \in Plan : Applied(p) =>
          \A t \in Moved(plan[p]) : tasks[t] = basis[p][t]]_vars

\* An applied plan adds no conflict to the schedule: none of its items overlaps
\* an event, another item or the interval of another active task.  Where linked
\* events are created, the tasks of the plan keep their old intervals, and
\* those are not spared.
AppliedPlanFits ==
    [][\A p \in Plan : Applied(p) =>
          \A i \in PlacedOf(plan[p].items) :
             /\ Clear(i.at, EventSpans)
             /\ \A j \in PlacedOf(plan[p].items) : i # j => ~Overlap(i.at, j.at)
             /\ \A t \in Task \ {i.task} :
                   /\ tasks[t].state = "active" /\ tasks[t].slot # NoSpan
                   /\ plan[p].strategy = "create_linked_event_blocks" => t \notin Moved(plan[p])
                   => ~Overlap(i.at, tasks'[t].slot)]_vars

\* The intervals of tasks that a plan leaves where they are are in the way of none
\* of its items.  The builder does not see to that: it regards the place of every
\* task of the plan as free, the validator only those of the tasks that move.
SparesItsOwn(row) ==
    \A t \in row.tasks \ Moved(row) :
        tasks[t].state = "active" => Clear(tasks[t].slot, Reserved(row.items))

\* Each task that is placed is placed for as long as it takes.
TakesItsTime(row) ==
    \A t \in Moved(row) : Minutes(ItemsOf(row.items, {t})) = Duration[t]

\* What a row says of its tasks and their order whatever the schedule is.
RightInItself(row) ==
    /\ TakesItsTime(row)
    /\ DecisionsHold(row.items, row.decisions)
    /\ \A i \in PlacedOf(row.items) : Due[i.task] # NoTime => i.at.end <= Due[i.task]

\* What a proposal has read is still so: the time, its tasks, and nothing has been
\* put in the way that one of its queries did not meet.
StillStands(p) ==
    LET r == proposing[p] IN
    r # NoProposal => /\ now = r.at
                      /\ \A t \in r.row.tasks : tasks[t] = basis[p][t]
                      /\ Busy(r.row.tasks) \subseteq r.known

\* The builder and the validator agree on all the rest.  A plan is right in itself
\* when it is proposed, whatever else changes while it is made.  It is valid in its
\* versions, its limits and the schedule it is put into if it was made under the
\* lock, or if what it was made from still stands.
ProposalsAreRight ==
    [][\A p \in Plan :
          plan[p].status = "none" /\ plan'[p].status = "draft"
          => /\ RightInItself(plan'[p])
             /\ SparesItsOwn(plan'[p]) /\ StillStands(p) => Valid(plan'[p], now)]_vars

\* A task is placed, in one item or more, or its only item says that it is not.
Whole(items, t) ==
    LET own == ItemsOf(items, {t})
    IN own # {} /\ \A i \in own : i.state = "placed" \/ own = {i}

\* No task of a plan is lost or left half placed, whatever is edited and
\* regenerated: decisions that were accepted put any of the tasks in an order.
DraftsAreWhole ==
    \A p \in Plan : \A t \in plan[p].tasks : Whole(plan[p].items, t)

\* Whatever is edited and regenerated, the items of a draft keep apart with
\* their buffers, inside working hours and the daily limit.
DraftsAreFeasible == \A p \in Plan : Feasible(plan[p].items)

\* find_free_slots misses nothing and invents nothing: its slots are free and
\* within working hours, and the first of them is the first place there is.
SlotsAreTheRoom ==
    \A range \in RangeChoices, length \in 1..(WorkEnd - WorkStart) :
        LET room == {s \in range.start..range.end :
                        /\ s + length <= range.end
                        /\ InWorkHours(Span(s, s + length))
                        /\ Clear(Span(s, s + length), Busy({}))}
            slots == FreeSlots(Busy({}), range, length)
        IN /\ slots \subseteq room
           /\ room # {} => slots # {} /\ Min(slots) = Min(room)

\* Who was shown the current version of a plan was shown its items.
ViewFollows(row, view) ==
    /\ view.version <= row.version
    /\ view.version = row.version => view.items = row.items

\* The items of a plan carry the versions of what it was computed from, and a
\* task that still has that version is what it was.
BasisFollows(row, base, rows) ==
    /\ \A i \in row.items : i.task \in row.tasks /\ i.version = base[i.task].version
    /\ \A t \in Task : /\ base[t].version <= rows[t].version
                       /\ base[t].version = rows[t].version => base[t] = rows[t]

PlansFollowTasks ==
    \A p \in Plan : ViewFollows(plan[p], seen[p]) /\ BasisFollows(plan[p], basis[p], tasks)

\* What find_free_slots offers, what the drafts make of it, and what they know.
PlanInv == TypeOK /\ DraftsAreFeasible /\ DraftsAreWhole /\ SlotsAreTheRoom /\ PlansFollowTasks

\* Whoever applies a plan changes what they looked at, on both sides: the plan
\* and the tasks.
AppliedAsSeen == WhatWasSeenIsApplied /\ NoEditIsOverwritten
=============================================================================
