------------------------------ MODULE Schedule ------------------------------
(***************************************************************************)
(* The facts of one user's schedule, tasks with their planned intervals    *)
(* and calendar events, and those who change them: the user through        *)
(* TaskService and EventService, and the calendar sync.  Each holds the    *)
(* user's advisory lock (lock_user_schedule_writes) until it commits, so   *)
(* that each is one step.  What is computed from the facts (Planning,      *)
(* Replanning) is added by the modules that extend this one.               *)
(***************************************************************************)
EXTENDS Planner

CONSTANTS
    NoTask,
    Opening,            \* the intervals the tasks begin with
    SpanChoices,        \* intervals a user or a calendar picks
    Instants,           \* bound: the times at which something happens
    MaxWrites           \* bound: what users and calendars change

ASSUME ScheduleAssumption ==
    /\ NoTask \notin Task
    /\ SpanChoices \subseteq Interval
    /\ Opening \in [Task -> Interval]
    /\ Instants \subseteq Nat /\ 0 \in Instants
    /\ MaxWrites \in Nat

VARIABLES
    now,
    tasks,              \* Task rows: active or done, planned interval, version
    events,             \* CalendarEvent rows that are not cancelled
    writes

scheduleVars == <<now, tasks, events, writes>>

TaskRow == [state : {"active", "done"}, slot : Interval, version : Nat \ {0}]
Event == [at : Interval, task : Task \union {NoTask}]

ScheduleOK ==
    /\ now \in Instants
    /\ tasks \in [Task -> TaskRow]
    /\ events \subseteq Event /\ IsFiniteSet(events)
    /\ writes \in 0..MaxWrites

ScheduleInit ==
    /\ now = 0
    /\ tasks = [t \in Task |-> [state |-> "active", slot |-> Opening[t], version |-> 1]]
    /\ events = {}
    /\ writes = 0

\* The intervals of active tasks that are planned.
PlannedBut(rows, ts) ==
    {rows[t].slot : t \in {u \in Task \ ts : rows[u].state = "active" /\ rows[u].slot # NoSpan}}
EventSpans == {e.at : e \in events}

\* _load_busy_intervals
Busy(excluded) == EventSpans \union PlannedBut(tasks, excluded)

\* validate_task_slots for intervals that do not overlap each other.
SlotsAreFree(spans, ts) == \A s \in spans : Clear(s, Busy(ts))

-----------------------------------------------------------------------------
(* Who changes it *)

Write == writes < MaxWrites /\ writes' = writes + 1

Touch(t, row) == tasks' = [tasks EXCEPT ![t] = [row EXCEPT !.version = @ + 1]]

\* reschedule_task by a user, who may also clear the interval.
Reschedule(t, at) ==
    /\ Write
    /\ at # NoSpan => SlotsAreFree({at}, {t})
    /\ Touch(t, [tasks[t] EXCEPT !.slot = at])
    /\ UNCHANGED <<now, events>>

\* complete_task and cancel_task, which keep the interval, and reopen_task,
\* which takes it up again whatever has been put there.
SetState(t, state) ==
    /\ Write
    /\ tasks[t].state # state
    /\ Touch(t, [tasks[t] EXCEPT !.state = state])
    /\ UNCHANGED <<now, events>>

\* create_event: events never overlap, planned tasks are not looked at ...
CreateEvent(at) ==
    /\ Write
    /\ Clear(at, EventSpans)
    /\ events' = events \union {[at |-> at, task |-> NoTask]}
    /\ UNCHANGED <<now, tasks>>

\* ... and _upsert_event of a calendar sync looks at nothing.
SyncEvent(at) ==
    /\ Write
    /\ events' = events \union {[at |-> at, task |-> NoTask]}
    /\ UNCHANGED <<now, tasks>>

CancelEvent(e) ==
    /\ Write
    /\ events' = events \ {e}
    /\ UNCHANGED <<now, tasks>>

Tick(t) ==
    /\ t > now
    /\ now' = t
    /\ UNCHANGED <<tasks, events, writes>>

ChangeSchedule ==
    \/ \E t \in Task, at \in SpanChoices \union {NoSpan} : Reschedule(t, at)
    \/ \E t \in Task, state \in {"active", "done"} : SetState(t, state)
    \/ \E at \in SpanChoices : CreateEvent(at) \/ SyncEvent(at)
    \/ \E e \in events : CancelEvent(e)
    \/ \E t \in Instants : Tick(t)
=============================================================================
