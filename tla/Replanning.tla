----------------------------- MODULE Replanning -----------------------------
(***************************************************************************)
(* Local repairs of the schedule: AdaptivePlanningService, the beat task   *)
(* planning.dispatch_authorized_replans, and a user's automation policy.   *)
(*                                                                         *)
(* A repair is previewed and applied in two transactions, and the schedule *)
(* changes in between; a dispatcher goes through the disruptions it found  *)
(* when it began, with the policy as it read it then.  Beat does not wait  *)
(* for the last dispatcher, so two of them may find the same disruption.   *)
(***************************************************************************)
EXTENDS Schedule

CONSTANTS
    Worker,
    Request,            \* operation ids that clients send
    Horizon,            \* ADAPTIVE_REPLAN_HORIZON_HOURS
    MaxMoves,           \* max_moves_per_run
    MaxCrashes          \* bound: workers that die

ASSUME ReplanningAssumption ==
    /\ Horizon \in Nat /\ MaxMoves \in Nat \ {0} /\ MaxCrashes \in Nat

VARIABLES
    policy,             \* AutomationPolicy
    batches,            \* ScheduleChangeBatch rows
    worker,             \* what each worker is doing
    crashes

replanVars == <<policy, batches, worker, crashes>>
repairVars == <<scheduleVars, replanVars>>

\* enabled and allow_task_reschedule; not requires_approval; the allowlist.
Policy == [on : BOOLEAN, auto : BOOLEAN, allowed : SUBSET Task]

Disruption == [task : Task, version : Nat, event : Event, blocked : Interval]
TaskMove == [task : Task, version : Nat, from : Interval, to : Interval, row : TaskRow]
Operation == Request \union Disruption \union {NoTask}
PreviewOf == [op : Operation, moves : SUBSET TaskMove]
Batch == [op : Operation, status : {"applied", "reverted"}, moves : (SUBSET TaskMove) \ {{}}]

NoPreview == [op |-> NoTask, moves |-> {}]
WorkerRow == [at : {"rest", "next", "apply", "request"}, queue : SUBSET Disruption,
              moved : SUBSET Task, preview : PreviewOf, policy : Policy]
Resting == [at |-> "rest", queue |-> {}, moved |-> {}, preview |-> NoPreview,
            policy |-> [on |-> FALSE, auto |-> FALSE, allowed |-> {}]]

TypeOKRepairs ==
    /\ ScheduleOK
    /\ policy \in Policy
    /\ batches \subseteq Batch
    /\ worker \in [Worker -> WorkerRow]
    /\ crashes \in 0..MaxCrashes

InitRepairs ==
    /\ ScheduleInit
    /\ policy = [on |-> TRUE, auto |-> TRUE, allowed |-> Task]
    /\ batches = {}
    /\ worker = [w \in Worker |-> Resting]
    /\ crashes = 0

-----------------------------------------------------------------------------
(* What is wrong, and where there is room *)

\* detect_disruptions: planned tasks under events that are not their own.
Disrupted(t, e) ==
    /\ tasks[t].state = "active"
    /\ Overlap(tasks[t].slot, Span(now, now + Horizon))
    /\ Overlap(e.at, Span(now, now + Horizon))
    /\ e.task # t /\ Overlap(tasks[t].slot, e.at)

Disruptions ==
    UNION {{[task |-> t, version |-> tasks[t].version, event |-> e,
             blocked |-> Span(Max({tasks[t].slot.start, e.at.start}),
                              Min({tasks[t].slot.end, e.at.end}))] :
                e \in {f \in events : Disrupted(t, f)}} : t \in Task}

\* The slots behind what is blocked; the task's own interval is not free.
Slots(t, blocked) ==
    LET to == Min({now + Horizon} \union Given({Due[t]})) IN
    IF to <= blocked.end THEN {}
    ELSE FreeSlots(Busy({}), Span(blocked.end, to), Duration[t])

Move(t, start) ==
    [task |-> t, version |-> tasks[t].version, from |-> tasks[t].slot,
     to |-> Span(start, start + Duration[t]), row |-> tasks[t]]

\* A task that gives way only when what is blocked covers all of it.
MovableIfCovered(t, blocked) ==
    /\ tasks[t].state = "active"
    /\ blocked.start <= tasks[t].slot.start /\ tasks[t].slot.end <= blocked.end

\* A planned task gives way to what is blocked.
Movable(t, blocked) == tasks[t].state = "active" /\ Overlap(tasks[t].slot, blocked)

\* Each task in turn takes its first slot that the ones before it leave; who
\* finds none stays where it is.
SlotsLeft(t, blocked, others) ==
    {s \in Slots(t, blocked) : Clear(Span(s, s + Duration[t]), {m.to : m \in others})}

MakesWay(others, t, blocked) ==
    LET free == SlotsLeft(t, blocked, others)
    IN IF free = {} THEN others ELSE others \union {Move(t, Min(free))}

Moving(order, blocked) ==
    LET moved[n \in 0..Len(order)] ==
            IF n = 0 THEN {} ELSE MakesWay(moved[n - 1], order[n], blocked)
    IN moved

\* preview_local_replan
Preview(order, blocked) ==
    IF \A t \in ToSet(order) : Movable(t, blocked) THEN Moving(order, blocked)[Len(order)] ELSE {}

-----------------------------------------------------------------------------
(* apply_local_replan *)

\* Operation ids that nobody looks up.
KnownNever(op) == FALSE

\* A batch with this operation id is returned as it is.
Known(op) == \E b \in batches : b.op = op

\* "Task changed since preview", and validate_task_slots.
Unchanged(moves) == \A m \in moves : tasks[m.task].version = m.version

Room(moves) == SlotsAreFree({m.to : m \in moves}, {m.task : m \in moves})

Permitted(pol, moves) ==
    /\ pol.on
    /\ Cardinality(moves) <= MaxMoves
    /\ pol.allowed # {} => {m.task : m \in moves} \subseteq pol.allowed

Repair(op, moves) ==
    /\ tasks' = [t \in Task |->
                   IF \E m \in moves : m.task = t
                   THEN [tasks[t] EXCEPT !.version = @ + 1,
                                         !.slot = (CHOOSE m \in moves : m.task = t).to]
                   ELSE tasks[t]]
    /\ batches' = batches \union {[op |-> op, status |-> "applied", moves |-> moves]}

\* Moving a task whatever became of it since the preview.
ApplicableUnversioned(pol, op, moves) == ~Known(op) /\ Permitted(pol, moves) /\ Room(moves)

Applicable(pol, op, moves) ==
    /\ ~Known(op)
    /\ Permitted(pol, moves)
    /\ Unchanged(moves)
    /\ Room(moves)

-----------------------------------------------------------------------------
(* The dispatcher *)

BeginRun(w) ==
    /\ worker[w] = Resting
    /\ policy.on /\ policy.auto /\ policy.allowed # {}
    /\ LET found == {d \in Disruptions : d.task \in policy.allowed} IN
       /\ found # {}
       /\ worker' = [worker EXCEPT ![w] = [@ EXCEPT !.at = "next", !.queue = found,
                                                    !.policy = policy]]
    /\ UNCHANGED <<scheduleVars, policy, batches, crashes>>

\* Whether a run leaves a disruption alone.
Skipped(w, d) == d.task \in worker[w].moved \/ Cardinality(worker[w].moved) >= MaxMoves

\* The preview is of the one task; without a slot for it nothing is moved.
PreviewNext(w, d) ==
    /\ worker[w].at = "next" /\ d \in worker[w].queue
    /\ \E moves \in {IF Skipped(w, d) THEN {} ELSE Preview(<<d.task>>, d.blocked)} :
          worker' = [worker EXCEPT ![w] =
                       [@ EXCEPT !.queue = worker[w].queue \ {d},
                                 !.at = IF moves = {} THEN "next" ELSE "apply",
                                 !.preview = IF moves = {} THEN NoPreview
                                             ELSE [op |-> d, moves |-> moves]]]
    /\ UNCHANGED <<scheduleVars, policy, batches, crashes>>

\* A batch that exists counts as moved; a refusal is logged and skipped.
ApplyNext(w) ==
    LET p == worker[w].preview IN
    /\ worker[w].at = "apply"
    /\ IF Applicable(worker[w].policy, p.op, p.moves)
       THEN Repair(p.op, p.moves)
       ELSE UNCHANGED <<tasks, batches>>
    /\ worker' = [worker EXCEPT ![w] =
                    [@ EXCEPT !.at = "next", !.preview = NoPreview,
                              !.moved = IF \/ Known(p.op)
                                           \/ Applicable(worker[w].policy, p.op, p.moves)
                                        THEN worker[w].moved \union {m.task : m \in p.moves}
                                        ELSE worker[w].moved]]
    /\ UNCHANGED <<now, events, writes, policy, crashes>>

EndRun(w) ==
    /\ worker[w].at = "next" /\ worker[w].queue = {}
    /\ worker' = [worker EXCEPT ![w] = Resting]
    /\ UNCHANGED <<scheduleVars, policy, batches, crashes>>

\* A worker is killed: what it committed stays.
Crash(w) ==
    /\ worker[w] # Resting /\ crashes < MaxCrashes
    /\ crashes' = crashes + 1
    /\ worker' = [worker EXCEPT ![w] = Resting]
    /\ UNCHANGED <<scheduleVars, policy, batches>>

-----------------------------------------------------------------------------
(* Repairs that a client asks for, and the way back *)

\* LocalReplanApplyView and apply_local_replan of the agent's tools: all that
\* the preview moves is moved, or nothing.
BeginRequest(w, op, order, blocked) ==
    LET moves == Preview(order, blocked)
    IN /\ worker[w] = Resting
       /\ ~Known(op)
       /\ policy.on
       /\ moves # {}
       /\ worker' = [worker EXCEPT ![w] =
                       [@ EXCEPT !.at = "request", !.policy = policy,
                                 !.preview = [op |-> op, moves |-> moves]]]
       /\ UNCHANGED <<scheduleVars, policy, batches, crashes>>

ApplyRequest(w) ==
    LET p == worker[w].preview IN
    /\ worker[w].at = "request"
    /\ IF Applicable(worker[w].policy, p.op, p.moves)
       THEN Repair(p.op, p.moves)
       ELSE UNCHANGED <<tasks, batches>>
    /\ worker' = [worker EXCEPT ![w] = Resting]
    /\ UNCHANGED <<now, events, writes, policy, crashes>>

\* revert_batch that looks at the schedule only.
RevertibleBlind(b) ==
    SlotsAreFree({m.from : m \in b.moves}, {m.task : m \in b.moves})

\* revert_batch: the old intervals are free again and nobody has touched the
\* tasks since.
Revertible(b) ==
    /\ SlotsAreFree({m.from : m \in b.moves}, {m.task : m \in b.moves})
    /\ \A m \in b.moves : tasks[m.task].version = m.version + 1

Revert(b) ==
    /\ b \in batches /\ b.status = "applied"
    /\ Revertible(b)
    /\ tasks' = [t \in Task |->
                   IF \E m \in b.moves : m.task = t
                   THEN [tasks[t] EXCEPT !.version = @ + 1,
                                         !.slot = (CHOOSE m \in b.moves : m.task = t).from]
                   ELSE tasks[t]]
    /\ batches' = (batches \ {b}) \union {[b EXCEPT !.status = "reverted"]}
    /\ UNCHANGED <<now, events, writes, policy, worker, crashes>>

\* AutomationPolicyService.update
SetPolicy(new) ==
    /\ Write
    /\ new # policy
    /\ policy' = new
    /\ UNCHANGED <<now, tasks, events, batches, worker, crashes>>

-----------------------------------------------------------------------------
PolicyChoices == {[on |-> FALSE, auto |-> FALSE, allowed |-> Task],
                  [on |-> TRUE, auto |-> FALSE, allowed |-> {}],
                  [on |-> TRUE, auto |-> TRUE, allowed |-> Task]}

Dispatch(w) ==
    \/ BeginRun(w)
    \/ \E d \in worker[w].queue : PreviewNext(w, d)
    \/ ApplyNext(w)
    \/ EndRun(w)
    \/ ApplyRequest(w)

NextRepairs ==
    \/ \E w \in Worker : Dispatch(w) \/ Crash(w)
    \/ \E w \in Worker, op \in Request, ts \in (SUBSET Task) \ {{}}, at \in SpanChoices :
          \E order \in SetToSeqs(ts) : BeginRequest(w, op, order, at)
    \/ \E b \in batches : Revert(b)
    \/ \E new \in PolicyChoices : SetPolicy(new)
    \/ ChangeSchedule /\ UNCHANGED replanVars

SpecRepairs == InitRepairs /\ [][NextRepairs]_repairVars

\* Beat starts the dispatcher every few minutes.  A worker goes through a list
\* that only gets shorter, each step of which it can always take, or is
\* killed: it comes to rest.
FairSpecRepairs ==
    SpecRepairs /\ \A w \in Worker : WF_repairVars(BeginRun(w)) /\ []<>(worker[w] = Resting)

-----------------------------------------------------------------------------
(* Properties *)

NewBatches == batches' \ batches

\* A repair moves tasks to where nothing is, although it was previewed before
\* other writers committed: what it moved overlaps no event and no active task.
RepairsFit ==
    [][\A b \in NewBatches : b.status = "applied" =>
          \A m \in b.moves :
             /\ Clear(tasks'[m.task].slot, EventSpans)
             /\ \A t \in Task \ {m.task} :
                   tasks'[t].state = "active" =>
                       ~Overlap(tasks'[m.task].slot, tasks'[t].slot)]_repairVars

\* "Task changed since preview": a repair never overwrites what a user or
\* another dispatcher did to the task after the preview.
RepairsOverwriteNothing ==
    [][\A b \in NewBatches : b.status = "applied" =>
          \A m \in b.moves : tasks[m.task] = m.row]_repairVars

\* "revert restores the prior schedule": reverting puts back exactly what the
\* repair moved, unless somebody has changed it since.
RevertRestores ==
    [][\A b \in NewBatches : b.status = "reverted" =>
          \A m \in b.moves : /\ tasks[m.task] = [m.row EXCEPT !.slot = m.to,
                                                             !.version = @ + 1]
                             /\ tasks'[m.task].slot = m.from]_repairVars

\* "repeated operation IDs are idempotent": two dispatchers that find the same
\* disruption, and a client that repeats a request, move nothing twice.
OneBatchPerOperation == \A a, b \in batches : a.op = b.op => a = b

\* Moves that were previewed together are of different tasks and keep apart.
MovesAreApart(moves) ==
    \A m, n \in moves : m # n => m.task # n.task /\ ~Overlap(m.to, n.to)

\* What a move says of its task as it was, and where the task goes from there.
MoveOfRow(m) == m.version = m.row.version /\ m.from = m.row.slot

MovedRow(m) == [m.row EXCEPT !.slot = m.to, !.version = @ + 1]

\* A worker that applies has something to apply, and a task that has the version
\* a move was previewed on is as it was then.
PreviewFollows(v, rows) ==
    /\ v.at \in {"apply", "request"} <=> v.preview.moves # {}
    /\ MovesAreApart(v.preview.moves)
    /\ \A m \in v.preview.moves :
          /\ MoveOfRow(m) /\ m.version <= rows[m.task].version
          /\ m.version = rows[m.task].version => rows[m.task] = m.row

\* A task that has the version a repair gave it is as the repair left it.
BatchFollows(b, rows) ==
    /\ MovesAreApart(b.moves)
    /\ \A m \in b.moves :
          /\ MoveOfRow(m) /\ m.version < rows[m.task].version
          /\ m.version + 1 = rows[m.task].version /\ b.status = "applied"
                 => rows[m.task] = MovedRow(m)

\* Batches are what they say, and one to an operation.
RepairInv ==
    /\ TypeOKRepairs
    /\ OneBatchPerOperation
    /\ \A w \in Worker : PreviewFollows(worker[w], tasks)
    /\ \A b \in batches : BatchFollows(b, tasks)

\* A repair is made where it fits and on what it was made for.
RepairsAreSafe == RepairsFit /\ RepairsOverwriteNothing

\* Under a policy that asks for no approval, no task stays under an event while
\* there is room for it, whichever runs were cut short or overtaken.
Repairable ==
    /\ policy.on /\ policy.auto
    /\ \E d \in Disruptions : d.task \in policy.allowed /\ Slots(d.task, d.blocked) # {}

DisruptionsGetRepaired == []<>~Repairable
=============================================================================
