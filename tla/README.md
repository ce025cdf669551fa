# TimeAgent in TLA+

TimeAgent is a personal time-management assistant: a Django/DRF backend with
Celery workers, PostgreSQL, Redis and a LangGraph agent, a React front end and
its Android shell. This directory holds TLA+ models of the parts of it where
several processes share rows and messages, or where an algorithm decides what is
written to them, the TLC runs that check them on small instances, and TLAPS proofs of
what they guarantee for any instance.
`PROJECT.json` maps every definition to the lines it models.

Contents: [the system](#the-system) ·
[modules](#modules-and-how-they-correspond-to-the-code) ·
[what the code relies on](#assumptions-about-the-environment) ·
[runs](#runs) · [bounds](#bounds-and-why-they-are-enough) ·
[fairness](#fairness) · [proofs](#proofs) ·
[what the code does not promise](#what-the-code-does-not-promise) ·
[left out](#what-is-not-modelled)

## The system

Paths are relative to `src/backend/apps` unless they start with `src/`.

```
 browser ──REST──> Django views ──reserve+publish──> Celery worker: LangGraph run
    ^                   |   ^                            |   |         |
    └──SSE── _sse <─────┘   └── decisions ──┐            |   |         └ tools
              ^  rows + Redis stream        v            |   └ AgentEvent rows
              └───────────────────── ActionProposal <────┘      + Redis copy
 beat ─> stale-run sweep, proposal expiry, reminder dispatch, delivery dispatch,
         briefing schedule, calendar poll, insight scan, replans, memory refresh
 Reminder ──send──> NotificationDelivery ──send──> SMTP / Web Push
```

### Inventory

| Component | State it keeps | Operations | Interacts with | What is hard | What makes it correct |
|---|---|---|---|---|---|
| Agent runs (`conversations/{services,execution,tasks,views}.py`) | `AgentRun.status`, `execution_task_id`, `created_at`; `AgentEvent` | start, reserve, publish, release, claim, stream, park, complete, fail, stale sweep, cancel | views, briefing scheduler and proposals queue tasks; workers; beat | redelivery after a worker's death, publication outside the transaction, ends that race | one worker to a run; ends are final; nothing unfinished is forgotten |
| Approval (`action_proposals/`) | `ActionProposal.status`, `resumed_at`, `expires_at`, `version` | create from interrupt, list/get (which expire), decide, expire sweep, payload, mark resumed/executing/executed/failed | runs, graph threads, tool middleware | decisions race with each other, with expiry and with the run parking | no effect without an approval of its own, and once; decided runs resume |
| Outer graph (`agents/outer_graph.py`) | one checkpoint thread per conversation | stream, pending interrupts, resume | LangGraph checkpointer | two runs in one conversation | decisions reach the calls they were made for |
| Tool audit (`agents/middleware.py`) | `ToolCallAudit` | begin, wrap, complete, fail | every tool; proposals | atomicity of effect and record | record and effect agree |
| Event stream (`conversations/{views,event_stream}.py`, `src/frontend/src/features/agent-runs/sse-client.ts`) | event rows, Redis stream, cursors on three sides | append, publish, poll, read, reconnect | workers, views, browser | order differs between rows and Redis; loss; reconnection | no gap, no duplicate, the last word before closing |
| Notifications (`notifications/`) | `NotificationDelivery.status`, attempts, retry time | create, queue, cancel, dispatch, take, send, mark, retry | reminders, briefings, insights; SMTP, Web Push | several messages for a row, crash between send and record, one device of several refusing | one copy but for mishaps and devices that had theirs, bounded attempts, everything ends |
| Reminders (`reminders/`) | `Reminder.status`, `trigger_at`, offsets of a target | create, update, cancel, sync with target, dispatch, send | tasks, events, calendars; notifications | target moves while tasks are queued; partial failure | each occurrence once, on every channel, in time |
| Briefings (`briefings/`) | definitions, `BriefingRun`, sections | schedule, prepare, run, save, notify | runs, notifications | crash between the run and its task | one briefing a day, none lost |
| Planning (`planning/`) | `SchedulePlan`, change batches, automation policies | propose, edit, regenerate, validate, apply, undo, authorised replans | tasks, events, interactions, approval | plan and targets change independently | a stale plan changes nothing; all or nothing |
| Tasks, events (`tasks/`, `events/`) | rows with `version`, series, change log | create, update, complete, reopen, cancel, reschedule, detect conflicts | reminders, planning, memory | edits by user, agent and sync at once | versions never skip; planned intervals do not collide |
| External calendars (`integrations/`) | connection, cursor, tombstones, OAuth state | connect, poll, reset, upsert, cancel | events | poll races edits; a token used twice | no event lost or doubled by a resync |
| Interactions (`interactions/`) | artifacts and submissions | ensure, submit, replay, resolve | planning, memory | a repeated or stale answer | a submission key stands for one decision |
| Time memory (`time_memory/`) | refresh state, proposals, semantic memories | mark dirty, rebuild, propose, decide, undo | tasks, events, runs | a change during a rebuild; a lost task | what is dirty is rebuilt |
| Insights (`insights/`) | `TemporalInsight` | scan, act, materialise | notifications | scans race with answers | notified once, cancelled with its delivery |
| Accounts and guests (`accounts/`) | users, guest expiry, tokens | register, start guest, clean up, quota | every creation | quota checked by concurrent requests | quotas hold |
| Preferences, weather, today, observability, health, app updates, front-end pages, deployment | settings, caches, metrics | read, write one row | – | nothing interleaves, or I/O only | – |
| `src/backend/common/database_locks.py` | advisory lock per user | lock for the transaction | reminders, tasks, events, planning | lock order | writers of one schedule are serial |

Modelled are agent runs with approval, the outer graph and the tool audit around them,
the event stream, notifications, reminders, the planner with plans and local repairs on a
schedule of tasks and events, the cards of a plan, the profile and the semantic memory, and
the synchronisation with Google. That is most of the concurrency, the crash handling and the
message passing of the program. `PROJECT.json` lists all components with their
status, and under `hazards` every place found where the code is hard to test.

## Modules and how they correspond to the code

| Module | Models | Uses |
|---|---|---|
| `RunLifecycle` | what the rest may rely on about a run (abstract) | |
| `AgentRuns` | rows, reservations, messages and workers of runs | refines `RunLifecycle` |
| `ApprovalFlow`, `MCApprovalFlow` | proposals, threads and tools on top of runs | extends and refines `AgentRuns` |
| `EventStream` | rows, Redis copy, SSE generator and browser of one run | |
| `Notifications` | deliveries | |
| `Reminders` | reminders of a target and of users | |
| `Planner` | the planning algorithms, as operators | |
| `Schedule` | tasks, events and who changes them | extends `Planner` |
| `Planning`, `MCPlanning` | the life of a plan | extends `Schedule` |
| `Replanning`, `MCReplanning` | local repairs, dispatcher, policy, reverts | extends `Schedule` |
| `PlanInteractions` | cards of a plan, their submissions and three locks | |
| `ProfileRefresh` | dirty marks, rebuilds and requests on the profile | |
| `SemanticMemory` | proposals to remember, rows and projection | |
| `CalendarSync` | the mirror of a Google calendar | |
| `*_proofs` | theorems about the module they are named after; `ApprovalFlow_proofs` also those of `AgentRuns`, `Delivery_proofs` those of `Notifications` and `Reminders`, `Schedule_proofs` those of `Planner`, `Schedule`, `Planning` and `Replanning` | TLAPS |

### AgentRuns and RunLifecycle

A run is a row (`status`, `taskId` = `execution_task_id`, `overdue` = older than
`AGENT_RUN_STALE_MINUTES`, `announced` = the terminal events it has written). A
Celery message is a task id: `job` says what it asks for, `pc` how far the delivery
has come, `caller` what the publishing process still does. The actions follow the
transactions of the code: a view reserves the id in one (`ReserveExecution`,
`ReserveResume`) and publishes in a later step (`Publish`, `PublishRaises`,
`Release`, `CallerCrash`). A worker claims (`Claim`, `Discard`), loads preferences
outside the `try` (`SetupRaises`), takes decisions, streams, looks at cancellation,
persists an interrupt, and parks, completes or fails the run; an exception inside
the `try` is `Raise` followed by `Fail`. `ListStale` and `FailStale` are apart
because `fail_stale_runs` reads the ids first and fails them one transaction at a
time.

`RunLifecycle` is the abstract specification: a status and at most one executor for each
run, no messages, reservations or faults. It also states what the code leaves open, that a
run given up as failed can still be parked or completed by a worker that was only slow.
The refinement mapping (`ImplementsLifecycle`) keeps `status` and takes for the executor
the task whose worker is at work on the run.

### ApprovalFlow

EXTENDS AgentRuns: each action is an AgentRuns action together with what it does to
proposals, graph threads and tools, or an action of its own that leaves runs alone.
`proposal` is the status by run, interrupt and position of the call; `deciding` and
`sawReady` are an open `decide()` transaction, which sees under READ COMMITTED its
own write and other transactions' commits only; `queueing` is a request between its
commit and `_queue_resume`; `sweep` and `sweepTask` are the loop of
`expire_due_action_proposals`. `thread` is the pending interrupt of a checkpoint
thread, `taken`, `todo` and `active` the decisions and calls of one delivery, and
`effects` counts commits of a call's tool. A tool that raises is rolled back; one whose error was
turned into a message returns it inside `wrap_tool_call`'s transaction, so that what it had done
before commits with the failed row (`ToolFails` lets either happen). LangGraph and LangChain's
human-in-the-loop middleware are modelled from their use: interrupt ids are never
reused, a fresh input discards a pending interrupt, decisions go by position, and a
wrong number of them is an error.

AgentRuns is its abstract specification: `ImplementsAgentRuns` (the formula `Spec` of
AgentRuns) is checked as a PROPERTY and proved. The refinement mapping is the identity on
the variables both have.

### EventStream

One run, its event rows (`log`), the Redis copy in the order Redis got it (`stream`,
of which the first `trimmed` entries are gone), the SSE generator (`conn`, `cursor`,
`position` = `redis_id`, `seen` = the status it read) and the browser (`got`,
`terminal`, `attempts`). Two facts of the code are kept as steps of their own because
properties depend on them: `_sse_poll` reads the run first and its events afterwards
(`PollRun`, `PollEvents`), and the Redis write follows the commit (`Publish`,
`PublishFails`). Event types are reduced to what the stream tells apart: progress,
a request for approval, an end.

### Notifications

The row, the messages in the queue (`messages`, `delayed`), the worker between its
transactions (`sender`), and the workers that have recorded a failure and have still to call
`retry_delivery` (`requeueing`). `copies` counts what a provider accepted for good, `partial`
those of them that went to some of the devices of a Web Push delivery (`WebPush`) before another
device refused: `WebPushNotificationProvider.send` then fails the delivery as a whole, and
the retry sends to all of its devices. `DispatchDue` is the whole of `queue_due_deliveries`:
recover stale rows, queue what is due, publish every queued row again after the commit. Fewer
rows than a batch are due, so `batch_size` does not appear; `skip_locked` skips rows whose next
transaction is before or after the dispatcher's all the same. `backoff` marks that the countdown of
the last failure has not run out. It is counted from before the call to the provider, and may run out
(`CountdownOver`) before the worker has queued the row: the dispatcher then takes the row up
under that worker, which the model counts as a mishap.

### Reminders

A clock, one target with its `start`, its reminders (one for each member of `Offset`)
and the reminders users make themselves (`Custom`). `Reschedule` is `_sync` or
`_cancel` as tasks, events and calendar polls call it, after every edit. A send task
counts its retries; a delivery row is the four things its deduplication key and its
`scheduled_at` are made of. The advisory lock of a user makes each of these
transactions one step.

### Planner, Schedule and Planning

`Planner` has the algorithms as operators: `MergeIntervals`, `WindowSlots` and `FreeSlots`
(the search for free slots), `Rounds` (the order of tasks under dependencies), `TaskItems`
with `Choose` and `SplitItems` (where one task goes), `BuildPlanItems` (a plan). Each loop of
the code is a recursive function from the number of iterations to what the loop has then
made (`Merging`, `Scanning`, `Rounds`, `Segments`, `Placing`), and sorting is `InOrder`, the
element that has k - 1 others before it. Time is counted in units from a midnight.

`Schedule` has the rows of a user's active tasks and events and the writers other than
plans: rescheduling checks what is free, completing and reopening do not, an event created
by hand must not meet other events, and one that a calendar brings is looked at by nobody.

`Planning` has the plan rows, with what a client was last shown (`seen`), the task rows a
plan was computed from (`basis`, a history variable) and the proposals that are being made
(`proposing`). With an `operation_id`, `propose_schedule_plan` holds the user's lock and is one step,
`Propose`. Without one, as the agent's tool and `compare_schedule_plans` call it, it locks
nothing, and every query of it sees what is committed by then: the clock and the task rows
(`BeginProposal`), for each task in turn the events and the planned intervals (`ReadEvents`,
`PlaceNext`), and the insertion (`FinishProposal`). `Regenerate` recomputes chosen tasks and keeps the
others; `Edit` moves or locks an item and is accepted when the whole plan is still `Valid`;
`Invalidate` is what `validate_schedule_plan` and `apply_schedule_plan` commit of a plan that no
longer fits; `ApplyToTasks` and `ApplyAsEvents` are the two strategies. Users, calendars and time
change the schedule in between.

Simplified: `find_free_slots` asks for events and intervals once for each window of a task, the
model once for each task; the clock and the task rows are read in one step;
`compare_schedule_plans` is two such proposals one after the other; several edits in one call and
pure reorderings are left out; what another plan did to the schedule is a user's write to this
one; changes of the zone's offset and calibrated durations are left out; preferences are constants.

### Replanning

The two transactions of a repair are `PreviewNext`/`BeginRequest` and `ApplyNext`/
`ApplyRequest`; a dispatcher (`BeginRun` to `EndRun`) keeps the disruptions and the policy as it
read them at its start, as the code does. An operation id is the disruption (task, version,
event, blocked part), as `_disruption_operation_id` makes it, or a client's. `Repair` writes the
batch with the versions and old intervals `Revert` goes by.

### PlanInteractions

One plan, its cards, and requests that take three kinds of locks: the user's advisory lock, the
plan's row and rows of cards. Each acquisition is a step of its own and a transaction's writes
appear at its commit, because the orders differ: `submit` locks advisory, card, plan and other
cards, `abandon` the plan and its cards without the advisory lock, `ensure` reads the plan
without a lock and locks the latest card. `DeadlockVictim` is PostgreSQL's detector.

A submission carries an idempotency key, a card and the version the client saw, and a client may
send again what it has sent under the key at any time. `submit` looks for the key before it takes
any lock (`BeginSubmit`, which remembers what it `found`), answers from the record if there was
one (`SubmitReplay`) and otherwise meets the unique constraint when it writes (`SubmitCommit`,
`SubmitKeyTaken`). `submission` has the recorded decisions by key, `told` what the answers under a
key have said (history). Only the two card types that belong to plans are modelled; the memory
suggestion of a submission is not.

### ProfileRefresh

`status` of the refresh row, the holder of its lock (`row`), messages, the profile in the
LangGraph store, which commits on its own, and per worker what it has read. `Mark` is
`_mark_dirty_and_enqueue`: it waits for a rebuild that holds the row. `Begin` to `Finish` is one
rebuild. Requests of the user's clients (`request`, one for each `Client`) write the store before
and outside of the row (`BeginClear`, `EndClear`, `BeginExclude` to `CommitExcluded`), and they wait
for each other only where two insert the same exclusion. `calm` is a history variable: it turns false when something fails, or when a request
overlaps a rebuild or another request, for then the code promises nothing until the next
refresh.

### SemanticMemory

Rows and proposals in the order of creation. `Create`, `Decide` and `Undo` are one transaction
each. A tool may pass a target it read earlier: that is a proposal made at the reading. The
expiry of proposals is never set by the code and left out. Concurrent creations for a key meet at the
unique constraint. `undo_proposal` locks the proposal with two rows it joins by nullable keys; the
constant `OuterJoinsLock` says whether the database runs such a query. SQLite does, as it has no row
locks (`src/backend/config/settings/test.py`, `evaluation_local.py`); PostgreSQL refuses it, and there `Undo` never
happens. `Read` and `StoreProjection` are a rebuild of the projection, in two steps; a rebuild that has
been overtaken by another one is `late`, one that raises or runs out of time has its message
acknowledged all the same (`Fail`), and one whose worker dies is delivered again (`Crash`). `behind` is
a history variable: nothing on its way would bring the projection up to date.

### CalendarSync

Google's events with a stamp for each change, its change tokens (`clock`, `oldest`), the local
rows with who wrote them last, the connection (`cursor`, `enabled`, `status`, lock `row`) and the
credential. `Start` and `Refresh` are the access token, fetched before the row is locked; `Fetch`
locks the row and asks for a page since the cursor; `Apply` commits events, cursor and status. A
reset page (HTTP 410) cancels those rows it does not list whose local times lie in the window
that was asked for (`Missing`, the field `place` of a row). `Edit` is what the user may do to a row:
change or move it, cancel it, or set a cancelled one back to confirmed, with the version as the only
test; the row then keeps the cursor of that moment as its `stamp`. The one-time use of an OAuth state
is part of `BeginConnect`.

## Assumptions about the environment

- PostgreSQL runs at READ COMMITTED; no `ATOMIC_REQUESTS`. A transaction with
  `select_for_update` on the row it changes is one action; where the code reads without
  a lock and writes later, or reads twice, the steps are apart.
- Celery acks a message when it is taken, except the agent tasks and the projection of the
  semantic memory (`acks_late`, `reject_on_worker_lost`), which a dead worker gives back. The
  broker may lose its answer: `apply_async` may raise although the message was accepted.
- uuid4 task ids and LangGraph interrupt ids are never used twice.
- Time limits: a worker of a run stops after 195 s, proposals live a day, so a proposal
  is not due before the run that made it has been parked or has ended (guard of `Due`).
- Fewer deliveries are due at a time than `queue_due_deliveries` takes in a batch.
- Google's change tokens list each event that changed since, or are refused.

## Runs

Twelve runs, all of which pass.

| Run | Module | Checks | Shows |
|---|---|---|---|
| `runs` | AgentRuns | `Inv`, `SingleExecutor`, `EndedRunsStayEnded`, `ImplementsLifecycle`, `WorkGoesOn` | two workers never hold one run and its ends stay, through redelivery, double publication, release, cancellation and the stale sweep; no pending or running row is forgotten; the abstract life of a run is refined |
| `flow_safety` | MCApprovalFlow | `InvFlow`, `NoEffectWithoutApproval`, `EffectsHappenOnce`, `ImplementsAgentRuns` | with one run to a conversation, two interrupts, two crashes and a lost request, effects, also those of tools that fail half done, happen under approvals only and once; the composition refines AgentRuns |
| `flow_liveness` | MCApprovalFlow | `ProposalsFollowLifecycle`, `AskedRunResumes` | two proposals decided by concurrent requests, due and swept meanwhile, follow the documented lifecycle, and a resumption that somebody has set out to queue takes place |
| `stream` | EventStream | `StreamInv`, `NoGapNoDuplicate`, `EventsArrive` | Redis is an accelerator only: lost, late, reordered and trimmed entries and reconnections neither lose nor repeat an event, nor delay it for ever |
| `notifications` | Notifications | `DeliveryInv`, `NothingAfterCancel`, `DeliveriesSettle` | duplicate messages are harmless; the price of a crash, or of a countdown that runs out too early, is one more copy at most, and a device has another copy only if one of its siblings refused |
| `reminders` | Reminders | `ReminderInv`, `NothingAfterTheEnd`, `DueReminderIsTaken` | whatever edits, retries and crashes come between, an occurrence is handed over once on each channel or not at all, and no due row stays pending |
| `planning` | MCPlanning | `PlanInv`, `AppliedAsSeen`, `AppliedPlanFits`, `ProposalsAreRight` | free slots are exactly the room there is at its start, no draft loses a task or leaves one half placed, the builder and the validator agree, also on what was proposed without the lock as long as what it read still stands, what is applied is what was shown, on tasks nobody has changed, and adds no conflict |
| `interactions` | PlanInteractions | `CardInv`, `OneDecisionToAKey`, `EveryRequestEnds` | a card changes only the version of the plan that is on it, all answers under a key are of the one decision it stands for, whoever sends it again and when, and requests that lock in opposite orders all end |
| `replanning` | MCReplanning | `RepairInv`, `RepairsAreSafe`, `RevertRestores`, `DisruptionsGetRepaired` | repairs previewed before and applied after other commits fit, overwrite nothing, happen once for a disruption and can be taken back; what can be repaired is |
| `profile` | ProfileRefresh | `ProfileInv`, `ProfileGetsRight`, `TurnedOffIsForgotten` | a clean profile is the profile of the facts, without what was forgotten or excluded, as long as requests overlap neither rebuilds nor each other; it gets right again after any failure or overlap |
| `calendar` | CalendarSync | `CalendarInv`, `OldReadsAreRefused`, `CalendarCatchesUp` | the cursor passes no change that is neither applied nor overwritten by the user since; old pages, old connections and old rows are refused; the calendar catches up |
| `semantic` | SemanticMemory | `MemoryInv`, `DecisionsAreExact`, `ProjectionFollows` | one active row to a key and approvals of what was shown, whatever is decided and undone in between; the projection follows, after a failure with the next rebuild |

Deadlock is not checked: a model stops when its runs are over and its budgets are
spent, as the system rests when nothing is left to do. That nothing stops too early is
what the liveness properties say.

For each property of a run `PROJECT.json` names a mutant, an operator beside the
definition it replaces that changes it the way a slip in that function would (a dropped
status test, a filter with `=` for `<=`, a cursor that moves back, an id compared too
loosely); TLC finds the property violated with it.

### Bounds, and why they are enough

- `runs`: one run, three task ids, two deaths, one broker failure. Runs do not touch each
  other's rows, tasks or workers: only `fail_stale_runs` handles several, one by one. Three
  ids give an execution and two resumptions, or three competing reservations; a death
  leaves the same message again, so more deaths only repeat.
- `flow_safety`: two interrupts (a redelivered run asks again, or a resumed run asks for
  more), one call each, two deaths, one lost request or sweep. `flow_liveness`: one
  interrupt with two calls, the least at which two decisions can compete, and no faults,
  after which the code promises nothing.
- `stream`: three events are enough for a pause, a resumption and an end, and for a gap
  between an event the browser has and one Redis has; one break and one reconnection. The
  page may begin to follow at any moment, so a reload, or a return after a decision, is a
  connection whose cursor is behind the rows, as after a break.
- `notifications`: two deliveries that share dispatcher and publisher, one by mail and one to
  several devices, one retry, one mishap (a crash, a lost answer, a publication that fails or a
  countdown that runs out under its worker). One message in the queue stands for any number
  not taken for long, as `messages` only tells whether there is one more; the dispatcher's and the
  retry's meet because the second waits in `delayed`.
- `reminders`: four instants, a lateness of one, one offset, one custom reminder, two
  channels (one for a partial failure to reach and one for it to miss), one retry, one
  crash. A batch of one makes due reminders wait for a second tick.
- `planning`: two days of six units with four hours of work, two tasks, one that splits and one
  with a deadline and a buffer, one plan, three choices of demands (a dependency, a dependency
  with a gap and a preference, an exact time), three intervals that users and calendars pick, of
  which two overlap, two such changes, two versions of a draft; the changes fall between any two queries of
  a proposal. The daily limit equals the hours of work.
  One plan is enough, for plans meet only in the schedule.
- `replanning`: the same days, two tasks with an interval each, two events to disrupt them, two
  workers of which one may die, one client request, a batch of up to two moves.
- `interactions`: two requests, the least that lock against each other, two cards, both kinds,
  two keys and two versions of the plan before it ends, which are enough for a card to go on and
  for the request that made it do so to be sent again, under its key or under another.
- `profile`: two places (one to lose and one to keep), two workers, two clients, four acts of the
  user, two mishaps: a lost message and a death are needed to be behind twice. `calendar`: two
  events, two workers, two more changes at Google after the first stamp, two acts of the user (to move
  an event and to cancel or revive it), one mishap. `semantic`: one key, two values, three proposals (create, replace, and a third that
  is decided or undone in between), two workers for the projection, one mishap, and a database that
  undoes (`OuterJoinsLock`), which allows all that happens on one that does not.

Every bound is a CONSTANT in a guard (`MaxCrashes`, `MaxBrokerFailures`, `MaxLosses`,
`MaxEvents`, `MaxBreaks`, `MaxFollows`, `MaxMishaps`, `MaxMessages`, `MaxTime`, `MaxWrites`,
`MaxVersion`, `MaxArtifacts`, `MaxRemote`, `MaxPolls`, `MaxProposals`, `Instants`).
`MaxReconnects`, `MaxRetries`, `MaxTries`, `MaxLateness`, `MaxMoves`, `Horizon`, `PlanTTL` and
`Batch` are settings of the program with smaller values. Symmetry is used for `flow_safety`
only, on sets whose members are only compared with each other; runs with liveness
properties use none.

### Fairness

On what a process does once it has begun or a beat schedule repeats: workers consume and a
claimed task goes on to its end (time limits see to that), a process that reserved an id goes
on to publish or release it, beat ticks, time passes, the SSE generator goes on and the browser
reads. Nothing is assumed of users, of crashes, of the broker, of providers' answers or of
Redis. In `FairSpecFlow` a request that opened a decision ends it, by commit or rollback. In
AgentRuns fairness is for the disjunction of a worker's steps: which of them comes next is the
model's and the user's choice.

Weak fairness, but for steps that wait for a lock others take again and again: PostgreSQL
queues the waiters of a row, so that who waits gets it, which is strong fairness for `Continue` in
PlanInteractions, for a worker's `Work` in CalendarSync and for the steps of ProfileRefresh that take the row. In Replanning a
worker is only assumed to come to rest again and again (its list gets shorter with each step it
can always take, or it is killed), and beat to start a run when it rests.

## Proofs

Theorems hold for any sets of runs, tasks, deliveries, interrupts, places, keys, requests, cards,
calendar events and workers and any bounds, from the named assumption on the constants alone: that
null values are no members of the sets they stand beside, that bounds are numbers, that there is
a kind of card, and for the schedule, that durations, buffers, hours and settings are of their
types (a duration is positive, as the tables demand), that no interval ends before it starts, that
there are finitely many tasks and that the sort keys of the planner tell tasks apart, which they
do because they end with the id.

| Theorem | States | Of |
|---|---|---|
| `Invariance`, `MutualExclusion`, `FinalOutcomes`, `Refinement` | `Inv`, `SingleExecutor`, `EndedRunsStayEnded`, `ImplementsLifecycle` | AgentRuns |
| `FlowImplementsRuns`, `FlowIsSound`, `EffectsAreRecorded`, `ApprovalIsNeeded`, `LifecycleIsKept` | `ImplementsAgentRuns`, `InvFlow`, `EffectsHappenOnce`, `NoEffectWithoutApproval`, `ProposalsFollowLifecycle` | ApprovalFlow |
| `OneCopy`, `CancelledStaysSilent` | `DeliveryInv`, `NothingAfterCancel` | Notifications |
| `EachOccurrenceOnce`, `EndedStaysSilent` | `ReminderInv`, `NothingAfterTheEnd` | Reminders |
| `StreamIsSound`, `EventsInOrder` | `StreamInv`, `NoGapNoDuplicate` | EventStream |
| `PlansStayRight`, `ProposalsStayRight`, `AppliesWhatWasSeen`, `AppliedPlansFit` | `PlanInv`, `ProposalsAreRight`, `AppliedAsSeen`, `AppliedPlanFits` | Planning |
| `BatchesAreKept`, `RepairsStaySafe`, `RevertsAreExact` | `RepairInv`, `RepairsAreSafe`, `RevertRestores` | Replanning |
| `OneMemoryToAKey`, `DecisionsStayExact` | `MemoryInv`, `DecisionsAreExact` | SemanticMemory |
| `ProfileIsKept` | `ProfileInv` | ProfileRefresh |
| `CalendarIsMirrored`, `OldReadsStayRefused` | `CalendarInv`, `OldReadsAreRefused` | CalendarSync |
| `CardsAreSound`, `KeysDecideOnce` | `CardInv`, `OneDecisionToAKey` | PlanInteractions |

So every safety property of the runs, invariants and action properties, is a theorem.
`CyclesAreFound` is one about the planner alone: `_ordered_tasks` refuses exactly the decisions
in which some tasks wait for each other.

**ApprovalFlow_proofs, the part on runs.** `Invariance` (`Inv`), `MutualExclusion` (`SingleExecutor`),
`FinalOutcomes` (`EndedRunsStayEnded`), `Refinement` (`ImplementsLifecycle`). `SingleExecutor`
is not inductive: it says nothing of the row, and a claim is decided by the row. `Inv` adds what
ties the two together: `Sent` (a published or claimed id has a job), `WorkersHoldTheirRow` (the
row of a worker at work is running, failed or cancelled, and reserved for that worker's task or
nobody) and `OneWorkerPerRun`. A claim needs the row pending, waiting for approval, or running
and reserved for the claiming task; the first two contradict `WorkersHoldTheirRow` of any other
worker, and so does the third, as the other worker's reservation would be its own; a worker that
parks the row, after which it can be claimed again, leaves it in the same step and was alone.
That a completed run stays completed rests on the same invariant, because `wait_for_approval`
does not test for it: it is safe only because there is no second worker. The refinement goes
action by action: a claim is `Enter`, a worker's last step `Leave`, the sweep and a failed
publication `GiveUp`, the rest a stutter.

**ApprovalFlow_proofs, the part on the flow.** `FlowImplementsRuns` (`ImplementsAgentRuns`): each action of the
composition is one of AgentRuns or leaves its variables alone, so the theorems above hold of it.
`FlowIsSound` (`InvFlow`), `EffectsAreRecorded` (`EffectsHappenOnce`), `ApprovalIsNeeded`
(`NoEffectWithoutApproval`) and `LifecycleIsKept` (`ProposalsFollowLifecycle`) hold under
`OneRunPerConversation`, a condition on the constant `ConversationOf`: two runs of a
conversation share their pending interrupt, and there the first two are false (see below). The
invariant follows a row from its interrupt to its tool. Rows exist only for interrupts of their
own run (`RowsAreRaised`, `InterruptsHaveOneRun`, `NewInterruptsHaveNoRows`); a parked run's rows
are exactly the calls of its pending interrupt (`ParkedRunsAreAsked`), so that decisions that fit
that interrupt by number fit it by position (`DecisionsFitInterrupt`); the decisions a worker has
taken, and the calls it has still to make, are those of approved rows (`DecisionsAreHeld`,
`CallsAreApproved`), which stay what they are because the worker is the run's only one. A call is begun on an approved row
and ends as executed or failed, with all or part of its work, in the transaction that says so; a row
once settled starts no call again, so no work is done twice.

**Delivery_proofs.** `OneCopy` (`DeliveryInv`), `CancelledStaysSilent`
(`NothingAfterCancel`). The counts of copies and attempts are not inductive by themselves; the
invariant says that the row of a sender is sending (`SendersHoldTheirRow`), and that every row that
can still be taken has had no copy but by mishap or by some of its devices, and has an attempt to spare
for itself and for each worker that is still to queue it (`OthersHaveASpare`), so that taking a row
keeps both limits. That there is at most one such worker but for mishaps (`LateRequeuesAreMishaps`)
is what the countdown is for: a row that is retried while a worker has not yet queued it costs one.
For reminders, `EachOccurrenceOnce` (`ReminderInv`) and `EndedStaysSilent` (`NothingAfterTheEnd`).
`ReminderInv` is inductive as it stands: deliveries are only ever added, all channels or some of an
occurrence that has none yet (the key finds it otherwise, `Conflict`), by a sender that looks at the
lateness in the same transaction, and a row that is sent keeps its instant for ever.

**EventStream_proofs.** `StreamIsSound` (`StreamInv`), `EventsInOrder` (`NoGapNoDuplicate`). The
argument is that the generator's cursor is the number of events the browser has plus those on the
wire (`WireFollowsBrowser`), that only committed events are said in their order (`OnlyCommitted`,
`Said`), and that a stream is closed only after the last word.

**SemanticMemory_proofs.** `OneMemoryToAKey` (`MemoryInv`), `DecisionsStayExact`
(`DecisionsAreExact`), for either kind of database. Rows keep their key and value for ever, so the
target of a proposal goes on naming what it was made for; that an undo leaves one active row follows
from its own tests, that the row it made is active and the one it replaced is superseded. That an
approval finds the row it was shown rests on `Conflicted`, which compares the row and its version,
and on there being one active row to compare with.

**ProfileRefresh_proofs.** `ProfileIsKept` (`ProfileInv`). The strengthening says what a rebuild
(`RebuildsAreCurrent`) and a request (`RequestsAreCurrent`) have read is still so: everyone who
could change it waits for the row, or ends the calm, as a request does that begins while a
rebuild or another request is under way (`OneAtATime`).

**CalendarSync_proofs.** `CalendarIsMirrored` (`CalendarInv`), `OldReadsStayRefused`
(`OldReadsAreRefused`). That nothing before the cursor is missed has to be carried through the page
that is on its way: `PagesAreGood` says that a page, once applied, would bring the calendar as far
as the page's token. It holds when the page is fetched, because it starts at the cursor, which
nobody moves while the connection is held, and stays true because Google's later changes have newer
stamps (`StampsAreInOrder`). A user may edit, move or revive a row while the page is on its way, so
`PagesAreGood` has to say more than what the page makes of the rows there are: that the page
accounts for the event whatever the row becomes (`Accounts`), by listing it live or deleted as it is at
Google, or because its change is older than the cursor, so that a row written since is the user's own
(`MadeSince`), or forgotten. `VersionsTell` says
that a row that still has the version an edit was made on is the row that was seen, from which it
follows that no edit overwrites what the user has not seen.

**PlanInteractions_proofs.** `CardsAreSound` (`CardInv`), `KeysDecideOnce`
(`OneDecisionToAKey`). What a request has tested stays true because of the locks it holds:
`LocksFollowRequests` says which these are, `SubmissionsFollowCards` and `PlanIsAsTested` what was
tested under them. So an edit, which compares the version of its card only, changes the version of
the plan that was on the card, although ensure and the expiry of cards write without the plan's
lock. `CardsAreOfThePlan` and `LatestArePending` carry what ensure relies on: the version it read
without a lock is not newer than the plan, and a pending card is the last of its kind, so that the
one it replaces is the only one. For keys, a request answers from what it found before it took its
locks, which is right because records are never changed (`FoundIsRecorded`) and a key has one
(`KeysAreDecided`). That two keys never decide on one version of a card is a matter of the card: a
decision other than a rejection takes it to another version or out of pending, and the next request
looks at both under the card's lock.

**Schedule_proofs.** The proofs go in layers.

*Recursion.* The library's induction theorems take an operator as a parameter and cannot be
used. A set of numbers can be: `LeastNumber` says that a set of naturals that is not empty has a
least member (from the well-foundedness of `<`), and the least counterexample gives
`BoundedInduction`. `RecursionExists` shows that a step on a set S defines a function on `0..N`,
and `RecursionStays`, that its values stay in S. Each loop of the planner is an instance: its
invariant is the set S. `InOrderSorts` shows that `InOrder` is a bijection that ascends.

*The planner.* Merged busy intervals ascend and cover what the given ones cover. The cursor of
`_append_window_slots` has passed every busy interval before it and all room before it is in
its slots, so that `find_free_slots` offers free places within the working hours
(`FreeSlotsAreRoom`), and its first place is the first there is (`SlotsAreRoom`): a start
that is free is not earlier than the end of what the cursor passed last, and the gap it lies in
has a slot at its beginning. An item that is placed keeps feasibility (`PlacedIsFeasible`), so
do the segments of a task (`SegmentsAreSound`), the items of one task (`TaskItemsAreSound`), a
plan built on retained items (`BuiltPlansAreSound`), and fewer items (`SubsetIsSound`), which
is why a regeneration may retain any of them.

*Builder and validator.* A new plan is built on nothing and everything in it was decided by the
builder: each item lies in the window of its task's decision, split only if it may be
(`AsDecided`, `TaskItemsAreSound` and `FitsAsDecided`), and starts after the predecessors that
had been placed by then. That the validator, which looks at the finished plan, still finds them
before it needs more: the order names no task twice (`Distinct`), so that placing another
task moves no end of this one (`AnotherTask`). `KeepsDecisions` puts the three together for one
step of `BuildSegments`, `BuiltPlansAreDecided` for the recursion. `DraftIsValid` is the rest of
`Valid`: versions, because the draft carries those of the basis it was computed from, and the
schedule, because what the validator calls busy is what the builder did, but for the plan's own
tasks that it leaves where they are: that is where `SparesItsOwn` is needed. A proposal made
without the lock is built by the same steps, from other busy intervals each time (`PlaceNextKeeps`,
`MadeInSteps`): it is right in itself (`MadeIsRight`), and its items keep clear of what every query
has met (`known`), which is why it is valid as long as nothing else has come (`MadeIsValid`).
`ProposalsStayRight` (`ProposalsAreRight`) follows, as plans start in these two ways only
(`WhoProposes`).

*Whole tasks.* What the builder makes of one task is all of it or one unplaced item
(`AllOrNothing`, a part of `FitsAsDecided`), and the items of a task are not touched again
(`BuiltPlansAreWhole`), so nothing is missing once every task has its turn. That is where cycles
matter. A `Knot` is a set of tasks each of which waits for another of them: no round takes
anything from it (`RoundSteps`), so decisions that pass the test have none
(`AcyclicIsKnotless`), and without one each round takes at least one task, so none is
left (`NoneIsLeft`, `OrderedAreAll`). Part of a set without knots has none either, and an edit
leaves predecessors alone: a regeneration of any of the tasks can never get stuck.

*The rows.* `PlanInv` is inductive together with the soundness of items and the lack of knots
(`PlansHold`): a plan is a typed row, its items are `Sound`, it `IsWhole`, `ViewFollows` and
`BasisFollows`. Comparing versions is enough
because every writer advances them (`Advance`): equal versions are equal rows. From it
`AppliesWhatWasSeen` (`AppliedAsSeen`), and with `WhoApplies`, which says that only the two
actions apply a plan and only when it is `Valid`, `AppliedPlansFit` (`AppliedPlanFits`). For
repairs, `RepairInv` is inductive as it stands (`BatchesAreKept`); `RepairsStaySafe`
(`RepairsAreSafe`) follows from the tests `apply` repeats under the lock, and
`RevertsAreExact` (`RevertRestores`) from the old intervals and versions the batch keeps.

Only model-checked: the liveness properties (`WorkGoesOn`, `AskedRunResumes`, `EventsArrive`,
`DeliveriesSettle`, `DueReminderIsTaken`, `EveryRequestEnds`, `DisruptionsGetRepaired`,
`ProfileGetsRight`, `TurnedOffIsForgotten`, `CalendarCatchesUp`, `ProjectionFollows`), because
fairness and ENABLED are out of the prover's reach.

## What the code does not promise

Each of these is stated in its module as a property that TLC violates with the constants
of the module's configuration, or those given here. No run is spent on them.

- **A resumed run may be failed under its worker** (`ResumedRunIsLeftToItsWorker`,
  `FinishedIsFinal`, `WaitingEndsByDecision` in AgentRuns). The stale sweep goes by `created_at`: a
  run approved more than ten minutes after it was created is stale the moment its resumption
  is claimed. Its worker goes on all the same, and may complete or park the run that has been
  announced as failed. The sweep also fails a run it listed while it ran and that waits for
  approval by then.
- **A proposal that expires by being read strands its run** (`ReadyRunResumes` in ApprovalFlow,
  `Reads = TRUE`). `list`, `get` and `decide` expire what is due, and the sweep resumes only runs of rows it
  expired itself. With `Reads = FALSE` and `Verdict = {"approved"}`: a decision that comes
  after the proposals were committed and before `wait_for_approval` finds the run running and
  queues nothing.
- **Two decisions at once resume nothing** (`SettlingDecisionResumes` in ApprovalFlow, two
  positions). Each transaction asks `resume_ready` while the other's decision is not committed.
- **Runs of one conversation share their interrupts** (`NoEffectWithoutApproval` in ApprovalFlow
  with two runs in one conversation). A second message while the first run waits discards or
  replaces its pending interrupt; proposals are recorded for whichever run looks, and the
  decisions of one are applied to the calls of the other.
- **After a reload a broken response may pass for the end of the run**
  (`BrokenResponseIsResumed` in EventStream): the replayed `approval.required` of an earlier
  pause counts as a terminal event.
- **Backoff is bypassed** (`BackoffIsRespected` in Notifications). `retry_delivery` queues the row
  at once, and each dispatcher tick publishes all queued rows.
- **A reminder whose message is lost stays queued** (`DueReminderSettles` in Reminders). No tick
  reads queued rows, as the delivery dispatcher does. Further: a queued reminder that is moved to
  a later time is handed over at once (`NeverEarly`); an offset that fired for the old time is
  not armed for the new one (`TargetKeepsItsReminders`); an edit cancels a reminder that is due
  and not yet dispatched (`EditKeepsDueReminders`); an attempt that failed after its first delivery
  makes every retry fail on the deduplication key (`RetryCanSucceed`, two channels).

Other limits are conditions inside the checked properties or the models, where they can be read:

- A call that fails may have done part of its work. `mutate_events` takes one operation after the
  other (`agents/tools/event_tools.py:257-362`, whose docstring says "Atomically"); when a later one
  is refused, `recoverable_tool_error` makes a message of the error, the middleware returns it inside
  its transaction (`agents/middleware.py:1156-1166`), and the earlier ones commit under a failed
  row. What remains is in `EffectsHappenOnce`: nothing is done twice or without a row.
- Memories are never undone on PostgreSQL. `undo_proposal` asks for `select_for_update` on a query
  that joins two nullable keys (`time_memory/semantic_services.py:290-294`) without `of=("self",)`,
  which PostgreSQL refuses; the settings the tests use by default are on SQLite, which ignores the
  clause (`src/backend/tests/test_semantic_memory.py:180`).
- Web Push may come twice. `OneCopyButForMishaps` allows for it with `partial`: when one device of
  several refuses for a moment, the retry sends to all of them again.
- A proposal made without an `operation_id` may be invalid when it is inserted (`StillStands` in
  `ProposalsAreRight`): it is made from what different queries saw. The code expects it and records
  the verdict of the validator with it (`_attach_creation_validation`); `apply` checks again under
  the lock.
- `ProposalsAreRight` asks that no item of the plan is in the place of one of its own tasks that
  it leaves where it is (`SparesItsOwn`): the builder
  regards the places of all its tasks as free, the validator only those of the ones it moves, so a
  draft may be refused as soon as it is checked. With linked events the tasks keep their old
  intervals, which nothing spares (`AppliedPlanFits`). `Regenerate` does not look at the decisions
  of retained items, and may place a predecessor behind its successor.
- A dispatcher goes on with the policy it read at its start: turning automation off does not
  stop a run under way.
- A profile is promised while `calm`. Clearing or excluding during a rebuild may be undone by
  it; of two exclusions, or an exclusion and a clearing, that overlap, the one that writes the profile
  last brings back what the other removed, with no rebuild and no failure; and `mark_failed`, in a
  transaction of its own, may overwrite a newer mark. The daily refresh repairs all of these, but not
  for a user who has turned generation off.
- A deletion that Google has forgotten by the time a calendar is connected again stays unknown
  (`NothingMissedBeforeCursor`), and so does one of an event the user has moved out of the window of
  the full fetch (`integrations/calendar/sync_services.py:384-385`); an event that Google deleted and
  the user sets back to confirmed stays (`MadeSince`); an event cancelled by the user comes back with a full fetch; a
  sync overwrites a user's edit without looking at versions.
- A refused message, a rebuild that raises or runs out of time, or one that is overtaken leave the
  projection of the semantic memory `behind` until the next decision's rebuild.

## What is not modelled

Inside the modelled components: the texts and review contexts of proposals, editing and
re-reading targets at decision time, expected versions and change logs; conversations and
their titles; notification preferences and push subscriptions; what the agent says or which tools
it picks (any choice is possible); payloads of events; series and recurring events; the statistics of
the profile's analyzer and the extraction of memories by a language model; interaction cards without
a plan. LangGraph, Celery, Redis, the broker, Google and the providers appear as the code
uses them. The front end is modelled where it takes part in a protocol (the event stream
client). The answer a decision view gives (`resume_queued`) is not part of the model, nor is
the asynchronous path of the tool middleware, which no worker takes.

Left out with their reasons:

- **Insights.** Rows unique by key, refreshed by one scan and answered by one user; their deliveries
  live as in Notifications. `materialize_notifications` reads insights without a lock, so a
  delivery may follow a dismissal; the daily limit is decided per scan; a snoozed insight is never
  reopened.
- **Briefings.** A unique row for each day and one run as in AgentRuns. A briefing whose task
  could not be published is never tried again, because the next tick finds the row and goes on
  (`if not created: continue`).
- **Guests and accounts.** Quotas are counted under the lock of the guest row in the
  transaction that creates; the clean-up is repeated until nothing is left, but a worker still at
  work may write to the store after it.
- **Preferences, today, weather, news, health, metrics, app updates.** One row, a cache or a read-only
  view: nothing interleaves.
- **Prompts, model calls, tool selection, the display of proposals, evaluation commands and benchmarks.**
  Text and statistics on data no property tells apart. The evaluation commands, the display code and the pages of
  the front end are most of the lines that no definition maps.
- **Deployment.** Configuration; what it fixes is under the assumptions.
