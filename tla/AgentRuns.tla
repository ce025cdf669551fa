------------------------------ MODULE AgentRuns ------------------------------
(***************************************************************************)
(* AgentRun rows and the Celery jobs that execute them.                    *)
(*                                                                         *)
(* A run is one row of conversations.AgentRun.  An HTTP view (or a beat    *)
(* task) reserves a Celery task id on the row in one transaction and       *)
(* publishes the message in a second, unprotected step; a worker claims    *)
(* the row, streams the graph, and ends by completing, failing or parking  *)
(* the run for approval.  The two agent tasks are acked late               *)
(* (acks_late, reject_on_worker_lost), so a job whose worker dies is       *)
(* either delivered again or, when the hard time limit killed it, gone.    *)
(* Beat fails rows created too long ago; the user may cancel at any time.  *)
(*                                                                         *)
(* What the agent proposes and what the user decides is left open here:    *)
(* ApprovalFlow composes this module with the proposals.                   *)
(***************************************************************************)
EXTENDS Naturals, FiniteSets

CONSTANTS
    Run,                \* AgentRun rows, by operation_id
    Task,               \* Celery task ids (uuid4, never used twice)
    NoTask,             \* execution_task_id = ""
    NoJob,              \* a task id nobody has reserved yet
    MaxCrashes,         \* bound: processes that die
    MaxBrokerFailures   \* bound: apply_async calls that raise

ASSUME ConstantsAssumption ==
    /\ NoTask \notin Task
    /\ NoJob \notin [kind : {"execute", "resume"}, run : Run]
    /\ MaxCrashes \in Nat
    /\ MaxBrokerFailures \in Nat

VARIABLES
    (* the database rows *)
    status,             \* AgentRun.status
    taskId,             \* AgentRun.execution_task_id
    overdue,            \* created_at is older than AGENT_RUN_STALE_MINUTES
    announced,          \* terminal AgentEvents appended so far
    (* processes *)
    job,                \* what the message with this task id asks for
    pc,                 \* how far the delivery of that message has come
    caller,             \* the process publishing it
    listed,             \* run ids fail_stale_runs has read and not yet failed
    (* budgets *)
    crashes,
    brokerFailures

rowVars == <<status, taskId, overdue, announced>>
jobVars == <<job, pc, caller>>
budgetVars == <<crashes, brokerFailures>>
runVars == <<status, taskId, overdue, announced, job, pc, caller, listed,
             crashes, brokerFailures>>

-----------------------------------------------------------------------------
Status == {"absent", "pending", "running", "waiting_approval",
           "completed", "failed", "cancelled"}
Finished == {"completed", "failed", "cancelled"}
Outcome == {"message.completed", "run.failed", "run.cancelled"}
Job == [kind : {"execute", "resume"}, run : Run]

\* The steps of execute_agent_run / resume_agent_run a worker can be at.
Live == {"claimed", "decided", "streaming", "ended", "persisted",
         "finishing", "failing"}
PC == {"unsent", "queued", "done"} \union Live
Caller == {"none", "publishing", "releasing"}

Fresh(t) == job[t] = NoJob
Of(t, r) == job[t] # NoJob /\ job[t].run = r
Executing(t, r) == pc[t] \in Live /\ Of(t, r)

TypeOK ==
    /\ status \in [Run -> Status]
    /\ taskId \in [Run -> Task \union {NoTask}]
    /\ overdue \in [Run -> BOOLEAN]
    /\ announced \in [Run -> SUBSET Outcome]
    /\ job \in [Task -> Job \union {NoJob}]
    /\ pc \in [Task -> PC]
    /\ caller \in [Task -> Caller]
    /\ listed \in SUBSET Run
    /\ crashes \in 0..MaxCrashes
    /\ brokerFailures \in 0..MaxBrokerFailures

Init ==
    /\ status = [r \in Run |-> "absent"]
    /\ taskId = [r \in Run |-> NoTask]
    /\ overdue = [r \in Run |-> FALSE]
    /\ announced = [r \in Run |-> {}]
    /\ job = [t \in Task |-> NoJob]
    /\ pc = [t \in Task |-> "unsent"]
    /\ caller = [t \in Task |-> "none"]
    /\ listed = {}
    /\ crashes = 0
    /\ brokerFailures = 0

-----------------------------------------------------------------------------
(* Publishing: the row is reserved in one transaction, the message sent    *)
(* in a later step.                                                        *)

\* AgentRunService.start: get_or_create by operation_id.
Start(r) ==
    /\ status[r] = "absent"
    /\ status' = [status EXCEPT ![r] = "pending"]
    /\ UNCHANGED <<taskId, overdue, announced, jobVars, listed, budgetVars>>

Reserve(r, t, kind) ==
    /\ Fresh(t)
    /\ taskId' = [taskId EXCEPT ![r] = t]
    /\ job' = [job EXCEPT ![t] = [kind |-> kind, run |-> r]]
    /\ caller' = [caller EXCEPT ![t] = "publishing"]
    /\ UNCHANGED <<status, overdue, announced, pc, listed, budgetVars>>

\* reserve_execution_task, called with a fresh uuid4 by the chat and
\* briefing views and by the briefing scheduler.
ReserveExecution(r, t) ==
    /\ status[r] = "pending"
    /\ taskId[r] = NoTask
    /\ Reserve(r, t, "execute")

\* reserve_resume_task, called with a fresh uuid4 by the decision view and
\* by the expiry sweep.
ReserveResume(r, t) ==
    /\ status[r] = "waiting_approval"
    /\ taskId[r] = NoTask
    /\ Reserve(r, t, "resume")

Publish(t) ==
    /\ caller[t] = "publishing"
    /\ pc' = [pc EXCEPT ![t] = "queued"]
    /\ caller' = [caller EXCEPT ![t] = "none"]
    /\ UNCHANGED <<rowVars, job, listed, budgetVars>>

\* apply_async raises.  The broker may have accepted the message all the
\* same (the connection timed out after the write).
PublishRaises(t) ==
    /\ caller[t] = "publishing"
    /\ brokerFailures < MaxBrokerFailures
    /\ brokerFailures' = brokerFailures + 1
    /\ \E p \in {"unsent", "queued"} : pc' = [pc EXCEPT ![t] = p]
    /\ caller' = [caller EXCEPT ![t] = "releasing"]
    /\ UNCHANGED <<rowVars, job, listed, crashes>>

\* release_execution_task / release_resume_task.
Releasable(t) ==
    LET r == job[t].run IN
    /\ taskId[r] = t
    /\ status[r] = IF job[t].kind = "execute" THEN "pending"
                                              ELSE "waiting_approval"

Release(t) ==
    /\ caller[t] = "releasing"
    /\ taskId' = IF Releasable(t) THEN [taskId EXCEPT ![job[t].run] = NoTask]
                                  ELSE taskId
    /\ caller' = [caller EXCEPT ![t] = "none"]
    /\ UNCHANGED <<status, overdue, announced, job, pc, listed, budgetVars>>

\* The web or beat process dies between the reservation and the publication.
CallerCrash(t) ==
    /\ caller[t] # "none"
    /\ crashes < MaxCrashes
    /\ crashes' = crashes + 1
    /\ caller' = [caller EXCEPT ![t] = "none"]
    /\ UNCHANGED <<rowVars, job, pc, listed, brokerFailures>>

-----------------------------------------------------------------------------
(* Workers *)

Goto(t, from, to) ==
    /\ pc[t] \in from
    /\ pc' = [pc EXCEPT ![t] = to]

\* claim_for_execution accepting any redelivery of a running row.
ClaimableAnyTask(t) ==
    LET r == job[t].run IN
    IF job[t].kind = "execute"
    THEN \/ status[r] = "pending" /\ taskId[r] \in {NoTask, t}
         \/ status[r] = "running"
    ELSE status[r] = "waiting_approval" /\ taskId[r] = t

\* claim_for_execution (a redelivered message may enter its own running
\* row again) and claim_for_resume (it may not).
Claimable(t) ==
    LET r == job[t].run IN
    IF job[t].kind = "execute"
    THEN \/ status[r] = "pending" /\ taskId[r] \in {NoTask, t}
         \/ status[r] = "running" /\ taskId[r] = t
    ELSE status[r] = "waiting_approval" /\ taskId[r] = t

Claim(t) ==
    /\ Goto(t, {"queued"}, "claimed")
    /\ Claimable(t)
    /\ status' = [status EXCEPT ![job[t].run] = "running"]
    /\ UNCHANGED <<taskId, overdue, announced, job, caller, listed, budgetVars>>

\* The claim fails, or the run was already finished: the message is acked.
Discard(t) ==
    /\ Goto(t, {"queued"}, "done")
    /\ ~Claimable(t)
    /\ UNCHANGED <<rowVars, job, caller, listed, budgetVars>>

\* Preferences and context are loaded before the try block: an exception
\* there ends the task and nobody fails the run.
SetupRaises(t) ==
    /\ Goto(t, {"claimed"}, "done")
    /\ UNCHANGED <<rowVars, job, caller, listed, budgetVars>>

\* resume_payload and mark_resumed, before the graph is entered.
TakeDecisions(t) ==
    /\ job[t] # NoJob /\ job[t].kind = "resume"
    /\ Goto(t, {"claimed"}, "decided")
    /\ UNCHANGED <<rowVars, job, caller, listed, budgetVars>>

\* runtime.stream / runtime.stream_resume starts to produce items.
BeginStream(t) ==
    /\ job[t] # NoJob
    /\ Goto(t, {IF job[t].kind = "execute" THEN "claimed" ELSE "decided"},
            "streaming")
    /\ UNCHANGED <<rowVars, job, caller, listed, budgetVars>>

\* _consume_stream asks is_cancelled at every item.
SeeCancelled(t) ==
    /\ Goto(t, {"streaming"}, "done")
    /\ status[job[t].run] = "cancelled"
    /\ UNCHANGED <<rowVars, job, caller, listed, budgetVars>>

EndStream(t) ==
    /\ Goto(t, {"streaming"}, "ended")
    /\ UNCHANGED <<rowVars, job, caller, listed, budgetVars>>

\* _persist_interrupt finds a pending interrupt and records its proposals.
PersistInterrupt(t) ==
    /\ Goto(t, {"ended"}, "persisted")
    /\ UNCHANGED <<rowVars, job, caller, listed, budgetVars>>

NoInterrupt(t) ==
    /\ Goto(t, {"ended"}, "finishing")
    /\ UNCHANGED <<rowVars, job, caller, listed, budgetVars>>

\* wait_for_approval that refuses nothing.
WaitForApprovalAnyway(t) ==
    LET r == job[t].run IN
    /\ Goto(t, {"persisted"}, "done")
    /\ status' = [status EXCEPT ![r] = "waiting_approval"]
    /\ taskId' = [taskId EXCEPT ![r] = NoTask]
    /\ UNCHANGED <<overdue, announced, job, caller, listed, budgetVars>>

\* wait_for_approval refuses a cancelled run only.
WaitForApproval(t) ==
    LET r == job[t].run IN
    /\ Goto(t, {"persisted"}, "done")
    /\ IF status[r] = "cancelled"
       THEN UNCHANGED <<status, taskId>>
       ELSE /\ status' = [status EXCEPT ![r] = "waiting_approval"]
            /\ taskId' = [taskId EXCEPT ![r] = NoTask]
    /\ UNCHANGED <<overdue, announced, job, caller, listed, budgetVars>>

\* complete without its test for a cancelled run.
CompleteUnconditionally(t) ==
    LET r == job[t].run IN
    /\ Goto(t, {"finishing"}, "done")
    /\ status' = [status EXCEPT ![r] = "completed"]
    /\ announced' = [announced EXCEPT ![r] = @ \union {"message.completed"}]
    /\ UNCHANGED <<taskId, overdue, job, caller, listed, budgetVars>>

\* complete refuses a cancelled run only.
Complete(t) ==
    LET r == job[t].run IN
    /\ Goto(t, {"finishing"}, "done")
    /\ IF status[r] = "cancelled"
       THEN UNCHANGED <<status, announced>>
       ELSE /\ status' = [status EXCEPT ![r] = "completed"]
            /\ announced' = [announced EXCEPT ![r] = @ \union {"message.completed"}]
    /\ UNCHANGED <<taskId, overdue, job, caller, listed, budgetVars>>

\* AgentRunService.fail, whoever calls it.
FailRow(r) ==
    IF status[r] \in Finished
    THEN UNCHANGED <<status, announced>>
    ELSE /\ status' = [status EXCEPT ![r] = "failed"]
         /\ announced' = [announced EXCEPT ![r] = @ \union {"run.failed"}]

\* An exception inside the try block: model or tool error, step or time
\* limit, database error.
Raise(t) ==
    /\ Goto(t, Live \ {"failing"}, "failing")
    /\ UNCHANGED <<rowVars, job, caller, listed, budgetVars>>

Fail(t) ==
    /\ Goto(t, {"failing"}, "done")
    /\ FailRow(job[t].run)
    /\ UNCHANGED <<taskId, overdue, job, caller, listed, budgetVars>>

\* The worker process dies: Celery queues the message again, or acks it when
\* the hard time limit did the killing.
WorkerCrash(t) ==
    /\ crashes < MaxCrashes
    /\ crashes' = crashes + 1
    /\ \E p \in {"queued", "done"} : Goto(t, Live, p)
    /\ UNCHANGED <<rowVars, job, caller, listed, brokerFailures>>

-----------------------------------------------------------------------------
(* Cancellation, time, and the recovery of stale runs *)

Cancel(r) ==
    /\ status[r] \notin Finished \union {"absent"}
    /\ status' = [status EXCEPT ![r] = "cancelled"]
    /\ announced' = [announced EXCEPT ![r] = @ \union {"run.cancelled"}]
    /\ UNCHANGED <<taskId, overdue, jobVars, listed, budgetVars>>

\* AGENT_RUN_STALE_MINUTES pass since created_at.
Age(r) ==
    /\ status[r] # "absent"
    /\ ~overdue[r]
    /\ overdue' = [overdue EXCEPT ![r] = TRUE]
    /\ UNCHANGED <<status, taskId, announced, jobVars, listed, budgetVars>>

\* fail_stale_runs listing pending runs only.
StalePending == {r \in Run : overdue[r] /\ status[r] = "pending"}

Stale == {r \in Run : overdue[r] /\ status[r] \in {"pending", "running"}}

\* fail_stale_runs reads the ids of the stale runs outside any transaction ...
ListStale ==
    /\ listed = {}
    /\ Stale # {}
    /\ listed' = Stale
    /\ UNCHANGED <<rowVars, jobVars, budgetVars>>

\* ... and then fails them one by one, without looking at the filter again.
FailStale(r) ==
    /\ r \in listed
    /\ listed' = listed \ {r}
    /\ FailRow(r)
    /\ UNCHANGED <<taskId, overdue, jobVars, budgetVars>>

-----------------------------------------------------------------------------
PublishStep(t) == Publish(t) \/ PublishRaises(t) \/ Release(t) \/ CallerCrash(t)

WorkerStep(t) ==
    \/ Claim(t) \/ Discard(t) \/ TakeDecisions(t) \/ BeginStream(t)
    \/ SeeCancelled(t) \/ EndStream(t) \/ PersistInterrupt(t) \/ NoInterrupt(t)
    \/ WaitForApproval(t) \/ Complete(t) \/ Fail(t)

Fault(t) == SetupRaises(t) \/ Raise(t) \/ WorkerCrash(t)

RowStep(r) == Start(r) \/ Cancel(r) \/ Age(r) \/ FailStale(r)

Next ==
    \/ \E r \in Run : RowStep(r)
    \/ \E r \in Run, t \in Task : ReserveExecution(r, t) \/ ReserveResume(r, t)
    \/ \E t \in Task : PublishStep(t) \/ WorkerStep(t) \/ Fault(t)
    \/ ListStale

\* Celery workers keep consuming and a claimed task runs to its end, beat
\* keeps ticking, a process that reserved a task goes on to publish it.
\* Nothing is assumed of users, of crashes or of the broker.
Fairness ==
    /\ \A t \in Task : WF_runVars(WorkerStep(t))
    /\ \A t \in Task : WF_runVars(Publish(t) \/ PublishRaises(t) \/ Release(t))
    /\ \A r \in Run : WF_runVars(Age(r)) /\ WF_runVars(FailStale(r))
    /\ WF_runVars(ListStale)

Spec == Init /\ [][Next]_runVars
FairSpec == Spec /\ Fairness

-----------------------------------------------------------------------------
(* Properties *)

Sent == \A t \in Task : pc[t] # "unsent" \/ caller[t] # "none" => job[t] \in Job

PublishedOnce == \A t \in Task : caller[t] = "publishing" => pc[t] = "unsent"

WorkersHoldTheirRow ==
    \A t \in Task : pc[t] \in Live =>
        /\ status[job[t].run] \in {"running", "failed", "cancelled"}
        /\ taskId[job[t].run] \in {t, NoTask}

OneWorkerPerRun ==
    \A t1, t2 \in Task :
        pc[t1] \in Live /\ pc[t2] \in Live /\ job[t1].run = job[t2].run => t1 = t2

\* Whoever is at work on a run has its row: it is past pending and waiting, not
\* completed, and reserved for that worker's task or for nobody; and what the
\* stale sweep goes by are rows that exist.
Inv ==
    /\ TypeOK
    /\ Sent
    /\ PublishedOnce
    /\ WorkersHoldTheirRow
    /\ OneWorkerPerRun
    /\ \A r \in listed : status[r] # "absent"

\* At no time do two workers execute the same run, whatever is delivered
\* again, published twice or released (claim_for_execution, claim_for_resume).
SingleExecutor ==
    \A r \in Run : \A t1, t2 \in Task :
        Executing(t1, r) /\ Executing(t2, r) => t1 = t2

\* A cancelled run stays cancelled and announces no other outcome, although
\* its worker goes on until it looks (cancel against complete, fail,
\* wait_for_approval and the stale sweep).
CancelledIsFinal ==
    [][\A r \in Run : status[r] = "cancelled" =>
          status'[r] = "cancelled" /\ announced'[r] = announced[r]]_runVars

\* A completed run stays completed: wait_for_approval does not test for it,
\* so this rests on there being no second executor.
CompletedIsFinal ==
    [][\A r \in Run : status[r] = "completed" => status'[r] = "completed"]_runVars

\* Neither outcome is ever taken back, by whatever is delivered late or again.
EndedRunsStayEnded == CancelledIsFinal /\ CompletedIsFinal

\* Seen from outside, with the task at work as the executor of its run, all
\* this is a RunLifecycle: messages that come twice, released reservations and
\* dead workers add nothing to what can happen to a run.
Executor == [r \in Run |-> IF \E t \in Task : Executing(t, r)
                           THEN CHOOSE t \in Task : Executing(t, r) ELSE NoTask]
Outside == INSTANCE RunLifecycle WITH Worker <- Task, Nobody <- NoTask,
                                      executor <- Executor
ImplementsLifecycle == Outside!Spec

\* Every pending or running run leaves that state, even when its worker or
\* its publisher died: recover_stale_runs picks it up.
UnfinishedWorkEnds ==
    \A r \in Run :
        status[r] \in {"pending", "running"} ~> status[r] \notin {"pending", "running"}

\* A resume task that holds the reservation and is queued gets the run out of
\* waiting_approval (reserve_resume_task lets no other task steal it).
QueuedResumeIsTaken ==
    \A r \in Run, t \in Task :
        /\ status[r] = "waiting_approval" /\ taskId[r] = t
        /\ pc[t] = "queued" /\ caller[t] = "none"
        ~> status[r] # "waiting_approval"

\* No run is left where it is by a process that died: what is to execute ends,
\* what is to resume resumes.
WorkGoesOn == UnfinishedWorkEnds /\ QueuedResumeIsTaken

\* A finished run stays as it finished: the statuses completed, failed and
\* cancelled end the event stream (views.TERMINAL_RUN_STATUSES), and the
\* stale sweep is to end a run for good.
FinishedIsFinal ==
    [][\A r \in Run : status[r] \in Finished => status'[r] = status[r]]_runVars

\* A run waiting for approval goes on only by being resumed or cancelled.
WaitingEndsByDecision ==
    [][\A r \in Run : status[r] = "waiting_approval" =>
          status'[r] \in {"waiting_approval", "running", "cancelled"}]_runVars

\* Recovering stale runs is for runs whose worker is gone: a resumption that
\* is under way is failed by nobody but its own worker.
ResumedRunIsLeftToItsWorker ==
    [][\A r \in Run, t \in Task :
          /\ Executing(t, r) /\ job[t].kind = "resume"
          /\ status[r] = "running" /\ status'[r] = "failed"
          => pc[t] = "failing"]_runVars
=============================================================================
