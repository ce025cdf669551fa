---------------------------- MODULE ApprovalFlow ----------------------------
(***************************************************************************)
(* Human approval around an agent run.                                     *)
(*                                                                         *)
(* A stream of the graph may end in an interrupt that asks for approval of *)
(* a few tool calls.  The worker records one ActionProposal row per call   *)
(* and parks the run; web requests decide the rows one at a time; whoever  *)
(* settles the last one queues a resume task, which hands all decisions to *)
(* the graph, and the graph executes the approved calls.  Rows expire a    *)
(* day later: a beat task sweeps them and resumes their runs, but reading  *)
(* or deciding a row that is due expires it as well.                       *)
(*                                                                         *)
(* The run rows and tasks are those of AgentRuns: every action here is one *)
(* of its actions with its effect on proposals, graph threads and tools,   *)
(* or an action of its own that leaves the runs alone.                     *)
(***************************************************************************)
EXTENDS AgentRuns

CONSTANTS
    Interrupt,          \* LangGraph interrupt ids, never used twice
    NoInterruptYet,     \* a thread with nothing pending
    Position,           \* the tool calls one interrupt asks about
    Conversation,
    ConversationOf,     \* AgentRun.conversation, also the graph's thread_id
    Verdict,            \* what users decide here
    Reads,              \* whether anyone lists, opens or decides a due row
    MaxLosses           \* bound: requests and sweeps that die half way

ASSUME FlowAssumption ==
    /\ NoInterruptYet \notin Interrupt
    /\ IsFiniteSet(Position) /\ Position # {}
    /\ ConversationOf \in [Run -> Conversation]
    /\ Verdict \subseteq {"approved", "rejected"}
    /\ Reads \in BOOLEAN
    /\ MaxLosses \in Nat

VARIABLES
    (* the database rows *)
    proposal,           \* ActionProposal.status, by run and tool call
    resumed,            \* rows with resumed_at set
    due,                \* runs and interrupts whose expires_at has passed
    (* web requests and the expiry sweep *)
    deciding,           \* decision written by an open decide() transaction
    sawReady,           \* what resume_ready returned inside it
    queueing,           \* committed decisions about to call _queue_resume
    sweep,              \* what the expiry sweep still has to do, by run
    sweepTask,          \* the resume task the sweep is publishing
    losses,
    (* the graph *)
    thread,             \* the pending interrupt of each checkpoint thread
    raised,             \* interrupts raised so far
    taken,              \* rows a resume task read with resume_payload
    todo,               \* calls the graph will execute for this delivery
    active,             \* calls inside ToolAuditMiddleware
    effects             \* how often a handler's work has committed, whole or part

requestVars == <<deciding, sawReady, queueing>>
sweepVars == <<sweep, sweepTask>>
proposalVars == <<proposal, resumed, due, requestVars, sweepVars, losses>>
localVars == <<taken, todo, active>>
graphVars == <<thread, raised, localVars, effects>>
flowVars == <<proposalVars, graphVars>>
vars == <<runVars, flowVars>>

-----------------------------------------------------------------------------
ProposalStatus == {"none", "awaiting_approval", "approved", "rejected",
                   "executing", "executed", "failed", "expired"}
Call == Interrupt \X Position
Slot == Run \X Interrupt \X Position

SlotOf(r, c) == <<r, c[1], c[2]>>
Thread(t) == ConversationOf[job[t].run]

Unresumed(r) == {p \in Slot : p[1] = r /\ proposal[p] # "none" /\ p \notin resumed}
Undecided(r) == {p \in Unresumed(r) : proposal[p] = "awaiting_approval"}
IsDue(p) == <<p[1], p[2]>> \in due

\* resume_ready counting an expired row as one still to decide.
ReadyUnlessExpired(r) ==
    /\ Unresumed(r) # {}
    /\ \A p \in Unresumed(r) : proposal[p] \notin {"awaiting_approval", "expired"}

\* resume_ready, on committed rows.
Ready(r) == Unresumed(r) # {} /\ Undecided(r) = {}

TypeOKFlow ==
    /\ TypeOK
    /\ proposal \in [Slot -> ProposalStatus]
    /\ resumed \subseteq Slot
    /\ due \subseteq Run \X Interrupt
    /\ deciding \in [Slot -> {"none", "approved", "rejected"}]
    /\ sawReady \subseteq Slot
    /\ queueing \subseteq Slot
    /\ sweep \in [Run -> {"no", "expired", "ready"}]
    /\ sweepTask \in Task \union {NoTask}
    /\ losses \in 0..MaxLosses
    /\ thread \in [Conversation -> Interrupt \union {NoInterruptYet}]
    /\ raised \subseteq Interrupt
    /\ taken \in [Task -> SUBSET Slot]
    /\ todo \in [Task -> SUBSET Call]
    /\ active \in [Task -> SUBSET Call]
    /\ effects \in [Call -> Nat]

InitFlow ==
    /\ Init
    /\ proposal = [p \in Slot |-> "none"]
    /\ resumed = {}
    /\ due = {}
    /\ deciding = [p \in Slot |-> "none"]
    /\ sawReady = {}
    /\ queueing = {}
    /\ sweep = [r \in Run |-> "no"]
    /\ sweepTask = NoTask
    /\ losses = 0
    /\ thread = [c \in Conversation |-> NoInterruptYet]
    /\ raised = {}
    /\ taken = [t \in Task |-> {}]
    /\ todo = [t \in Task |-> {}]
    /\ active = [t \in Task |-> {}]
    /\ effects = [c \in Call |-> 0]

-----------------------------------------------------------------------------
(* Deciding.  decide() locks the row, writes the decision and asks         *)
(* resume_ready inside its transaction: READ COMMITTED shows it its own    *)
(* decision and the rows other transactions have committed, no more.       *)

DecideOpen(p, v) ==
    /\ proposal[p] = "awaiting_approval" /\ deciding[p] = "none" /\ ~IsDue(p)
    /\ v \in Verdict
    /\ deciding' = [deciding EXCEPT ![p] = v]
    /\ sawReady' = IF Undecided(p[1]) = {p} THEN sawReady \union {p} ELSE sawReady
    /\ UNCHANGED <<runVars, proposal, resumed, due, queueing, sweepVars,
                   losses, graphVars>>

DecideCommit(p) ==
    /\ deciding[p] # "none"
    /\ proposal' = [proposal EXCEPT ![p] = deciding[p]]
    /\ queueing' = IF p \in sawReady THEN queueing \union {p} ELSE queueing
    /\ deciding' = [deciding EXCEPT ![p] = "none"]
    /\ sawReady' = sawReady \ {p}
    /\ UNCHANGED <<runVars, resumed, due, sweepVars, losses, graphVars>>

\* The transaction fails or its process dies before the commit.
DecideRollback(p) ==
    /\ deciding[p] # "none"
    /\ deciding' = [deciding EXCEPT ![p] = "none"]
    /\ sawReady' = sawReady \ {p}
    /\ UNCHANGED <<runVars, proposal, resumed, due, queueing, sweepVars,
                   losses, graphVars>>

\* The client repeats a decision with the same idempotency key.
Replay(p) ==
    /\ proposal[p] \notin {"none", "awaiting_approval", "expired"}
    /\ Ready(p[1])
    /\ queueing' = queueing \union {p}
    /\ UNCHANGED <<runVars, proposal, resumed, due, deciding, sawReady,
                   sweepVars, losses, graphVars>>

\* _queue_resume without the test that the run is waiting and unreserved.
QueueResumeUnchecked(p, t) ==
    /\ p \in queueing
    /\ Reserve(p[1], t, "resume")
    /\ queueing' = queueing \ {p}
    /\ UNCHANGED <<proposal, resumed, due, deciding, sawReady, sweepVars,
                   losses, graphVars>>

\* _queue_resume: reserve_resume_task with a fresh task id, then apply_async
\* (the publication is AgentRuns' caller).
QueueResume(p, t) ==
    /\ p \in queueing
    /\ ReserveResume(p[1], t)
    /\ queueing' = queueing \ {p}
    /\ UNCHANGED <<proposal, resumed, due, deciding, sawReady, sweepVars,
                   losses, graphVars>>

QueueRefused(p) ==
    /\ p \in queueing
    /\ status[p[1]] # "waiting_approval" \/ taskId[p[1]] # NoTask
    /\ queueing' = queueing \ {p}
    /\ UNCHANGED <<runVars, proposal, resumed, due, deciding, sawReady,
                   sweepVars, losses, graphVars>>

\* The web process dies after the commit.
RequestLost(p) ==
    /\ p \in queueing
    /\ losses < MaxLosses
    /\ losses' = losses + 1
    /\ queueing' = queueing \ {p}
    /\ UNCHANGED <<runVars, proposal, resumed, due, deciding, sawReady,
                   sweepVars, graphVars>>

-----------------------------------------------------------------------------
(* Expiry *)

\* The day of ACTION_PROPOSAL_TTL_SECONDS is over.  It is longer than any
\* worker takes from recording the proposals to parking the run.
Due(r, i) ==
    /\ <<r, i>> \notin due
    /\ \E n \in Position : proposal[<<r, i, n>>] = "awaiting_approval"
    /\ ~\E t \in Task : Executing(t, r) /\ pc[t] = "persisted"
    /\ due' = due \union {<<r, i>>}
    /\ UNCHANGED <<runVars, proposal, resumed, requestVars, sweepVars, losses,
                   graphVars>>

Expirable == {p \in Slot : proposal[p] = "awaiting_approval" /\ IsDue(p)}

Expire(S) ==
    proposal' = [p \in Slot |-> IF p \in S THEN "expired" ELSE proposal[p]]

\* expire_due from list() and get(), and decide() on a due row: the row
\* expires and nobody looks at its run.  The update waits for row locks.
ExpireOnRead(p) ==
    /\ Reads
    /\ p \in Expirable /\ deciding[p] = "none"
    /\ Expire({p})
    /\ UNCHANGED <<runVars, resumed, due, requestVars, sweepVars, losses,
                   graphVars>>

\* expire_due_runs without select_for_update.
SweepExpireUnlocked ==
    /\ Expirable # {}
    /\ sweepTask = NoTask /\ \A r \in Run : sweep[r] = "no"
    /\ Expire(Expirable)
    /\ sweep' = [r \in Run |-> IF \E p \in Expirable : p[1] = r
                               THEN "expired" ELSE "no"]
    /\ UNCHANGED <<runVars, resumed, due, requestVars, sweepTask, losses,
                   graphVars>>

\* expire_due_runs, one transaction over every row that is due.
SweepExpire ==
    /\ Expirable # {}
    /\ \A p \in Expirable : deciding[p] = "none"
    /\ sweepTask = NoTask /\ \A r \in Run : sweep[r] = "no"
    /\ Expire(Expirable)
    /\ sweep' = [r \in Run |-> IF \E p \in Expirable : p[1] = r
                               THEN "expired" ELSE "no"]
    /\ UNCHANGED <<runVars, resumed, due, requestVars, sweepTask, losses,
                   graphVars>>

\* The loop of expire_due_action_proposals, run by run.
SweepCheck(r) ==
    /\ sweep[r] = "expired" /\ sweepTask = NoTask
    /\ sweep' = [sweep EXCEPT ![r] = IF Ready(r) THEN "ready" ELSE "no"]
    /\ UNCHANGED <<runVars, proposal, resumed, due, requestVars, sweepTask,
                   losses, graphVars>>

SweepQueue(r, t) ==
    /\ sweep[r] = "ready"
    /\ ReserveResume(r, t)
    /\ sweep' = [sweep EXCEPT ![r] = "no"]
    /\ sweepTask' = t
    /\ UNCHANGED <<proposal, resumed, due, requestVars, losses, graphVars>>

SweepRefused(r) ==
    /\ sweep[r] = "ready"
    /\ status[r] # "waiting_approval" \/ taskId[r] # NoTask
    /\ sweep' = [sweep EXCEPT ![r] = "no"]
    /\ UNCHANGED <<runVars, proposal, resumed, due, requestVars, sweepTask,
                   losses, graphVars>>

\* The beat worker dies, or a query of the loop fails: nobody takes up the
\* runs it had left.
SweepLost ==
    /\ \E r \in Run : sweep[r] # "no"
    /\ losses < MaxLosses
    /\ losses' = losses + 1
    /\ sweep' = [r \in Run |-> "no"]
    /\ UNCHANGED <<runVars, proposal, resumed, due, requestVars, sweepTask,
                   graphVars>>

PublishFlow(t) ==
    /\ Publish(t) \/ PublishRaises(t)
    /\ sweepTask' = IF t = sweepTask /\ caller'[t] = "none" THEN NoTask
                                                           ELSE sweepTask
    /\ UNCHANGED <<proposal, resumed, due, requestVars, sweep, losses, graphVars>>

\* The caller releases its reservation and raises, or dies.  When it was the
\* sweep, the loop ends there and the remaining runs are forgotten.
GiveUpFlow(t) ==
    /\ Release(t) \/ CallerCrash(t)
    /\ IF t = sweepTask
       THEN sweepTask' = NoTask /\ sweep' = [r \in Run |-> "no"]
       ELSE UNCHANGED sweepVars
    /\ UNCHANGED <<proposal, resumed, due, requestVars, losses, graphVars>>

-----------------------------------------------------------------------------
(* Workers and the graph *)

\* resume_payload refuses a run with an undecided row or no row at all ...
DecisionsRefused(t) ==
    /\ job[t] # NoJob /\ job[t].kind = "resume" /\ pc[t] = "claimed"
    /\ ~Ready(job[t].run)
    /\ Raise(t)
    /\ UNCHANGED flowVars

\* ... else mark_resumed marks what resume_payload read.  No row of the run
\* can appear or change in between: its only executor is this task.
TakeDecisionsFlow(t) ==
    /\ TakeDecisions(t)
    /\ Ready(job[t].run)
    /\ taken' = [taken EXCEPT ![t] = Unresumed(job[t].run)]
    /\ resumed' = resumed \union Unresumed(job[t].run)
    /\ UNCHANGED <<proposal, due, requestVars, sweepVars, losses, thread,
                   raised, todo, active, effects>>

\* resume_payload answering approve for every row.
EveryCall(t) == {<<thread[Thread(t)], p[3]>> : p \in taken[t]}

\* The pending interrupt takes the decisions by position.
ApprovedCalls(t) ==
    {<<thread[Thread(t)], p[3]>> : p \in {q \in taken[t] : proposal[q] = "approved"}}

\* Command(resume=...) fits a pending interrupt with as many calls.
ResumeFits(t) ==
    /\ thread[Thread(t)] # NoInterruptYet
    /\ Cardinality(taken[t]) = Cardinality(Position)

\* A fresh input or a fitting resume leaves the thread without a pending
\* interrupt.
BeginStreamFlow(t) ==
    /\ BeginStream(t)
    /\ job[t].kind = "resume" => ResumeFits(t)
    /\ todo' = IF job[t].kind = "resume"
               THEN [todo EXCEPT ![t] = ApprovedCalls(t)] ELSE todo
    /\ thread' = [thread EXCEPT ![Thread(t)] = NoInterruptYet]
    /\ taken' = [taken EXCEPT ![t] = {}]
    /\ UNCHANGED <<proposalVars, raised, active, effects>>

\* NoPendingInterruptError, or the HITL middleware counts the decisions.
ResumeRefused(t) ==
    /\ pc[t] = "decided" /\ ~ResumeFits(t)
    /\ Raise(t)
    /\ taken' = [taken EXCEPT ![t] = {}]
    /\ UNCHANGED <<proposalVars, thread, raised, todo, active, effects>>

\* ToolAuditMiddleware._begin: bind_tool_call finds the resumed approval of
\* this run for this call, if there is one, and mark_executing moves it on.
ToolBegin(t, c) ==
    LET p == SlotOf(job[t].run, c) IN
    /\ pc[t] = "streaming" /\ c \in todo[t]
    /\ todo' = [todo EXCEPT ![t] = @ \ {c}]
    /\ active' = [active EXCEPT ![t] = @ \union {c}]
    /\ proposal' = IF proposal[p] = "approved" /\ p \in resumed
                   THEN [proposal EXCEPT ![p] = "executing"] ELSE proposal
    /\ UNCHANGED <<runVars, resumed, due, requestVars, sweepVars, losses,
                   thread, raised, taken, effects>>

ToolEnds(t, c, outcome) ==
    LET p == SlotOf(job[t].run, c) IN
    /\ c \in active[t]
    /\ active' = [active EXCEPT ![t] = @ \ {c}]
    /\ proposal' = IF proposal[p] \in {"approved", "executing"}
                   THEN [proposal EXCEPT ![p] = outcome] ELSE proposal
    /\ UNCHANGED <<runVars, resumed, due, requestVars, sweepVars, losses,
                   thread, raised, taken, todo>>

\* The handler, the audit row and mark_executed commit in one transaction.
ToolDone(t, c) ==
    /\ ToolEnds(t, c, "executed")
    /\ effects' = [effects EXCEPT ![c] = @ + 1]

\* A handler that raises is rolled back and its failure recorded.  One whose
\* exception recoverable_tool_error turned into an error message returns it
\* inside the transaction: what it had done before the refusal commits with the
\* failure (mutate_events after a few of its operations).
ToolFails(t, c) ==
    /\ ToolEnds(t, c, "failed")
    /\ \E done \in 0..1 : effects' = [effects EXCEPT ![c] = @ + done]

\* The stream ends with nothing pending ...
EndStreamFlow(t) ==
    /\ EndStream(t)
    /\ todo[t] = {} /\ active[t] = {}
    /\ thread' = [thread EXCEPT ![Thread(t)] = NoInterruptYet]
    /\ UNCHANGED <<proposalVars, raised, localVars, effects>>

\* ... or in an interrupt that asks for approval.
RaiseInterrupt(t, i) ==
    /\ EndStream(t)
    /\ todo[t] = {} /\ active[t] = {}
    /\ i \notin raised
    /\ raised' = raised \union {i}
    /\ thread' = [thread EXCEPT ![Thread(t)] = i]
    /\ UNCHANGED <<proposalVars, localVars, effects>>

\* _persist_interrupt parking the run although nothing is pending.
PersistAnyway(t) ==
    LET i == thread[Thread(t)] IN
    /\ PersistInterrupt(t)
    /\ proposal' = [p \in Slot |->
            IF p[1] = job[t].run /\ p[2] = i /\ proposal[p] = "none"
            THEN "awaiting_approval" ELSE proposal[p]]
    /\ UNCHANGED <<resumed, due, requestVars, sweepVars, losses, graphVars>>

\* create_from_interrupt: get_or_create of one row per call of whatever
\* interrupt the conversation's thread holds.
PersistInterruptFlow(t) ==
    LET i == thread[Thread(t)] IN
    /\ PersistInterrupt(t)
    /\ i # NoInterruptYet
    /\ proposal' = [p \in Slot |->
            IF p[1] = job[t].run /\ p[2] = i /\ proposal[p] = "none"
            THEN "awaiting_approval" ELSE proposal[p]]
    /\ UNCHANGED <<resumed, due, requestVars, sweepVars, losses, graphVars>>

NoInterruptFlow(t) ==
    /\ NoInterrupt(t)
    /\ thread[Thread(t)] = NoInterruptYet
    /\ UNCHANGED flowVars

\* Leaving the graph early: it waits for the calls that are running and
\* drops the others.
LeaveFlow(t) ==
    /\ active[t] = {}
    /\ todo' = [todo EXCEPT ![t] = {}]
    /\ taken' = [taken EXCEPT ![t] = {}]
    /\ UNCHANGED <<proposalVars, thread, raised, active, effects>>

\* The handler runs outside the transaction (as in awrap_tool_call): what the
\* calls had written when the process died stays.
WorkerCrashCommitted(t) ==
    /\ WorkerCrash(t)
    /\ todo' = [todo EXCEPT ![t] = {}]
    /\ taken' = [taken EXCEPT ![t] = {}]
    /\ active' = [active EXCEPT ![t] = {}]
    /\ effects' = [c \in Call |-> IF c \in active[t] THEN effects[c] + 1 ELSE effects[c]]
    /\ UNCHANGED <<proposalVars, thread, raised>>

\* The uncommitted work of the calls that are running is lost.
WorkerCrashFlow(t) ==
    /\ WorkerCrash(t)
    /\ todo' = [todo EXCEPT ![t] = {}]
    /\ taken' = [taken EXCEPT ![t] = {}]
    /\ active' = [active EXCEPT ![t] = {}]
    /\ UNCHANGED <<proposalVars, thread, raised, effects>>

-----------------------------------------------------------------------------
QueueStep(p) == QueueRefused(p) \/ \E t \in Task : QueueResume(p, t)

RequestStep(p) ==
    \/ \E v \in Verdict : DecideOpen(p, v)
    \/ DecideCommit(p) \/ DecideRollback(p) \/ Replay(p)
    \/ QueueStep(p) \/ RequestLost(p) \/ ExpireOnRead(p)

SweepStep ==
    \/ SweepExpire
    \/ \E r \in Run : SweepCheck(r) \/ SweepRefused(r)
    \/ \E r \in Run, t \in Task : SweepQueue(r, t)

ToolStep(t) == \E c \in Call : ToolBegin(t, c) \/ ToolDone(t, c) \/ ToolFails(t, c)

WorkerStepFlow(t) ==
    \/ Claim(t) /\ UNCHANGED flowVars
    \/ Discard(t) /\ UNCHANGED flowVars
    \/ TakeDecisionsFlow(t) \/ DecisionsRefused(t)
    \/ BeginStreamFlow(t) \/ ResumeRefused(t)
    \/ ToolStep(t)
    \/ SeeCancelled(t) /\ LeaveFlow(t)
    \/ EndStreamFlow(t) \/ \E i \in Interrupt : RaiseInterrupt(t, i)
    \/ PersistInterruptFlow(t) \/ NoInterruptFlow(t)
    \/ WaitForApproval(t) /\ UNCHANGED flowVars
    \/ Complete(t) /\ UNCHANGED flowVars
    \/ Fail(t) /\ UNCHANGED flowVars

FaultFlow(t) ==
    \/ SetupRaises(t) /\ UNCHANGED flowVars
    \/ Raise(t) /\ LeaveFlow(t)
    \/ WorkerCrashFlow(t)

NextFlow ==
    \/ \E r \in Run : RowStep(r) /\ UNCHANGED flowVars
    \/ \E r \in Run, t \in Task : ReserveExecution(r, t) /\ UNCHANGED flowVars
    \/ ListStale /\ UNCHANGED flowVars
    \/ \E p \in Slot : RequestStep(p)
    \/ SweepStep \/ SweepLost
    \/ \E r \in Run, i \in Interrupt : Due(r, i)
    \/ \E t \in Task : PublishFlow(t) \/ GiveUpFlow(t) \/ WorkerStepFlow(t)
                       \/ FaultFlow(t)

\* Workers and beat run on, requests that began go on to their end, time
\* passes.  Nothing is assumed of what users do.
FairnessFlow ==
    /\ \A t \in Task : WF_vars(WorkerStepFlow(t))
    /\ \A t \in Task : WF_vars(PublishFlow(t) \/ GiveUpFlow(t))
    /\ \A p \in Slot : WF_vars(DecideCommit(p) \/ DecideRollback(p))
    /\ \A p \in Slot : WF_vars(QueueStep(p))
    /\ \A r \in Run, i \in Interrupt : WF_vars(Due(r, i))
    /\ WF_vars(SweepStep)

SpecFlow == InitFlow /\ [][NextFlow]_vars
FairSpecFlow == SpecFlow /\ FairnessFlow

-----------------------------------------------------------------------------
(* Properties *)

\* Seen from the runs alone, approval, expiry and tools do nothing AgentRuns
\* does not allow.
ImplementsAgentRuns == Spec

\* A high-risk call takes effect only under a row of its own that was
\* approved, handed to the graph and is now settled as executed or failed
\* (HumanInTheLoopMiddleware, resume_payload, bind_tool_call, mark_executed).
NoEffectWithoutApproval ==
    \A c \in Call : effects[c] > 0 =>
        \E r \in Run : LET p == SlotOf(r, c) IN
            proposal[p] \in {"executed", "failed"} /\ p \in resumed

\* Every effect is on record and happens once, whatever crashes, is delivered
\* again or decided twice: a row says executed only if the work of its call has
\* committed, and work that has committed, all or part of it, has a row that
\* says executed or failed (wrap_tool_call's transaction).
EffectsHappenOnce ==
    \A c \in Call : LET rows == {proposal[SlotOf(r, c)] : r \in Run} IN
        /\ effects[c] <= 1
        /\ "executed" \in rows => effects[c] = 1
        /\ effects[c] = 1 => rows \intersect {"executed", "failed"} # {}

\* A run is never parked without a row that a decision or an expiry can still
\* settle (create_from_interrupt against mark_resumed and wait_for_approval).
WaitingIsDecidable ==
    \A r \in Run : status[r] = "waiting_approval" => Unresumed(r) # {}

\* A conversation whose thread no second run uses.
OneRunPerConversation ==
    \A r1, r2 \in Run : ConversationOf[r1] = ConversationOf[r2] => r1 = r2

\* The rows of the interrupt the thread of a run waits on.
Asked(r) == {<<r, thread[ConversationOf[r]], n>> : n \in Position}

\* As long as no process has died, the decisions a resume task holds are those
\* of the very interrupt its thread waits on, one for each call.
DecisionsFitInterrupt ==
    crashes = 0 =>
        \A t \in Task : pc[t] = "decided" =>
            /\ thread[Thread(t)] # NoInterruptYet
            /\ taken[t] = Asked(job[t].run)

RowsAreRaised ==
    /\ \A p \in Slot : proposal[p] # "none" => p[2] \in raised
    /\ \A c \in Conversation : thread[c] \in raised \union {NoInterruptYet}

Knows(r, i) == thread[ConversationOf[r]] = i \/ \E n \in Position : proposal[<<r, i, n>>] # "none"

InterruptsHaveOneRun ==
    \A r1, r2 \in Run, i \in Interrupt : Knows(r1, i) /\ Knows(r2, i) => r1 = r2

OpenDecisionsHoldTheirRow ==
    \A p \in Slot : deciding[p] # "none" => proposal[p] = "awaiting_approval"

HandedOnIsSettled ==
    \A p \in Slot :
        /\ p \in resumed => proposal[p] \notin {"none", "awaiting_approval"}
        /\ proposal[p] \in {"executing", "executed", "failed"} => p \in resumed

Parked(r) ==
    \/ status[r] = "waiting_approval"
    \/ \E t \in Task :
          /\ Executing(t, r)
          /\ \/ pc[t] = "persisted"
             \/ pc[t] = "claimed" /\ job[t].kind = "resume"

NewInterruptsHaveNoRows ==
    \A t \in Task : pc[t] = "ended" /\ thread[Thread(t)] # NoInterruptYet =>
        \A p \in Asked(job[t].run) : proposal[p] = "none"

ParkedRunsAreAsked ==
    \A r \in Run : Parked(r) =>
        /\ thread[ConversationOf[r]] # NoInterruptYet
        /\ \A p \in Asked(r) : proposal[p] # "none" /\ p \notin resumed

DecisionsAreHeld ==
    \A t \in Task :
        /\ pc[t] = "decided" =>
            /\ thread[Thread(t)] # NoInterruptYet
            /\ Asked(job[t].run) \subseteq taken[t]
        /\ \A p \in taken[t] :
            /\ pc[t] = "decided" /\ p[1] = job[t].run /\ p \in resumed
            /\ proposal[p] \in {"approved", "rejected", "expired"}

CallsAreApproved ==
    \A t \in Task :
        /\ pc[t] # "streaming" => todo[t] = {} /\ active[t] = {}
        /\ \A c \in todo[t] : LET p == SlotOf(job[t].run, c) IN
              p \in resumed /\ proposal[p] = "approved"
        /\ \A c \in active[t] : LET p == SlotOf(job[t].run, c) IN
              p \in resumed /\ proposal[p] = "executing"

Entering(t) == \/ pc[t] \in {"decided", "streaming"}
               \/ pc[t] = "claimed" /\ job[t].kind = "execute"

\* Before the first crash a run enters its graph once for each message, with
\* no row left over from an earlier interrupt.
CalmRunsLeaveNoRows ==
    crashes = 0 =>
        /\ \A r \in Run : status[r] \in {"absent", "pending"} =>
              \A p \in Slot : p[1] = r => proposal[p] = "none"
        /\ \A t \in Task :
              /\ pc[t] \in {"unsent", "queued"} /\ job[t] # NoJob /\ job[t].kind = "execute"
                 => ~ (status[job[t].run] = "running" /\ taskId[job[t].run] = t)
              /\ Entering(t) => Unresumed(job[t].run) = {}
        /\ \A r \in Run : Unresumed(r) \subseteq Asked(r)

\* A parked run can be settled, what is handed to its graph is settled for that
\* very graph, and what the graph executes was approved and handed on.
InvFlow ==
    /\ TypeOKFlow
    /\ WaitingIsDecidable
    /\ DecisionsFitInterrupt
    /\ RowsAreRaised
    /\ InterruptsHaveOneRun
    /\ OpenDecisionsHoldTheirRow
    /\ HandedOnIsSettled
    /\ NewInterruptsHaveNoRows
    /\ ParkedRunsAreAsked
    /\ DecisionsAreHeld
    /\ CallsAreApproved
    /\ CalmRunsLeaveNoRows

\* What is decided stays decided: a row moves only along the arrows of
\* docs/architecture/phase-6-action-proposal-hitl.md (decisions, expiry and
\* tool results race on it), and executes only once its decision was handed on.
Lifecycle ==
    {<<"none", "awaiting_approval">>, <<"awaiting_approval", "approved">>,
     <<"awaiting_approval", "rejected">>, <<"awaiting_approval", "expired">>,
     <<"approved", "executing">>, <<"executing", "executed">>,
     <<"executing", "failed">>}
ProposalsFollowLifecycle ==
    [][\A p \in Slot : proposal'[p] # proposal[p] =>
          /\ <<proposal[p], proposal'[p]>> \in Lifecycle
          /\ proposal'[p] = "executing" => p \in resumed]_vars

\* A run that waits, all of whose rows are settled, is resumed (or ended).
ReadyRunResumes ==
    \A r \in Run :
        status[r] = "waiting_approval" /\ Ready(r) ~> status[r] # "waiting_approval"

\* A waiting run that a request or the sweep has set out to resume does go on,
\* however requests, the sweep and a cancellation race for it.
AskedRunResumes ==
    \A r \in Run :
        /\ status[r] = "waiting_approval" /\ Undecided(r) = {}
        /\ sweep[r] # "no" \/ \E p \in queueing : p[1] = r
        ~> status[r] # "waiting_approval"

\* The decision that settles the last open row of a run is the one that goes
\* on to queue its resumption (decide, resume_ready, _queue_resume).
SettlingDecisionResumes ==
    [][\A p \in Slot :
          /\ Undecided(p[1]) = {p}
          /\ proposal'[p] \in {"approved", "rejected"}
          => p \in queueing']_vars
=============================================================================
