------------------------ MODULE ApprovalFlow_proofs ------------------------
(***************************************************************************)
(* What ApprovalFlow guarantees for any number of runs, interrupts, calls, *)
(* crashes and lost requests.                                              *)
(*                                                                         *)
(* Every step is one of AgentRuns or leaves its variables alone, so runs   *)
(* and tasks keep all that is proved about them.  The rest is proved for   *)
(* runs that have their conversation to themselves.  IInvFlow follows a    *)
(* row from the interrupt to the tool: a parked run is asked for exactly   *)
(* the calls its thread waits on and none of these rows was handed on      *)
(* before; the decisions a resume task holds contain these rows, so that   *)
(* when they fit by number they are these rows; what the graph then        *)
(* executes is what was approved among them.  That there is one executor   *)
(* to a run (AgentRuns) keeps others from moving the row meanwhile.        *)
(*                                                                         *)
(* Steps fall into four kinds: rows settle, only runs move, a worker takes *)
(* a step in its graph, nothing happens (StepKinds).  Each part of the     *)
(* invariant is a lemma with one case to a kind.                           *)
(***************************************************************************)
EXTENDS ApprovalFlow, FiniteSetTheorems, TLAPS

-----------------------------------------------------------------------------
(* Runs and tasks: AgentRuns alone.                                        *)
(* Inv ties every worker at work to its row: the row is past pending and   *)
(* waiting_approval, is not completed, and is reserved for that worker's   *)
(* task or for nobody.  A claim needs a row that is pending, waiting or    *)
(* reserved for the claiming task, so there is no second worker to find    *)
(* there; and a worker that parks or completes the row is the only one.    *)

LEMMA JobIsARecord ==
    ASSUME NEW j \in Job
    PROVE  /\ j # NoJob
           /\ j.run \in Run
           /\ j.kind \in {"execute", "resume"}
BY ConstantsAssumption DEF Job

\* Every step leaves the variables in their types.
LEMMA Typing ==
    ASSUME TypeOK, Sent, [Next]_runVars
    PROVE  TypeOK'
<1> USE DEF TypeOK
<1>1. CASE UNCHANGED runVars
  BY <1>1 DEF runVars
<1>2. ASSUME NEW r \in Run, RowStep(r) PROVE TypeOK'
  <2>1. CASE Start(r)
    BY <2>1 DEF Start, Status, jobVars, budgetVars
  <2>2. CASE Cancel(r)
    BY <2>2 DEF Cancel, Status, Outcome, jobVars, budgetVars
  <2>3. CASE Age(r)
    BY <2>3 DEF Age, jobVars, budgetVars
  <2>4. CASE FailStale(r)
    BY <2>4 DEF FailStale, FailRow, Status, Outcome, jobVars, budgetVars
  <2> QED BY <1>2, <2>1, <2>2, <2>3, <2>4 DEF RowStep
<1>3. ASSUME NEW r \in Run, NEW t \in Task,
             ReserveExecution(r, t) \/ ReserveResume(r, t)
      PROVE  TypeOK'
  <2>1. PICK kind \in {"execute", "resume"} : Reserve(r, t, kind)
    BY <1>3 DEF ReserveExecution, ReserveResume
  <2>2. [kind |-> kind, run |-> r] \in Job
    BY DEF Job
  <2> QED BY <2>1, <2>2 DEF Reserve, Caller, budgetVars
<1>4. ASSUME NEW t \in Task, PublishStep(t) PROVE TypeOK'
  <2>1. CASE Publish(t)
    BY <2>1 DEF Publish, PC, Caller, rowVars, budgetVars
  <2>2. CASE PublishRaises(t)
    BY <2>2, ConstantsAssumption DEF PublishRaises, PC, Caller, rowVars
  <2>3. CASE Release(t)
    BY <2>3 DEF Release, Caller, budgetVars
  <2>4. CASE CallerCrash(t)
    BY <2>4, ConstantsAssumption DEF CallerCrash, Caller, rowVars
  <2> QED BY <1>4, <2>1, <2>2, <2>3, <2>4 DEF PublishStep
<1>5. ASSUME NEW t \in Task, WorkerStep(t) PROVE TypeOK'
  <2> USE DEF Goto, PC, Live, rowVars, budgetVars
  <2>1. CASE Claim(t)
    BY <2>1 DEF Claim, Status
  <2>2. CASE Discard(t)
    BY <2>2 DEF Discard
  <2>3. CASE TakeDecisions(t) \/ BeginStream(t) \/ SeeCancelled(t) \/ EndStream(t)
    BY <2>3 DEF TakeDecisions, BeginStream, SeeCancelled, EndStream
  <2>4. CASE PersistInterrupt(t) \/ NoInterrupt(t)
    BY <2>4 DEF PersistInterrupt, NoInterrupt
  <2>5. CASE WaitForApproval(t)
    BY <2>5 DEF WaitForApproval, Status
  <2>6. CASE Complete(t)
    BY <2>6 DEF Complete, Status, Outcome
  <2>7. CASE Fail(t)
    BY <2>7 DEF Fail, FailRow, Status, Outcome
  <2> QED BY <1>5, <2>1, <2>2, <2>3, <2>4, <2>5, <2>6, <2>7 DEF WorkerStep
<1>6. ASSUME NEW t \in Task, Fault(t) PROVE TypeOK'
  <2> USE DEF Goto, PC, Live, rowVars, budgetVars
  <2>1. CASE SetupRaises(t) \/ Raise(t)
    BY <2>1 DEF SetupRaises, Raise
  <2>2. CASE WorkerCrash(t)
    BY <2>2, ConstantsAssumption DEF WorkerCrash
  <2> QED BY <1>6, <2>1, <2>2 DEF Fault
<1>7. ASSUME ListStale PROVE TypeOK'
  BY <1>7 DEF ListStale, Stale, rowVars, jobVars, budgetVars
<1> QED BY <1>1, <1>2, <1>3, <1>4, <1>5, <1>6, <1>7 DEF Next

\* A step that starts no worker keeps both facts about workers, if it leaves
\* the rows of those still at work alone or releases, fails or cancels them.
LEMMA NoNewWorker ==
    ASSUME WorkersHoldTheirRow, OneWorkerPerRun,
           \A t \in Task : pc'[t] \in Live =>
               /\ pc[t] \in Live
               /\ job'[t] = job[t]
               /\ status'[job[t].run] \in {status[job[t].run], "failed", "cancelled"}
               /\ taskId'[job[t].run] \in {taskId[job[t].run], NoTask}
    PROVE  WorkersHoldTheirRow' /\ OneWorkerPerRun'
<1>1. WorkersHoldTheirRow'
  BY DEF WorkersHoldTheirRow
<1>2. OneWorkerPerRun'
  BY DEF OneWorkerPerRun
<1> QED BY <1>1, <1>2

\* Row steps: a run that has a worker is not absent, and can only be failed or
\* cancelled under it.
LEMMA RowStepInv ==
    ASSUME Inv, NEW r \in Run, RowStep(r)
    PROVE  Sent' /\ WorkersHoldTheirRow' /\ OneWorkerPerRun'
<1> USE DEF Inv, TypeOK, jobVars
<1>1. job' = job /\ pc' = pc /\ caller' = caller /\ taskId' = taskId
  BY DEF RowStep, Start, Cancel, Age, FailStale
<1>2. Sent'
  BY <1>1 DEF Sent
<1>3. ASSUME NEW t \in Task, pc'[t] \in Live
      PROVE  status'[job[t].run] \in {status[job[t].run], "failed", "cancelled"}
  <2>1. /\ status[job[t].run] \in {"running", "failed", "cancelled"}
        /\ job[t].run \in Run
    BY <1>1, <1>3, JobIsARecord DEF WorkersHoldTheirRow, Sent, Live
  <2>2. CASE Start(r)
    BY <2>1, <2>2 DEF Start
  <2>3. CASE Cancel(r)
    BY <2>1, <2>3 DEF Cancel
  <2>4. CASE Age(r)
    BY <2>4 DEF Age
  <2>5. CASE FailStale(r)
    BY <2>1, <2>5 DEF FailStale, FailRow
  <2> QED BY <2>2, <2>3, <2>4, <2>5 DEF RowStep
<1> QED BY <1>1, <1>2, <1>3, NoNewWorker

\* Reservations: only of rows that are pending or waiting, so of rows without a
\* worker, and with a task id nobody has used.
LEMMA ReserveInv ==
    ASSUME Inv, NEW r \in Run, NEW t \in Task,
           ReserveExecution(r, t) \/ ReserveResume(r, t)
    PROVE  Sent' /\ WorkersHoldTheirRow' /\ OneWorkerPerRun'
<1> USE DEF Inv, TypeOK, budgetVars
<1>1. PICK kind \in {"execute", "resume"} : Reserve(r, t, kind)
  BY DEF ReserveExecution, ReserveResume
<1>2. status[r] \in {"pending", "waiting_approval"}
  BY DEF ReserveExecution, ReserveResume
<1>3. pc[t] = "unsent"
  BY <1>1, ConstantsAssumption DEF Reserve, Fresh, Sent, Job
<1>4. Sent'
  <2>1. [kind |-> kind, run |-> r] \in Job
    BY DEF Job
  <2> QED BY <1>1, <2>1 DEF Sent, Reserve
<1>5. ASSUME NEW u \in Task, pc'[u] \in Live
      PROVE  /\ pc[u] \in Live
             /\ job'[u] = job[u]
             /\ status'[job[u].run] = status[job[u].run]
             /\ taskId'[job[u].run] = taskId[job[u].run]
  <2>1. pc[u] \in Live /\ u # t
    BY <1>1, <1>3, <1>5 DEF Reserve, Live
  <2>2. job[u].run # r
    BY <1>2, <2>1 DEF WorkersHoldTheirRow
  <2>3. job[u].run \in Run
    BY <2>1, JobIsARecord DEF Sent, Live
  <2> QED BY <1>1, <2>1, <2>2, <2>3 DEF Reserve
<1> QED BY <1>4, <1>5, NoNewWorker

\* Publishing touches no worker; releasing clears the reservation of a row.
LEMMA PublishInv ==
    ASSUME Inv, NEW t \in Task, PublishStep(t)
    PROVE  Sent' /\ WorkersHoldTheirRow' /\ OneWorkerPerRun'
<1> USE DEF Inv, TypeOK, rowVars, budgetVars
<1>1. job[t] \in Job
  BY DEF PublishStep, Publish, PublishRaises, Release, CallerCrash, Sent
<1>2. job' = job /\ status' = status
  BY DEF PublishStep, Publish, PublishRaises, Release, CallerCrash
<1>3. Sent'
  BY <1>1, <1>2 DEF PublishStep, Publish, PublishRaises, Release, CallerCrash, Sent
<1>4. ASSUME NEW u \in Task, pc'[u] \in Live
      PROVE  /\ pc[u] \in Live
             /\ taskId'[job[u].run] \in {taskId[job[u].run], NoTask}
  <2>1. pc[u] \in Live
    BY <1>4 DEF PublishStep, Publish, PublishRaises, Release, CallerCrash, Live
  <2>2. job[u].run \in Run
    BY <2>1, JobIsARecord DEF Sent, Live
  <2>3. taskId'[job[u].run] \in {taskId[job[u].run], NoTask}
    BY <1>1, <2>2, JobIsARecord
       DEF PublishStep, Publish, PublishRaises, Release, CallerCrash
  <2> QED BY <2>1, <2>3
<1> QED BY <1>2, <1>3, <1>4, NoNewWorker

\* The claim: a row that is pending, waiting or reserved for t has no other
\* worker.
LEMMA ClaimInv ==
    ASSUME Inv, NEW t \in Task, Claim(t)
    PROVE  Sent' /\ WorkersHoldTheirRow' /\ OneWorkerPerRun'
<1> USE DEF Inv, TypeOK
<1> DEFINE r == job[t].run
<1>1. /\ pc[t] = "queued" /\ pc' = [pc EXCEPT ![t] = "claimed"]
      /\ status' = [status EXCEPT ![r] = "running"]
      /\ taskId' = taskId /\ job' = job /\ caller' = caller
      /\ Claimable(t)
  BY DEF Claim, Goto
<1>2. job[t] \in Job /\ r \in Run
  BY <1>1, JobIsARecord DEF Sent
<1>3. Sent'
  BY <1>1, <1>2 DEF Sent
<1>4. taskId[r] \in {t, NoTask}
  BY <1>1 DEF Claimable
<1>5. ASSUME NEW u \in Task, u # t, pc[u] \in Live PROVE job[u].run # r
  <2>1. taskId[r] = t \/ status[r] \in {"pending", "waiting_approval"}
    BY <1>1 DEF Claimable
  <2>2. CASE status[r] \in {"pending", "waiting_approval"}
    BY <1>5, <2>2 DEF WorkersHoldTheirRow
  <2>3. CASE taskId[r] = t
    BY <1>5, <2>3, ConstantsAssumption DEF WorkersHoldTheirRow
  <2> QED BY <2>1, <2>2, <2>3
<1>6. \A u \in Task : u # t /\ pc'[u] \in Live => pc[u] \in Live
  BY <1>1
<1>7. WorkersHoldTheirRow'
  <2> SUFFICES ASSUME NEW u \in Task, pc'[u] \in Live
               PROVE  /\ status'[job[u].run] \in {"running", "failed", "cancelled"}
                      /\ taskId[job[u].run] \in {u, NoTask}
    BY <1>1 DEF WorkersHoldTheirRow
  <2>1. CASE u = t
    BY <1>1, <1>2, <1>4, <2>1
  <2>2. CASE u # t
    BY <1>1, <1>5, <1>6, <2>2 DEF WorkersHoldTheirRow
  <2> QED BY <2>1, <2>2
<1>8. OneWorkerPerRun'
  <2> SUFFICES ASSUME NEW t1 \in Task, NEW t2 \in Task,
                      pc'[t1] \in Live, pc'[t2] \in Live,
                      job[t1].run = job[t2].run
               PROVE  t1 = t2
    BY <1>1 DEF OneWorkerPerRun
  <2>1. CASE t1 # t /\ t2 # t
    BY <1>6, <2>1 DEF OneWorkerPerRun
  <2>2. CASE t1 = t \/ t2 = t
    BY <1>5, <1>6, <2>2
  <2> QED BY <2>1, <2>2
<1> QED BY <1>3, <1>7, <1>8

\* Workers: whoever parks or completes the row leaves it in the same step, and
\* was the only one there.
LEMMA WorkerInv ==
    ASSUME Inv, NEW t \in Task, WorkerStep(t) \/ Fault(t), ~Claim(t)
    PROVE  Sent' /\ WorkersHoldTheirRow' /\ OneWorkerPerRun'
<1> USE DEF Inv, TypeOK, rowVars, budgetVars
<1>1. /\ job' = job /\ caller' = caller
      /\ \E p \in {"queued", "done"} \union Live : pc' = [pc EXCEPT ![t] = p]
      /\ pc[t] \in {"queued"} \union Live
      /\ pc'[t] \in Live => pc[t] \in Live
  BY DEF WorkerStep, Fault, Goto, Live, Discard, TakeDecisions, BeginStream,
         SeeCancelled, EndStream, PersistInterrupt, NoInterrupt,
         WaitForApproval, Complete, Fail, SetupRaises, Raise, WorkerCrash
<1>2. job[t] \in Job
  BY <1>1 DEF Sent, Live
<1>3. Sent'
  BY <1>1, <1>2 DEF Sent
<1>4. ASSUME NEW u \in Task, pc'[u] \in Live
      PROVE  /\ pc[u] \in Live
             /\ status'[job[u].run] \in {status[job[u].run], "failed", "cancelled"}
             /\ taskId'[job[u].run] \in {taskId[job[u].run], NoTask}
  <2>1. pc[u] \in Live
    BY <1>1, <1>4
  <2>2. job[u].run \in Run
    BY <2>1, JobIsARecord DEF Sent, Live
  <2>3. CASE WaitForApproval(t) \/ Complete(t)
    <3>1. pc'[t] = "done" /\ pc[t] \in Live
      BY <2>3 DEF WaitForApproval, Complete, Goto, Live
    <3>2. u # t
      BY <1>4, <3>1 DEF Live
    <3>3. job[u].run # job[t].run
      BY <2>1, <3>1, <3>2 DEF OneWorkerPerRun
    <3>4. /\ status'[job[u].run] = status[job[u].run]
          /\ taskId'[job[u].run] = taskId[job[u].run]
      BY <2>2, <2>3, <3>3 DEF WaitForApproval, Complete
    <3> QED BY <2>1, <3>4
  <2>4. CASE Fail(t)
    BY <2>1, <2>2, <2>4 DEF Fail, FailRow
  <2>5. CASE ~WaitForApproval(t) /\ ~Complete(t) /\ ~Fail(t)
    <3>1. status' = status /\ taskId' = taskId
      BY <2>5 DEF WorkerStep, Fault, Discard, TakeDecisions, BeginStream,
                  SeeCancelled, EndStream, PersistInterrupt, NoInterrupt,
                  SetupRaises, Raise, WorkerCrash
    <3> QED BY <2>1, <3>1
  <2> QED BY <2>3, <2>4, <2>5
<1> QED BY <1>1, <1>3, <1>4, NoNewWorker

\* The stale sweep lists rows that exist, and no row ceases to.
LEMMA ListedRowsExist ==
    ASSUME Inv, [Next]_runVars
    PROVE  (\A r \in listed : status[r] # "absent")'
<1> USE DEF Inv, TypeOK
<1>1. CASE UNCHANGED runVars
  BY <1>1 DEF runVars
<1>2. ASSUME NEW r \in Run, RowStep(r) PROVE (\A q \in listed : status[q] # "absent")'
  BY <1>2 DEF RowStep, Start, Cancel, Age, FailStale, FailRow
<1>3. ASSUME NEW r \in Run, NEW t \in Task,
             ReserveExecution(r, t) \/ ReserveResume(r, t)
      PROVE  (\A q \in listed : status[q] # "absent")'
  BY <1>3 DEF ReserveExecution, ReserveResume, Reserve
<1>4. ASSUME NEW t \in Task, PublishStep(t) PROVE (\A q \in listed : status[q] # "absent")'
  BY <1>4 DEF PublishStep, Publish, PublishRaises, Release, CallerCrash, rowVars
<1>5. ASSUME NEW t \in Task, WorkerStep(t) \/ Fault(t)
      PROVE  (\A q \in listed : status[q] # "absent")'
  BY <1>5 DEF WorkerStep, Fault, Claim, Discard, TakeDecisions, BeginStream,
     SeeCancelled, EndStream, PersistInterrupt, NoInterrupt, WaitForApproval,
     Complete, Fail, FailRow, SetupRaises, Raise, WorkerCrash, rowVars
<1>6. ASSUME ListStale PROVE (\A q \in listed : status[q] # "absent")'
  BY <1>6 DEF ListStale, Stale, rowVars
<1> QED BY <1>1, <1>2, <1>3, <1>4, <1>5, <1>6 DEF Next

\* The message of a task is sent by one caller, before anybody gets it.
LEMMA MessagesAreSentOnce ==
    ASSUME Inv, [Next]_runVars
    PROVE  PublishedOnce'
<1> USE DEF Inv, TypeOK, PublishedOnce
<1>1. CASE UNCHANGED runVars \/ ListStale \/ \E r \in Run : RowStep(r)
  <2>1. pc' = pc /\ caller' = caller
    BY <1>1 DEF runVars, jobVars, ListStale, RowStep, Start, Cancel, Age, FailStale
  <2> QED BY <2>1
<1>2. ASSUME NEW r \in Run, NEW t \in Task,
             ReserveExecution(r, t) \/ ReserveResume(r, t)
      PROVE  PublishedOnce'
  <2>1. Fresh(t) /\ pc' = pc /\ caller' = [caller EXCEPT ![t] = "publishing"]
    BY <1>2 DEF ReserveExecution, ReserveResume, Reserve
  <2>2. pc[t] = "unsent"
    BY <2>1, ConstantsAssumption DEF Fresh, Sent, Job
  <2> QED BY <2>1, <2>2
<1>3. ASSUME NEW t \in Task, PublishStep(t) PROVE PublishedOnce'
  <2>1. /\ \A u \in Task : u # t => pc'[u] = pc[u] /\ caller'[u] = caller[u]
        /\ caller'[t] # "publishing"
    BY <1>3 DEF PublishStep, Publish, PublishRaises, Release, CallerCrash
  <2> QED BY <2>1
<1>4. ASSUME NEW t \in Task, WorkerStep(t) \/ Fault(t) PROVE PublishedOnce'
  <2>1. /\ caller' = caller /\ pc[t] # "unsent"
        /\ \A u \in Task : u # t => pc'[u] = pc[u]
    BY <1>4 DEF WorkerStep, Fault, Goto, Live, Claim, Discard, TakeDecisions, BeginStream,
       SeeCancelled, EndStream, PersistInterrupt, NoInterrupt, WaitForApproval,
       Complete, Fail, SetupRaises, Raise, WorkerCrash
  <2> QED BY <2>1
<1> QED BY <1>1, <1>2, <1>3, <1>4 DEF Next

LEMMA InitInv == Init => Inv
BY ConstantsAssumption DEF Init, Inv, TypeOK, Sent, PublishedOnce, WorkersHoldTheirRow,
   OneWorkerPerRun, Status, PC, Caller, Live

LEMMA NextInv == Inv /\ [Next]_runVars => Inv'
<1> SUFFICES ASSUME Inv, [Next]_runVars PROVE Inv'
  OBVIOUS
<1>1. TypeOK'
  BY Typing DEF Inv
<1>2. Sent' /\ WorkersHoldTheirRow' /\ OneWorkerPerRun'
  <2>1. CASE UNCHANGED runVars \/ ListStale
    BY <2>1 DEF Inv, Sent, WorkersHoldTheirRow, OneWorkerPerRun, runVars,
                ListStale, rowVars, jobVars
  <2>2. CASE \E r \in Run : RowStep(r)
    BY <2>2, RowStepInv
  <2>3. CASE \E r \in Run, t \in Task : ReserveExecution(r, t) \/ ReserveResume(r, t)
    BY <2>3, ReserveInv
  <2>4. CASE \E t \in Task : PublishStep(t) \/ WorkerStep(t) \/ Fault(t)
    BY <2>4, PublishInv, ClaimInv, WorkerInv
  <2> QED BY <2>1, <2>2, <2>3, <2>4 DEF Next
<1>3. (\A r \in listed : status[r] # "absent")'
  BY ListedRowsExist
<1>4. PublishedOnce'
  BY MessagesAreSentOnce
<1> QED BY <1>1, <1>2, <1>3, <1>4 DEF Inv

\* The inductive invariant: types, and every worker alone with its row.
THEOREM Invariance == Spec => []Inv
BY InitInv, NextInv, PTL DEF Spec

\* Every variable keeps its type, whatever the number of runs and tasks.
THEOREM TypeCorrectness == Spec => []TypeOK
<1>1. Inv => TypeOK
  BY DEF Inv
<1> QED BY <1>1, Invariance, PTL

\* No two workers ever execute the same run: redelivery, double publication
\* and released reservations included.
THEOREM MutualExclusion == Spec => []SingleExecutor
<1>1. Inv => SingleExecutor
  BY DEF Inv, OneWorkerPerRun, SingleExecutor, Executing, Of
<1> QED BY <1>1, Invariance, PTL

-----------------------------------------------------------------------------
\* A cancelled run stays cancelled and announces nothing more.
THEOREM CancellationIsFinal == Spec => CancelledIsFinal
<1> DEFINE Kept(r) == status[r] = "cancelled" =>
                         status'[r] = "cancelled" /\ announced'[r] = announced[r]
<1>1. ASSUME Inv, Next, NEW r \in Run PROVE Kept(r)
  <2> USE <1>1 DEF Inv, TypeOK, rowVars, jobVars, budgetVars
  <2>1. ASSUME NEW q \in Run, RowStep(q) PROVE Kept(r)
    BY <2>1 DEF RowStep, Start, Cancel, Age, FailStale, FailRow, Finished
  <2>2. ASSUME NEW q \in Run, NEW t \in Task,
               ReserveExecution(q, t) \/ ReserveResume(q, t)
        PROVE  Kept(r)
    BY <2>2 DEF ReserveExecution, ReserveResume, Reserve
  <2>3. ASSUME NEW t \in Task, PublishStep(t) PROVE Kept(r)
    BY <2>3 DEF PublishStep, Publish, PublishRaises, Release, CallerCrash
  <2>4. ASSUME NEW t \in Task, WorkerStep(t) PROVE Kept(r)
    <3>1. CASE Claim(t)
      BY <3>1 DEF Claim, Claimable
    <3>2. CASE WaitForApproval(t)
      BY <3>2 DEF WaitForApproval
    <3>3. CASE Complete(t)
      BY <3>3 DEF Complete
    <3>4. CASE Fail(t)
      BY <3>4 DEF Fail, FailRow, Finished
    <3>5. CASE ~Claim(t) /\ ~WaitForApproval(t) /\ ~Complete(t) /\ ~Fail(t)
      BY <2>4, <3>5 DEF WorkerStep, Discard, TakeDecisions, BeginStream,
         SeeCancelled, EndStream, PersistInterrupt, NoInterrupt
    <3> QED BY <3>1, <3>2, <3>3, <3>4, <3>5
  <2>5. ASSUME NEW t \in Task, Fault(t) PROVE Kept(r)
    BY <2>5 DEF Fault, SetupRaises, Raise, WorkerCrash
  <2>6. ASSUME ListStale PROVE Kept(r)
    BY <2>6 DEF ListStale
  <2> QED BY <2>1, <2>2, <2>3, <2>4, <2>5, <2>6 DEF Next
<1>2. Inv /\ [Next]_runVars => [\A r \in Run : Kept(r)]_runVars
  BY <1>1
<1> QED BY <1>2, Invariance, PTL DEF Spec, CancelledIsFinal

\* A completed run stays completed: nobody is left who could park it.
THEOREM CompletionIsFinal == Spec => CompletedIsFinal
<1> DEFINE Kept(r) == status[r] = "completed" => status'[r] = "completed"
<1>1. ASSUME Inv, Next, NEW r \in Run PROVE Kept(r)
  <2> USE <1>1 DEF Inv, TypeOK, rowVars, jobVars, budgetVars
  <2>1. ASSUME NEW q \in Run, RowStep(q) PROVE Kept(r)
    BY <2>1 DEF RowStep, Start, Cancel, Age, FailStale, FailRow, Finished
  <2>2. ASSUME NEW q \in Run, NEW t \in Task,
               ReserveExecution(q, t) \/ ReserveResume(q, t)
        PROVE  Kept(r)
    BY <2>2 DEF ReserveExecution, ReserveResume, Reserve
  <2>3. ASSUME NEW t \in Task, PublishStep(t) PROVE Kept(r)
    BY <2>3 DEF PublishStep, Publish, PublishRaises, Release, CallerCrash
  <2>4. ASSUME NEW t \in Task, WorkerStep(t) PROVE Kept(r)
    <3>1. CASE Claim(t)
      BY <3>1 DEF Claim, Claimable
    <3>2. CASE WaitForApproval(t)
      <4>1. pc[t] \in Live
        BY <3>2 DEF WaitForApproval, Goto, Live
      <4>2. status[job[t].run] # "completed"
        BY <4>1 DEF WorkersHoldTheirRow
      <4> QED BY <3>2, <4>2 DEF WaitForApproval
    <3>3. CASE Complete(t)
      BY <3>3 DEF Complete
    <3>4. CASE Fail(t)
      BY <3>4 DEF Fail, FailRow, Finished
    <3>5. CASE ~Claim(t) /\ ~WaitForApproval(t) /\ ~Complete(t) /\ ~Fail(t)
      BY <2>4, <3>5 DEF WorkerStep, Discard, TakeDecisions, BeginStream,
         SeeCancelled, EndStream, PersistInterrupt, NoInterrupt
    <3> QED BY <3>1, <3>2, <3>3, <3>4, <3>5
  <2>5. ASSUME NEW t \in Task, Fault(t) PROVE Kept(r)
    BY <2>5 DEF Fault, SetupRaises, Raise, WorkerCrash
  <2>6. ASSUME ListStale PROVE Kept(r)
    BY <2>6 DEF ListStale
  <2> QED BY <2>1, <2>2, <2>3, <2>4, <2>5, <2>6 DEF Next
<1>2. Inv /\ [Next]_runVars => [\A r \in Run : Kept(r)]_runVars
  BY <1>1
<1> QED BY <1>2, Invariance, PTL DEF Spec, CompletedIsFinal

\* Both outcomes of a run are final.
THEOREM FinalOutcomes == Spec => EndedRunsStayEnded
BY CancellationIsFinal, CompletionIsFinal DEF EndedRunsStayEnded

-----------------------------------------------------------------------------
(* The refinement of RunLifecycle *)

\* With one worker to a run, the executor is whoever is at work on it.
LEMMA ExecutorIs ==
    ASSUME OneWorkerPerRun, NEW r \in Run
    PROVE  /\ \A t \in Task : Executing(t, r) => Executor[r] = t
           /\ (\A t \in Task : ~Executing(t, r)) => Executor[r] = NoTask
<1>1. ASSUME NEW t \in Task, Executing(t, r) PROVE Executor[r] = t
  <2>1. \A u \in Task : Executing(u, r) => u = t
    BY <1>1 DEF OneWorkerPerRun, Executing, Of
  <2> QED BY <1>1, <2>1 DEF Executor
<1> QED BY <1>1 DEF Executor

LEMMA ExecutorIsPrimed ==
    ASSUME OneWorkerPerRun', NEW r \in Run
    PROVE  /\ \A t \in Task : Executing(t, r)' => Executor'[r] = t
           /\ (\A t \in Task : ~Executing(t, r)') => Executor'[r] = NoTask
<1>1. ASSUME NEW t \in Task, Executing(t, r)' PROVE Executor'[r] = t
  <2>1. \A u \in Task : Executing(u, r)' => u = t
    BY <1>1 DEF OneWorkerPerRun, Executing, Of
  <2> QED BY <1>1, <2>1 DEF Executor
<1> QED BY <1>1 DEF Executor

\* A step that lets no worker in or out leaves the executors as they are.
LEMMA SameExecutors ==
    ASSUME OneWorkerPerRun, OneWorkerPerRun',
           \A t \in Task : pc[t] \in Live \/ pc'[t] \in Live =>
               pc[t] \in Live /\ pc'[t] \in Live /\ job'[t] = job[t]
    PROVE  Executor' = Executor
<1>1. ASSUME NEW r \in Run, NEW t \in Task PROVE Executing(t, r)' <=> Executing(t, r)
  BY DEF Executing, Of
<1>2. ASSUME NEW r \in Run PROVE Executor'[r] = Executor[r]
  <2>1. CASE \E t \in Task : Executing(t, r)
    BY <1>1, <2>1, ExecutorIs, ExecutorIsPrimed
  <2>2. CASE \A t \in Task : ~Executing(t, r)
    BY <1>1, <2>2, ExecutorIs, ExecutorIsPrimed
  <2> QED BY <2>1, <2>2
<1>3. /\ Executor = [r \in Run |-> Executor[r]]
      /\ Executor' = [r \in Run |-> Executor'[r]]
  BY DEF Executor
<1> QED BY <1>2, <1>3

\* A worker that goes leaves its run without an executor.
LEMMA ExecutorLeaves ==
    ASSUME OneWorkerPerRun, OneWorkerPerRun', NEW t \in Task, NEW r \in Run,
           Executing(t, r), pc'[t] \notin Live, job' = job,
           \A u \in Task : u # t => pc'[u] = pc[u]
    PROVE  Executor' = [Executor EXCEPT ![r] = NoTask] /\ Executor[r] = t
<1>1. ASSUME NEW q \in Run, NEW u \in Task
      PROVE  Executing(u, q)' <=> Executing(u, q) /\ u # t
  BY DEF Executing, Of
<1>2. ASSUME NEW q \in Run, q # r PROVE Executor'[q] = Executor[q]
  <2>1. ~Executing(t, q)
    BY <1>2 DEF Executing, Of
  <2>2. CASE \E u \in Task : Executing(u, q)
    BY <1>1, <2>1, <2>2, ExecutorIs, ExecutorIsPrimed
  <2>3. CASE \A u \in Task : ~Executing(u, q)
    BY <1>1, <2>3, ExecutorIs, ExecutorIsPrimed
  <2> QED BY <2>2, <2>3
<1>3. \A u \in Task : ~Executing(u, r)'
  BY <1>1 DEF OneWorkerPerRun, Executing, Of
<1>4. Executor'[r] = NoTask
  BY <1>3, ExecutorIsPrimed
<1>5. /\ Executor = [q \in Run |-> Executor[q]]
      /\ Executor' = [q \in Run |-> Executor'[q]]
  BY DEF Executor
<1> QED BY <1>2, <1>4, <1>5, ExecutorIs

\* A worker that comes is the executor of a run that had none.
LEMMA ExecutorEnters ==
    ASSUME OneWorkerPerRun, OneWorkerPerRun', NEW t \in Task, NEW r \in Run,
           Executing(t, r)', pc[t] \notin Live, job' = job,
           \A u \in Task : u # t => pc'[u] = pc[u]
    PROVE  Executor' = [Executor EXCEPT ![r] = t] /\ Executor[r] = NoTask
<1>1. ASSUME NEW q \in Run, NEW u \in Task
      PROVE  Executing(u, q) <=> Executing(u, q)' /\ u # t
  BY DEF Executing, Of
<1>2. ASSUME NEW q \in Run, q # r PROVE Executor'[q] = Executor[q]
  <2>1. ~Executing(t, q)'
    BY <1>2 DEF Executing, Of
  <2>2. CASE \E u \in Task : Executing(u, q)
    BY <1>1, <2>1, <2>2, ExecutorIs, ExecutorIsPrimed
  <2>3. CASE \A u \in Task : ~Executing(u, q)
    BY <1>1, <2>1, <2>3, ExecutorIs, ExecutorIsPrimed
  <2> QED BY <2>2, <2>3
<1>3. \A u \in Task : ~Executing(u, r)
  BY <1>1 DEF OneWorkerPerRun, Executing, Of
<1>4. Executor[r] = NoTask
  BY <1>3, ExecutorIs
<1>5. /\ Executor = [q \in Run |-> Executor[q]]
      /\ Executor' = [q \in Run |-> Executor'[q]]
  BY DEF Executor
<1> QED BY <1>2, <1>4, <1>5, ExecutorIsPrimed

\* A step that lets no worker in or out is one of the row alone, or none.
LEMMA RowStepMaps ==
    ASSUME Inv, NEW r \in Run, RowStep(r), Executor' = Executor
    PROVE  Outside!Next \/ UNCHANGED Outside!vars
<1> USE DEF Inv, TypeOK
<1>1. CASE Start(r)
  <2>1. Outside!Start(r)
    BY <1>1 DEF Start, Outside!Start, Outside!Become
  <2> QED BY <2>1 DEF Outside!Next
<1>2. CASE Cancel(r)
  <2>1. Outside!Cancel(r)
    BY <1>2 DEF Cancel, Outside!Cancel, Outside!Become, Finished, Outside!Finished
  <2> QED BY <2>1 DEF Outside!Next
<1>3. CASE Age(r)
  BY <1>3 DEF Age, Outside!vars
<1>4. CASE FailStale(r) /\ status[r] \in Finished
  BY <1>4 DEF FailStale, FailRow, Outside!vars
<1>5. CASE FailStale(r) /\ status[r] \notin Finished
  <2>1. Outside!GiveUp(r)
    BY <1>5 DEF FailStale, FailRow, Outside!GiveUp, Outside!Become, Finished, Outside!Finished
  <2> QED BY <2>1 DEF Outside!Next
<1> QED BY <1>1, <1>2, <1>3, <1>4, <1>5 DEF RowStep

\* A worker's steps: it enters, it leaves, or nothing is seen of it.
LEMMA WorkerStepMaps ==
    ASSUME Inv, Inv', NEW t \in Task, WorkerStep(t) \/ Fault(t)
    PROVE  Outside!Next \/ UNCHANGED Outside!vars
<1> USE DEF Inv, TypeOK, rowVars
<1> DEFINE r == job[t].run
<1>1. /\ job' = job
      /\ \A u \in Task : u # t => pc'[u] = pc[u]
      /\ pc[t] \in {"queued"} \union Live
  BY DEF WorkerStep, Fault, Goto, Live, Claim, Discard, TakeDecisions, BeginStream,
         SeeCancelled, EndStream, PersistInterrupt, NoInterrupt,
         WaitForApproval, Complete, Fail, SetupRaises, Raise, WorkerCrash
<1>2. job[t] \in Job /\ job[t] # NoJob /\ r \in Run
  BY <1>1, JobIsARecord DEF Sent, Live
<1>3. CASE Claim(t)
  <2>1. pc[t] = "queued" /\ pc'[t] = "claimed"
    BY <1>3 DEF Claim, Goto
  <2>2. Executing(t, r)' /\ pc[t] \notin Live
    BY <1>1, <1>2, <2>1 DEF Executing, Of, Live
  <2>3. Executor' = [Executor EXCEPT ![r] = t] /\ Executor[r] = NoTask
    BY <1>1, <1>2, <2>2, ExecutorEnters
  <2>4. status[r] \in {"pending", "running", "waiting_approval"}
    BY <1>3 DEF Claim, Claimable
  <2>5. Outside!Enter(r, t)
    BY <1>3, <2>3, <2>4 DEF Claim, Outside!Enter, Outside!Become
  <2> QED BY <1>2, <2>5 DEF Outside!Next
<1>4. CASE ~Claim(t) /\ pc[t] \in Live /\ pc'[t] \notin Live
  <2>1. Executor' = [Executor EXCEPT ![r] = NoTask] /\ Executor[r] = t
    BY <1>1, <1>2, <1>4, ExecutorLeaves DEF Executing, Of
  <2>2. Executor[r] # NoTask
    BY <2>1, ConstantsAssumption
  <2>3. \/ status[r] # "cancelled" /\ status' = [status EXCEPT ![r] = "waiting_approval"]
        \/ status[r] # "cancelled" /\ status' = [status EXCEPT ![r] = "completed"]
        \/ status[r] \notin Finished /\ status' = [status EXCEPT ![r] = "failed"]
        \/ status' = status
    BY <1>4 DEF WorkerStep, Fault, Discard, TakeDecisions, BeginStream,
       SeeCancelled, EndStream, PersistInterrupt, NoInterrupt, WaitForApproval,
       Complete, Fail, FailRow, SetupRaises, Raise, WorkerCrash
  <2>4. Outside!Leave(r)
    BY <2>1, <2>2, <2>3 DEF Outside!Leave, Outside!Become, Finished, Outside!Finished
  <2> QED BY <1>2, <2>4 DEF Outside!Next
<1>5. CASE ~Claim(t) /\ ~(pc[t] \in Live /\ pc'[t] \notin Live)
  <2>1. pc[t] \in Live <=> pc'[t] \in Live
    BY <1>5 DEF WorkerStep, Fault, Goto, Live, Discard, TakeDecisions, BeginStream,
       SeeCancelled, EndStream, PersistInterrupt, NoInterrupt,
       WaitForApproval, Complete, Fail, SetupRaises, Raise, WorkerCrash
  <2>2. Executor' = Executor
    BY <1>1, <2>1, SameExecutors
  <2>3. status' = status
    BY <1>5, <2>1 DEF WorkerStep, Fault, Goto, Live, Discard, TakeDecisions, BeginStream,
       SeeCancelled, EndStream, PersistInterrupt, NoInterrupt,
       WaitForApproval, Complete, Fail, SetupRaises, Raise, WorkerCrash
  <2> QED BY <2>2, <2>3 DEF Outside!vars
<1> QED BY <1>3, <1>4, <1>5

LEMMA StepMaps ==
    ASSUME Inv, Inv', [Next]_runVars
    PROVE  [Outside!Next]_(Outside!vars)
<1> USE DEF Inv, TypeOK
<1>1. CASE UNCHANGED runVars
  <2>1. Executor' = Executor
    BY <1>1, SameExecutors DEF runVars
  <2> QED BY <1>1, <2>1 DEF runVars, Outside!vars
<1>2. ASSUME NEW r \in Run, RowStep(r) PROVE [Outside!Next]_(Outside!vars)
  <2>1. pc' = pc /\ job' = job
    BY <1>2 DEF RowStep, Start, Cancel, Age, FailStale, jobVars
  <2>2. Executor' = Executor
    BY <2>1, SameExecutors
  <2> QED BY <1>2, <2>2, RowStepMaps
<1>3. ASSUME NEW r \in Run, NEW t \in Task,
             ReserveExecution(r, t) \/ ReserveResume(r, t)
      PROVE  [Outside!Next]_(Outside!vars)
  <2>1. /\ status' = status /\ pc' = pc /\ Fresh(t)
        /\ \A u \in Task : u # t => job'[u] = job[u]
    BY <1>3 DEF ReserveExecution, ReserveResume, Reserve
  <2>2. pc[t] \notin Live
    BY <2>1, ConstantsAssumption DEF Sent, Fresh, Job, Live
  <2>3. Executor' = Executor
    BY <2>1, <2>2, SameExecutors
  <2> QED BY <2>1, <2>3 DEF Outside!vars
<1>4. ASSUME NEW t \in Task, PublishStep(t) PROVE [Outside!Next]_(Outside!vars)
  <2>1. /\ status' = status /\ job' = job
        /\ \A u \in Task : pc'[u] = pc[u] \/ pc'[u] \in {"unsent", "queued"}
    BY <1>4 DEF PublishStep, Publish, PublishRaises, Release, CallerCrash, rowVars
  <2>2. \A u \in Task : pc[u] \in Live <=> pc'[u] \in Live
    BY <1>4, <2>1
       DEF PublishStep, Publish, PublishRaises, Release, CallerCrash, Live, PublishedOnce
  <2>3. Executor' = Executor
    BY <2>1, <2>2, SameExecutors
  <2> QED BY <2>1, <2>3 DEF Outside!vars
<1>5. ASSUME NEW t \in Task, WorkerStep(t) \/ Fault(t) PROVE [Outside!Next]_(Outside!vars)
  BY <1>5, WorkerStepMaps
<1>6. ASSUME ListStale PROVE [Outside!Next]_(Outside!vars)
  <2>1. status' = status /\ pc' = pc /\ job' = job
    BY <1>6 DEF ListStale, rowVars, jobVars
  <2>2. Executor' = Executor
    BY <2>1, SameExecutors
  <2> QED BY <2>1, <2>2 DEF Outside!vars
<1> QED BY <1>1, <1>2, <1>3, <1>4, <1>5, <1>6 DEF Next

\* AgentRuns implements RunLifecycle: whatever is reserved, published twice,
\* redelivered and lost, a run has one executor at a time and goes through the
\* steps of RunLifecycle.
THEOREM Refinement == Spec => ImplementsLifecycle
<1>1. Init => Outside!Init
  BY DEF Init, Outside!Init, Executor, Executing, Live
<1>2. Inv /\ Inv' /\ [Next]_runVars => [Outside!Next]_(Outside!vars)
  BY StepMaps
<1> QED BY <1>1, <1>2, Invariance, PTL DEF Spec, Outside!Spec, ImplementsLifecycle

-----------------------------------------------------------------------------
(* The composition implements AgentRuns. *)

\* Whatever requests, the sweep, the graph and the tools do, the run rows and
\* their tasks see a step of AgentRuns or none.
LEMMA StepsRefine ==
    ASSUME [NextFlow]_vars
    PROVE  [Next]_runVars
<1>1. CASE UNCHANGED vars
  BY <1>1 DEF vars
<1>2. CASE \E r \in Run : RowStep(r) /\ UNCHANGED flowVars
  BY <1>2 DEF Next
<1>3. CASE \E r \in Run, t \in Task : ReserveExecution(r, t) /\ UNCHANGED flowVars
  BY <1>3 DEF Next
<1>4. CASE ListStale /\ UNCHANGED flowVars
  BY <1>4 DEF Next
<1>5. ASSUME NEW p \in Slot, RequestStep(p) PROVE [Next]_runVars
  <2>1. p[1] \in Run
    BY DEF Slot
  <2>2. ASSUME NEW t \in Task, QueueResume(p, t) PROVE [Next]_runVars
    BY <2>1, <2>2 DEF QueueResume, Next
  <2>3. CASE ~ \E t \in Task : QueueResume(p, t)
    <3>1. UNCHANGED runVars
      BY <1>5, <2>3, Zenon
         DEF RequestStep, QueueStep, DecideOpen, DecideCommit, DecideRollback,
             Replay, QueueRefused, RequestLost, ExpireOnRead
    <3> QED BY <3>1
  <2> QED BY <2>2, <2>3
<1>6. CASE SweepStep
  <2>1. CASE SweepExpire \/ \E r \in Run : SweepCheck(r) \/ SweepRefused(r)
    BY <2>1 DEF SweepExpire, SweepCheck, SweepRefused
  <2>2. CASE \E r \in Run, t \in Task : SweepQueue(r, t)
    BY <2>2 DEF SweepQueue, Next
  <2> QED BY <1>6, <2>1, <2>2 DEF SweepStep
<1>7. CASE SweepLost \/ \E r \in Run, i \in Interrupt : Due(r, i)
  BY <1>7 DEF SweepLost, Due
<1>8. ASSUME NEW t \in Task, PublishFlow(t) \/ GiveUpFlow(t) PROVE [Next]_runVars
  BY <1>8 DEF PublishFlow, GiveUpFlow, PublishStep, Next
<1>9. ASSUME NEW t \in Task, WorkerStepFlow(t) PROVE [Next]_runVars
  <2>1. CASE ToolStep(t)
    BY <2>1 DEF ToolStep, ToolBegin, ToolDone, ToolFails, ToolEnds
  <2>2. CASE DecisionsRefused(t) \/ ResumeRefused(t)
    BY <2>2 DEF DecisionsRefused, ResumeRefused, Fault, Next
  <2>3. CASE ~ (ToolStep(t) \/ DecisionsRefused(t) \/ ResumeRefused(t))
    <3>1. WorkerStep(t)
      BY <1>9, <2>3, Zenon
         DEF WorkerStepFlow, WorkerStep, TakeDecisionsFlow, BeginStreamFlow,
             EndStreamFlow, RaiseInterrupt, PersistInterruptFlow, NoInterruptFlow
    <3> QED BY <3>1 DEF Next
  <2> QED BY <2>1, <2>2, <2>3
<1>10. ASSUME NEW t \in Task, FaultFlow(t) PROVE [Next]_runVars
  BY <1>10 DEF FaultFlow, WorkerCrashFlow, Fault, Next
<1> QED BY <1>1, <1>2, <1>3, <1>4, <1>5, <1>6, <1>7, <1>8, <1>9, <1>10 DEF NextFlow

\* Approval, expiry and tools do nothing to runs and tasks that AgentRuns does
\* not allow.
THEOREM FlowImplementsRuns == SpecFlow => ImplementsAgentRuns
<1>1. InitFlow => Init
  BY DEF InitFlow
<1>2. [NextFlow]_vars => [Next]_runVars
  BY StepsRefine
<1> QED BY <1>1, <1>2, PTL DEF SpecFlow, ImplementsAgentRuns, Spec

\* So everything proved about AgentRuns holds of the composition.
LEMMA RunsInvariant == SpecFlow => []Inv
BY FlowImplementsRuns, Invariance, PTL DEF ImplementsAgentRuns

-----------------------------------------------------------------------------
(* Types *)

LEMMA SlotFields ==
    ASSUME NEW p \in Slot
    PROVE  /\ p[1] \in Run /\ p[2] \in Interrupt /\ p[3] \in Position
           /\ p = <<p[1], p[2], p[3]>>
BY DEF Slot

LEMMA SlotOfCall ==
    ASSUME NEW r \in Run, NEW c \in Call
    PROVE  /\ c[1] \in Interrupt /\ c[2] \in Position /\ c = <<c[1], c[2]>>
           /\ SlotOf(r, c) \in Slot
           /\ SlotOf(r, c)[1] = r /\ SlotOf(r, c)[2] = c[1] /\ SlotOf(r, c)[3] = c[2]
BY DEF Call, Slot, SlotOf

LEMMA WorkerHasJob ==
    ASSUME Inv, NEW t \in Task, pc[t] \in Live
    PROVE  /\ job[t] \in Job /\ job[t] # NoJob
           /\ job[t].run \in Run /\ job[t].kind \in {"execute", "resume"}
           /\ Executing(t, job[t].run)
<1>1. pc[t] # "unsent"
  BY DEF Live
<1>2. job[t] \in Job
  BY <1>1 DEF Inv, Sent
<1> QED BY <1>2, JobIsARecord DEF Executing, Of
LEMMA TypingFlow ==
    ASSUME Inv, TypeOKFlow, [NextFlow]_vars
    PROVE  TypeOKFlow'
<1>1. TypeOK'
  BY StepsRefine, Typing DEF Inv
<1> USE <1>1 DEF TypeOKFlow
<1>2. CASE UNCHANGED vars
  BY <1>2 DEF vars, flowVars, proposalVars, graphVars, requestVars, sweepVars, localVars
<1>3. CASE UNCHANGED flowVars
  BY <1>3 DEF flowVars, proposalVars, graphVars, requestVars, sweepVars, localVars
<1>4. ASSUME NEW p \in Slot, RequestStep(p) PROVE TypeOKFlow'
  <2> USE SlotFields, FlowAssumption
      DEF ProposalStatus, requestVars, sweepVars, graphVars, localVars
  <2>1. ASSUME NEW v \in Verdict, DecideOpen(p, v) PROVE TypeOKFlow'
    BY <2>1 DEF DecideOpen
  <2>2. CASE DecideCommit(p)
    BY <2>2 DEF DecideCommit
  <2>3. CASE DecideRollback(p)
    BY <2>3 DEF DecideRollback
  <2>4. CASE Replay(p)
    BY <2>4 DEF Replay
  <2>5. CASE QueueRefused(p)
    BY <2>5 DEF QueueRefused
  <2>6. ASSUME NEW t \in Task, QueueResume(p, t) PROVE TypeOKFlow'
    BY <2>6 DEF QueueResume
  <2>7. CASE RequestLost(p)
    BY <2>7 DEF RequestLost
  <2>8. CASE ExpireOnRead(p)
    BY <2>8 DEF ExpireOnRead, Expire
  <2> QED BY <1>4, <2>1, <2>2, <2>3, <2>4, <2>5, <2>6, <2>7, <2>8 DEF RequestStep, QueueStep
<1>5. CASE SweepStep
  <2> USE DEF ProposalStatus, requestVars, sweepVars, graphVars, localVars
  <2>1. CASE SweepExpire
    BY <2>1 DEF SweepExpire, Expire
  <2>2. ASSUME NEW r \in Run, SweepCheck(r) \/ SweepRefused(r) PROVE TypeOKFlow'
    BY <2>2 DEF SweepCheck, SweepRefused
  <2>3. ASSUME NEW r \in Run, NEW t \in Task, SweepQueue(r, t) PROVE TypeOKFlow'
    BY <2>3 DEF SweepQueue
  <2> QED BY <1>5, <2>1, <2>2, <2>3 DEF SweepStep
<1>6. CASE SweepLost
  BY <1>6, FlowAssumption DEF SweepLost, requestVars, graphVars, localVars
<1>7. ASSUME NEW r \in Run, NEW i \in Interrupt, Due(r, i) PROVE TypeOKFlow'
  BY <1>7 DEF Due, requestVars, sweepVars, graphVars, localVars
<1>8. ASSUME NEW t \in Task, PublishFlow(t) \/ GiveUpFlow(t) PROVE TypeOKFlow'
  BY <1>8 DEF PublishFlow, GiveUpFlow, requestVars, sweepVars, graphVars, localVars
<1>9. ASSUME NEW t \in Task, WorkerStepFlow(t) \/ FaultFlow(t) PROVE TypeOKFlow'
  <2> USE DEF proposalVars, requestVars, sweepVars, graphVars, localVars
  <2>1. CASE DecisionsRefused(t)
    BY <2>1, <1>3 DEF DecisionsRefused
  <2>2. CASE TakeDecisionsFlow(t)
    BY <2>2 DEF TakeDecisionsFlow, Unresumed
  <2>3. CASE BeginStreamFlow(t)
    <3>1. job[t].run \in Run
      BY <2>3, JobIsARecord DEF BeginStreamFlow, BeginStream, TypeOK
    <3>2. Thread(t) \in Conversation
      BY <3>1, FlowAssumption DEF Thread
    <3>3. thread' \in [Conversation -> Interrupt \union {NoInterruptYet}]
      BY <2>3 DEF BeginStreamFlow
    <3>4. taken' \in [Task -> SUBSET Slot]
      BY <2>3 DEF BeginStreamFlow
    <3>5. todo' \in [Task -> SUBSET Call]
      <4>1. CASE job[t].kind # "resume"
        BY <2>3, <4>1 DEF BeginStreamFlow
      <4>2. CASE job[t].kind = "resume"
        <5>1. thread[Thread(t)] \in Interrupt
          BY <2>3, <4>2, <3>2 DEF BeginStreamFlow, ResumeFits
        <5>2. \A p \in taken[t] : p[3] \in Position
          BY SlotFields
        <5>3. ApprovedCalls(t) \in SUBSET Call
          BY <5>1, <5>2 DEF ApprovedCalls, Call
        <5> QED BY <2>3, <4>2, <5>3 DEF BeginStreamFlow
      <4> QED BY <4>1, <4>2
    <3> QED BY <2>3, <3>3, <3>4, <3>5 DEF BeginStreamFlow
  <2>4. CASE ResumeRefused(t)
    BY <2>4 DEF ResumeRefused
  <2>5. ASSUME NEW c \in Call, ToolBegin(t, c) PROVE TypeOKFlow'
    BY <2>5 DEF ToolBegin, ProposalStatus
  <2>6. ASSUME NEW c \in Call, ToolDone(t, c) PROVE TypeOKFlow'
    <3>1. effects' \in [Call -> Nat]
      BY <2>6 DEF ToolDone
    <3>2. proposal' \in [Slot -> ProposalStatus] /\ active' \in [Task -> SUBSET Call]
      BY <2>6 DEF ToolDone, ToolEnds, ProposalStatus
    <3> QED BY <2>6, <3>1, <3>2 DEF ToolDone, ToolEnds
  <2>7. ASSUME NEW c \in Call, ToolFails(t, c) PROVE TypeOKFlow'
    <3>1. effects' \in [Call -> Nat]
      BY <2>7 DEF ToolFails
    <3>2. proposal' \in [Slot -> ProposalStatus] /\ active' \in [Task -> SUBSET Call]
      BY <2>7 DEF ToolFails, ToolEnds, ProposalStatus
    <3> QED BY <2>7, <3>1, <3>2 DEF ToolFails, ToolEnds
  <2>8. CASE LeaveFlow(t)
    BY <2>8 DEF LeaveFlow
  <2>9. CASE EndStreamFlow(t)
    BY <2>9 DEF EndStreamFlow
  <2>10. ASSUME NEW i \in Interrupt, RaiseInterrupt(t, i) PROVE TypeOKFlow'
    BY <2>10 DEF RaiseInterrupt
  <2>11. CASE PersistInterruptFlow(t)
    BY <2>11 DEF PersistInterruptFlow, ProposalStatus
  <2>12. CASE NoInterruptFlow(t)
    BY <2>12, <1>3 DEF NoInterruptFlow
  <2>13. CASE WorkerCrashFlow(t)
    BY <2>13 DEF WorkerCrashFlow
  <2> QED
    BY <1>3, <1>9, <2>1, <2>2, <2>3, <2>4, <2>5, <2>6, <2>7, <2>8, <2>9, <2>10, <2>11,
       <2>12, <2>13, Zenon
       DEF WorkerStepFlow, FaultFlow, ToolStep
<1> QED BY <1>2, <1>3, <1>4, <1>5, <1>6, <1>7, <1>8, <1>9, Zenon DEF NextFlow

-----------------------------------------------------------------------------
(* What a step can do to the rows, the runs and the graph, in the few ways *)
(* the invariant distinguishes.                                            *)

\* Requests and expiry: open rows are settled, nothing else the graph or its
\* runs see changes.
RowsSettle ==
    /\ UNCHANGED <<runVars, resumed, graphVars>>
    /\ \A p \in Slot :
        /\ proposal'[p] # proposal[p] =>
              /\ proposal[p] = "awaiting_approval"
              /\ proposal'[p] \in {"approved", "rejected", "expired"}
              /\ deciding'[p] = "none"
        /\ deciding'[p] # "none" =>
              deciding[p] # "none" \/ proposal[p] = "awaiting_approval"

RunsOnly(t) ==
    \/ PublishStep(t) \/ Claim(t) \/ Discard(t) \/ SetupRaises(t) \/ NoInterrupt(t)
    \/ WaitForApproval(t) \/ Complete(t) \/ Fail(t)
    \/ (pc[t] = "claimed" /\ Raise(t))

\* Steps of AgentRuns that neither the rows nor the graph take part in.
RowsRest ==
    /\ UNCHANGED <<proposal, resumed, deciding, graphVars>>
    /\ \/ \E r \in Run : RowStep(r)
       \/ ListStale
       \/ \E r \in Run, t \in Task : ReserveExecution(r, t) \/ ReserveResume(r, t)
       \/ \E t \in Task : RunsOnly(t)

\* A worker leaves the graph.
GraphLeft(t) ==
    /\ pc[t] \in Live
    /\ \E to \in {"done", "failing", "queued"} :
          /\ pc' = [pc EXCEPT ![t] = to]
          /\ to = "queued" => crashes' # 0
    /\ crashes' = 0 => crashes = 0
    /\ taken' = [taken EXCEPT ![t] = {}]
    /\ todo' = [todo EXCEPT ![t] = {}]
    /\ active' = [active EXCEPT ![t] = {}]
    /\ UNCHANGED <<rowVars, job, proposal, resumed, deciding, thread, raised, effects>>

GraphStep(t) ==
    \/ TakeDecisionsFlow(t) \/ BeginStreamFlow(t) \/ ToolStep(t)
    \/ EndStreamFlow(t) \/ \E i \in Interrupt : RaiseInterrupt(t, i)
    \/ PersistInterruptFlow(t) \/ GraphLeft(t)

Kinds ==
    \/ UNCHANGED vars
    \/ RowsSettle \/ RowsRest
    \/ \E t \in Task : GraphStep(t)

LEMMA RequestsSettle ==
    ASSUME TypeOKFlow, OpenDecisionsHoldTheirRow, NEW p \in Slot, RequestStep(p)
    PROVE  Kinds
<1> USE FlowAssumption DEF TypeOKFlow, graphVars, localVars, sweepVars, RowsSettle, Kinds
<1>1. ASSUME NEW v \in Verdict, DecideOpen(p, v) PROVE RowsSettle
  BY <1>1 DEF DecideOpen
<1>2. CASE DecideCommit(p)
  <2>1. deciding[p] \in {"approved", "rejected"} /\ proposal[p] = "awaiting_approval"
    BY <1>2 DEF DecideCommit, OpenDecisionsHoldTheirRow
  <2> QED BY <1>2, <2>1 DEF DecideCommit
<1>3. CASE DecideRollback(p)
  BY <1>3 DEF DecideRollback
<1>4. CASE Replay(p)
  BY <1>4 DEF Replay
<1>5. CASE QueueRefused(p)
  BY <1>5 DEF QueueRefused
<1>6. ASSUME NEW t \in Task, QueueResume(p, t) PROVE RowsRest
  BY <1>6, SlotFields DEF QueueResume, RowsRest
<1>7. CASE RequestLost(p)
  BY <1>7 DEF RequestLost
<1>8. CASE ExpireOnRead(p)
  BY <1>8 DEF ExpireOnRead, Expire, Expirable, requestVars
<1> QED
  BY <1>1, <1>2, <1>3, <1>4, <1>5, <1>6, <1>7, <1>8, Zenon
     DEF RequestStep, QueueStep

LEMMA StepKinds ==
    ASSUME Inv, TypeOKFlow, OpenDecisionsHoldTheirRow, CallsAreApproved, [NextFlow]_vars
    PROVE  Kinds
<1>1. CASE UNCHANGED vars
  BY <1>1 DEF Kinds
<1>2. CASE \/ \E r \in Run : RowStep(r) /\ UNCHANGED flowVars
           \/ \E r \in Run, t \in Task : ReserveExecution(r, t) /\ UNCHANGED flowVars
           \/ ListStale /\ UNCHANGED flowVars
  BY <1>2 DEF Kinds, RowsRest, flowVars, proposalVars, requestVars
<1>3. CASE \E p \in Slot : RequestStep(p)
  BY <1>3, RequestsSettle
<1>4. CASE SweepStep \/ SweepLost \/ \E r \in Run, i \in Interrupt : Due(r, i)
  <2>1. CASE SweepExpire
    BY <2>1 DEF SweepExpire, Expire, Expirable, RowsSettle, Kinds, requestVars, TypeOKFlow
  <2>2. CASE \/ \E r \in Run : SweepCheck(r) \/ SweepRefused(r)
             \/ SweepLost
             \/ \E r \in Run, i \in Interrupt : Due(r, i)
    BY <2>2 DEF SweepCheck, SweepRefused, SweepLost, Due, RowsSettle, Kinds, requestVars
  <2>3. CASE \E r \in Run, t \in Task : SweepQueue(r, t)
    BY <2>3 DEF SweepQueue, RowsRest, Kinds, requestVars
  <2> QED BY <1>4, <2>1, <2>2, <2>3 DEF SweepStep
<1>5. ASSUME NEW t \in Task, PublishFlow(t) \/ GiveUpFlow(t) PROVE Kinds
  BY <1>5 DEF PublishFlow, GiveUpFlow, PublishStep, RunsOnly, RowsRest, Kinds, requestVars
<1>6. ASSUME NEW t \in Task, WorkerStepFlow(t) \/ FaultFlow(t) PROVE Kinds
  <2>1. CASE /\ UNCHANGED flowVars
             /\ RunsOnly(t)
    BY <2>1 DEF Kinds, RowsRest, flowVars, proposalVars, requestVars
  <2>2. CASE DecisionsRefused(t) \/ NoInterruptFlow(t)
    BY <2>1, <2>2 DEF DecisionsRefused, NoInterruptFlow, RunsOnly
  <2>3. CASE LeaveFlow(t) /\ (SeeCancelled(t) \/ Raise(t))
    <3>1. GraphLeft(t)
      BY <2>3 DEF LeaveFlow, SeeCancelled, Raise, Goto, GraphLeft, Live, TypeOKFlow, TypeOK,
                  proposalVars, requestVars, budgetVars
    <3> QED BY <3>1 DEF Kinds, GraphStep
  <2>4. CASE ResumeRefused(t)
    <3>1. todo[t] = {} /\ active[t] = {}
      BY <2>4 DEF ResumeRefused, CallsAreApproved
    <3>2. GraphLeft(t)
      BY <2>4, <3>1 DEF ResumeRefused, Raise, Goto, GraphLeft, Live, TypeOKFlow, TypeOK,
                        proposalVars, requestVars, budgetVars
    <3> QED BY <3>2 DEF Kinds, GraphStep
  <2>5. CASE WorkerCrashFlow(t)
    <3>1. PICK to \in {"queued", "done"} : pc[t] \in Live /\ pc' = [pc EXCEPT ![t] = to]
      BY <2>5 DEF WorkerCrashFlow, WorkerCrash, Goto
    <3>2. crashes' # 0
      BY <2>5, ConstantsAssumption DEF WorkerCrashFlow, WorkerCrash, TypeOKFlow, TypeOK
    <3>3. GraphLeft(t)
      BY <2>5, <3>1, <3>2 DEF WorkerCrashFlow, WorkerCrash, GraphLeft, proposalVars, requestVars
    <3> QED BY <3>3 DEF Kinds, GraphStep
  <2>6. CASE ~ (\/ UNCHANGED flowVars \/ ResumeRefused(t) \/ WorkerCrashFlow(t) \/ LeaveFlow(t))
    <3>1. GraphStep(t)
      BY <1>6, <2>6, Zenon
         DEF WorkerStepFlow, FaultFlow, GraphStep, DecisionsRefused, NoInterruptFlow
    <3> QED BY <3>1 DEF Kinds
  <2> QED
    BY <1>6, <2>1, <2>2, <2>3, <2>4, <2>5, Zenon
       DEF WorkerStepFlow, FaultFlow, RunsOnly, GraphStep, Kinds
<1> QED BY <1>1, <1>2, <1>3, <1>4, <1>5, <1>6, Zenon DEF NextFlow

-----------------------------------------------------------------------------
(* The inductive invariant, for runs that have their conversations to      *)
(* themselves.                                                             *)

IInvFlow ==
    /\ Inv
    /\ TypeOKFlow
    /\ RowsAreRaised
    /\ IsFiniteSet(raised)
    /\ InterruptsHaveOneRun
    /\ OpenDecisionsHoldTheirRow
    /\ HandedOnIsSettled
    /\ NewInterruptsHaveNoRows
    /\ ParkedRunsAreAsked
    /\ DecisionsAreHeld
    /\ CallsAreApproved
    /\ EffectsHappenOnce

\* What a step of a worker in its graph leaves alone.
LEMMA GraphFrame ==
    ASSUME Inv, TypeOKFlow, CallsAreApproved, NEW t \in Task, GraphStep(t)
    PROVE  /\ pc[t] \in Live
           /\ UNCHANGED <<status, taskId, job, deciding>>
           /\ crashes' = 0 => crashes = 0
           /\ \A u \in Task : u # t =>
                 /\ pc'[u] = pc[u] /\ taken'[u] = taken[u]
                 /\ todo'[u] = todo[u] /\ active'[u] = active[u]
<1> USE DEF TypeOKFlow, TypeOK, Goto, Live, rowVars, budgetVars, runVars, proposalVars,
            requestVars, sweepVars, localVars
<1>1. CASE TakeDecisionsFlow(t)
  BY <1>1 DEF TakeDecisionsFlow, TakeDecisions
<1>2. CASE BeginStreamFlow(t)
  BY <1>2 DEF BeginStreamFlow, BeginStream
<1>3. CASE ToolStep(t)
  <2>1. ASSUME NEW c \in Call, ToolBegin(t, c)
        PROVE  /\ pc[t] = "streaming" /\ UNCHANGED <<runVars, deciding>>
               /\ taken' = taken /\ todo' = [todo EXCEPT ![t] = @ \ {c}]
               /\ active' = [active EXCEPT ![t] = @ \union {c}]
    BY <2>1 DEF ToolBegin
  <2>2. ASSUME NEW c \in Call, ToolDone(t, c) \/ ToolFails(t, c)
        PROVE  /\ pc[t] = "streaming" /\ UNCHANGED <<runVars, deciding>>
               /\ taken' = taken /\ todo' = todo
               /\ active' = [active EXCEPT ![t] = @ \ {c}]
    BY <2>2 DEF ToolDone, ToolFails, ToolEnds, CallsAreApproved
  <2> QED BY <1>3, <2>1, <2>2 DEF ToolStep
<1>4. CASE EndStreamFlow(t) \/ \E i \in Interrupt : RaiseInterrupt(t, i)
  BY <1>4 DEF EndStreamFlow, RaiseInterrupt, EndStream
<1>5. CASE PersistInterruptFlow(t)
  BY <1>5 DEF PersistInterruptFlow, PersistInterrupt, graphVars
<1>6. CASE GraphLeft(t)
  BY <1>6 DEF GraphLeft
<1> QED BY <1>1, <1>2, <1>3, <1>4, <1>5, <1>6 DEF GraphStep

\* What a step that is not of rows or graph does to a run and its worker.
LEMMA RestFrame ==
    ASSUME Inv, RowsRest
    PROVE  /\ \A t \in Task : pc[t] \in Live => job'[t] = job[t]
           /\ \A t \in Task : pc[t] \in {"decided", "streaming"} => pc'[t] = pc[t]
           /\ \A t \in Task : pc'[t] \in {"decided", "streaming", "ended", "persisted"} =>
                 pc[t] = pc'[t]
           /\ \A t \in Task : pc'[t] = "claimed" =>
                 job'[t] = job[t] /\ (pc[t] = "claimed" \/ Claim(t))
           /\ \A r \in Run : status'[r] = "waiting_approval" =>
                 \/ status[r] = "waiting_approval"
                 \/ \E t \in Task : Executing(t, r) /\ pc[t] = "persisted"
<1> USE DEF Inv, TypeOK, Goto, Live, rowVars, jobVars, budgetVars
<1>1. CASE (\E r \in Run : RowStep(r)) \/ ListStale
  <2>1. UNCHANGED <<pc, job>>
    BY <1>1 DEF RowStep, Start, Cancel, Age, FailStale, ListStale
  <2>2. ASSUME NEW r \in Run, RowStep(r), NEW q \in Run, status'[q] = "waiting_approval"
        PROVE  status[q] = "waiting_approval"
    BY <2>2 DEF RowStep, Start, Cancel, Age, FailStale, FailRow
  <2>3. \A r \in Run : status'[r] = "waiting_approval" => status[r] = "waiting_approval"
    BY <1>1, <2>2 DEF ListStale
  <2> QED BY <2>1, <2>3
<1>2. ASSUME NEW r \in Run, NEW t \in Task, ReserveExecution(r, t) \/ ReserveResume(r, t)
      PROVE  /\ UNCHANGED <<status, pc>>
             /\ \A u \in Task : u # t => job'[u] = job[u]
             /\ pc[t] = "unsent"
  <2>1. Fresh(t) /\ UNCHANGED <<status, pc>> /\ \A u \in Task : u # t => job'[u] = job[u]
    BY <1>2 DEF ReserveExecution, ReserveResume, Reserve
  <2>2. pc[t] = "unsent"
    BY <2>1, JobIsARecord DEF Fresh, Sent
  <2> QED BY <2>1, <2>2
<1>3. ASSUME NEW t \in Task, PublishStep(t)
      PROVE  /\ UNCHANGED <<status, job>>
             /\ \A u \in Task : u # t => pc'[u] = pc[u]
             /\ pc'[t] # pc[t] => pc[t] = "unsent" /\ pc'[t] = "queued"
  BY <1>3 DEF PublishStep, Publish, PublishRaises, Release, CallerCrash, PublishedOnce
<1>4. ASSUME NEW t \in Task, Claim(t)
      PROVE  /\ job' = job /\ pc[t] = "queued" /\ pc'[t] = "claimed"
             /\ \A u \in Task : u # t => pc'[u] = pc[u]
             /\ \A r \in Run : status'[r] = "waiting_approval" => status[r] = "waiting_approval"
  BY <1>4 DEF Claim
<1>5. ASSUME NEW t \in Task,
             \/ Discard(t) \/ SetupRaises(t) \/ NoInterrupt(t)
             \/ Complete(t) \/ Fail(t) \/ (pc[t] = "claimed" /\ Raise(t))
      PROVE  /\ job' = job /\ pc[t] \notin {"decided", "streaming"}
             /\ pc'[t] \in {"done", "finishing", "failing"}
             /\ \A u \in Task : u # t => pc'[u] = pc[u]
             /\ \A r \in Run : status'[r] = "waiting_approval" => status[r] = "waiting_approval"
  BY <1>5 DEF Discard, SetupRaises, NoInterrupt, Complete, Fail, FailRow, Raise
<1>6. ASSUME NEW t \in Task, WaitForApproval(t)
      PROVE  /\ job' = job /\ pc[t] = "persisted" /\ pc'[t] = "done"
             /\ \A u \in Task : u # t => pc'[u] = pc[u]
             /\ \A r \in Run : status'[r] = "waiting_approval" =>
                   status[r] = "waiting_approval" \/ Executing(t, r)
  <2>1. Executing(t, job[t].run)
    BY <1>6, WorkerHasJob DEF WaitForApproval
  <2> QED BY <1>6, <2>1 DEF WaitForApproval
<1>7. ASSUME NEW t \in Task, RunsOnly(t)
      PROVE  \/ PublishStep(t) \/ Claim(t) \/ WaitForApproval(t)
             \/ Discard(t) \/ SetupRaises(t) \/ NoInterrupt(t)
             \/ Complete(t) \/ Fail(t) \/ (pc[t] = "claimed" /\ Raise(t))
  BY <1>7 DEF RunsOnly
<1>8. CASE \E r \in Run, t \in Task : ReserveExecution(r, t) \/ ReserveResume(r, t)
  BY <1>2, <1>8
<1>9. CASE \E t \in Task : RunsOnly(t)
  <2>1. PICK t \in Task : RunsOnly(t)
    BY <1>9
  <2>2. CASE PublishStep(t)
    <3>1. /\ UNCHANGED <<status, job>>
          /\ \A u \in Task : pc'[u] = pc[u] \/ (pc[u] = "unsent" /\ pc'[u] = "queued")
      BY <2>2, <1>3
    <3> QED BY <3>1
  <2>3. CASE Claim(t)
    BY <2>3, <1>4
  <2>4. CASE WaitForApproval(t)
    BY <2>4, <1>6
  <2>5. CASE \/ Discard(t) \/ SetupRaises(t) \/ NoInterrupt(t)
             \/ Complete(t) \/ Fail(t) \/ (pc[t] = "claimed" /\ Raise(t))
    BY <2>5, <1>5
  <2> QED BY <2>1, <1>7, <2>2, <2>3, <2>4, <2>5
<1> QED BY <1>1, <1>8, <1>9 DEF RowsRest

LEMMA AtThread ==
    ASSUME Inv, NEW t \in Task, pc[t] \in Live
    PROVE  /\ job[t].run \in Run
           /\ Thread(t) = ConversationOf[job[t].run] /\ Thread(t) \in Conversation
BY WorkerHasJob, FlowAssumption DEF Thread

\* Workers that are at work have different runs.
LEMMA OtherRun ==
    ASSUME Inv, NEW t \in Task, NEW u \in Task, pc[t] \in Live, pc[u] \in Live, u # t
    PROVE  job[u].run # job[t].run
BY DEF Inv, OneWorkerPerRun

\* How a step in the graph changes rows.
LEMMA GraphRows ==
    ASSUME Inv, TypeOKFlow, CallsAreApproved, NEW t \in Task, GraphStep(t)
    PROVE  /\ \A p \in Slot : proposal'[p] # proposal[p] =>
                 /\ p[1] = job[t].run
                 /\ \/ /\ PersistInterruptFlow(t) /\ p[2] = thread[Thread(t)]
                       /\ proposal[p] = "none" /\ proposal'[p] = "awaiting_approval"
                    \/ /\ ToolStep(t) /\ p \in resumed
                       /\ \/ proposal[p] = "approved" /\ proposal'[p] = "executing"
                          \/ proposal[p] = "executing" /\ proposal'[p] \in {"executed", "failed"}
           /\ \A p \in Slot : p \in resumed' \ resumed => p[1] = job[t].run
<1> USE DEF TypeOKFlow, proposalVars, graphVars
<1>1. CASE TakeDecisionsFlow(t)
  BY <1>1 DEF TakeDecisionsFlow, Unresumed
<1>2. CASE \/ BeginStreamFlow(t) \/ EndStreamFlow(t) \/ GraphLeft(t)
           \/ \E i \in Interrupt : RaiseInterrupt(t, i)
  BY <1>2 DEF BeginStreamFlow, EndStreamFlow, RaiseInterrupt, GraphLeft
<1>3. CASE PersistInterruptFlow(t)
  BY <1>3 DEF PersistInterruptFlow
<1>4. CASE ToolStep(t)
  <2>0. job[t].run \in Run
    BY GraphFrame, WorkerHasJob
  <2>1. PICK c \in Call : ToolBegin(t, c) \/ ToolDone(t, c) \/ ToolFails(t, c)
    BY <1>4 DEF ToolStep
  <2> DEFINE s == SlotOf(job[t].run, c)
  <2>2. s \in Slot /\ s[1] = job[t].run
    BY <2>0, SlotOfCall
  <2>3. CASE ToolBegin(t, c)
    BY <1>4, <2>2, <2>3 DEF ToolBegin
  <2>4. CASE ToolDone(t, c) \/ ToolFails(t, c)
    <3>1. s \in resumed /\ proposal[s] = "executing"
      BY <2>4 DEF ToolDone, ToolFails, ToolEnds, CallsAreApproved
    <3> QED BY <1>4, <2>2, <2>4, <3>1 DEF ToolDone, ToolFails, ToolEnds
  <2> QED BY <2>1, <2>3, <2>4
<1> QED BY <1>1, <1>2, <1>3, <1>4 DEF GraphStep

\* How it changes threads.
LEMMA GraphThreads ==
    ASSUME Inv, TypeOKFlow, CallsAreApproved, NEW t \in Task, GraphStep(t)
    PROVE  /\ \A c \in Conversation : c # Thread(t) => thread'[c] = thread[c]
           /\ \/ thread' = thread /\ raised' = raised
              \/ (BeginStreamFlow(t) \/ EndStreamFlow(t)) /\ raised' = raised
                 /\ thread'[Thread(t)] = NoInterruptYet
              \/ \E i \in Interrupt \ raised :
                    RaiseInterrupt(t, i) /\ raised' = raised \union {i}
                    /\ thread'[Thread(t)] = i
<1>0. Thread(t) \in Conversation
  BY GraphFrame, AtThread
<1>1. CASE TakeDecisionsFlow(t) \/ GraphLeft(t)
  BY <1>1 DEF TakeDecisionsFlow, GraphLeft
<1>2. CASE PersistInterruptFlow(t)
  BY <1>2 DEF PersistInterruptFlow, graphVars
<1>3. CASE ToolStep(t)
  BY <1>3 DEF ToolStep, ToolBegin, ToolDone, ToolFails, ToolEnds
<1>4. CASE BeginStreamFlow(t) \/ EndStreamFlow(t)
  BY <1>0, <1>4 DEF BeginStreamFlow, EndStreamFlow, TypeOKFlow
<1>5. CASE \E i \in Interrupt : RaiseInterrupt(t, i)
  BY <1>0, <1>5 DEF RaiseInterrupt, TypeOKFlow
<1> QED BY <1>1, <1>2, <1>3, <1>4, <1>5 DEF GraphStep

-----------------------------------------------------------------------------
(* Each part of it after a step. *)

LEMMA RowsStayRaised ==
    ASSUME IInvFlow, Kinds
    PROVE  RowsAreRaised' /\ IsFiniteSet(raised)'
<1> USE DEF IInvFlow, RowsAreRaised, TypeOKFlow
<1>1. CASE UNCHANGED vars \/ RowsRest \/ RowsSettle
  BY <1>1 DEF vars, flowVars, proposalVars, graphVars, RowsRest, RowsSettle
<1>2. ASSUME NEW t \in Task, GraphStep(t) PROVE RowsAreRaised' /\ IsFiniteSet(raised)'
  <2>1. raised' = raised \/ \E i \in Interrupt : raised' = raised \union {i}
    BY <1>2, GraphThreads
  <2>2. IsFiniteSet(raised)'
    BY <2>1, FS_AddElement
  <2>3. \A c \in Conversation : thread'[c] \in raised' \union {NoInterruptYet}
    BY <1>2, GraphThreads
  <2>4. \A p \in Slot : proposal'[p] # "none" => p[2] \in raised
    <3>1. thread[Thread(t)] \in raised \union {NoInterruptYet}
      BY <1>2, GraphFrame, AtThread
    <3>2. PersistInterruptFlow(t) => thread[Thread(t)] \in raised
      BY <3>1 DEF PersistInterruptFlow
    <3> QED BY <1>2, <3>2, GraphRows
  <2> QED BY <2>1, <2>2, <2>3, <2>4
<1> QED BY <1>1, <1>2 DEF Kinds

LEMMA InterruptsKeepTheirRun ==
    ASSUME IInvFlow, OneRunPerConversation, Kinds
    PROVE  InterruptsHaveOneRun'
<1> USE DEF IInvFlow, InterruptsHaveOneRun
<1>1. CASE UNCHANGED vars \/ RowsRest
  <2>1. proposal' = proposal /\ thread' = thread
    BY <1>1 DEF vars, flowVars, proposalVars, graphVars, RowsRest
  <2>2. \A r \in Run, i \in Interrupt : Knows(r, i)' <=> Knows(r, i)
    BY <2>1 DEF Knows
  <2> QED BY <2>2
<1>2. CASE RowsSettle
  <2>1. ASSUME NEW r \in Run, NEW i \in Interrupt, Knows(r, i)' PROVE Knows(r, i)
    <3>1. CASE thread'[ConversationOf[r]] = i
      BY <1>2, <3>1 DEF RowsSettle, Knows, graphVars
    <3>2. ASSUME NEW n \in Position, proposal'[<<r, i, n>>] # "none"
          PROVE  Knows(r, i)
      <4>1. <<r, i, n>> \in Slot
        BY DEF Slot
      <4>2. proposal[<<r, i, n>>] # "none"
        BY <1>2, <3>2, <4>1 DEF RowsSettle
      <4> QED BY <4>2 DEF Knows
    <3> QED BY <2>1, <3>1, <3>2 DEF Knows
  <2> QED BY <2>1
<1>3. ASSUME NEW t \in Task, GraphStep(t) PROVE InterruptsHaveOneRun'
  <2>1. job[t].run \in Run /\ Thread(t) = ConversationOf[job[t].run]
    BY <1>3, GraphFrame, AtThread
  <2>2. ASSUME NEW r \in Run, NEW i \in Interrupt, Knows(r, i)',
               ~ \E j \in Interrupt \ raised : RaiseInterrupt(t, j)
        PROVE  Knows(r, i)
    <3>1. thread'[ConversationOf[r]] = i => Knows(r, i)
      BY <1>3, <2>2, GraphThreads, FlowAssumption DEF Knows
    <3>2. ASSUME NEW n \in Position, proposal'[<<r, i, n>>] # "none" PROVE Knows(r, i)
      <4>1. <<r, i, n>> \in Slot
        BY DEF Slot
      <4> QED BY <1>3, <2>1, <3>2, <4>1, GraphRows DEF Knows
    <3> QED BY <2>2, <3>1, <3>2 DEF Knows
  <2>3. ASSUME NEW j \in Interrupt \ raised, RaiseInterrupt(t, j) PROVE InterruptsHaveOneRun'
    <3>1. proposal' = proposal /\ thread' = [thread EXCEPT ![Thread(t)] = j]
      BY <2>3 DEF RaiseInterrupt, proposalVars
    <3>2. ASSUME NEW r \in Run, Knows(r, j)' PROVE r = job[t].run
      <4>1. \A n \in Position : <<r, j, n>> \in Slot
        BY DEF Slot
      <4>2. thread'[ConversationOf[r]] = j
        BY <3>1, <3>2, <4>1 DEF Knows, RowsAreRaised
      <4>3. thread[ConversationOf[r]] # j
        BY FlowAssumption DEF RowsAreRaised
      <4> QED BY <2>1, <3>1, <4>2, <4>3 DEF OneRunPerConversation
    <3>3. ASSUME NEW r \in Run, NEW i \in Interrupt, i # j, Knows(r, i)' PROVE Knows(r, i)
      <4>1. ConversationOf[r] \in Conversation /\ Thread(t) \in Conversation
        BY <2>1, FlowAssumption
      <4> QED BY <3>1, <3>3, <4>1 DEF Knows, TypeOKFlow
    <3> QED BY <3>2, <3>3
  <2> QED BY <2>2, <2>3
<1> QED BY <1>1, <1>2, <1>3 DEF Kinds

LEMMA OpenDecisionsStay ==
    ASSUME IInvFlow, Kinds
    PROVE  OpenDecisionsHoldTheirRow'
<1> USE DEF IInvFlow, OpenDecisionsHoldTheirRow
<1>1. CASE UNCHANGED vars \/ RowsRest
  BY <1>1 DEF vars, flowVars, proposalVars, requestVars, RowsRest
<1>2. CASE RowsSettle
  BY <1>2 DEF RowsSettle
<1>3. ASSUME NEW t \in Task, GraphStep(t) PROVE OpenDecisionsHoldTheirRow'
  BY <1>3, GraphFrame, GraphRows
<1> QED BY <1>1, <1>2, <1>3 DEF Kinds

LEMMA HandedOnStaysSettled ==
    ASSUME IInvFlow, Kinds
    PROVE  HandedOnIsSettled'
<1> USE DEF IInvFlow, HandedOnIsSettled
<1>1. CASE UNCHANGED vars \/ RowsRest
  BY <1>1 DEF vars, flowVars, proposalVars, RowsRest
<1>2. CASE RowsSettle
  BY <1>2 DEF RowsSettle
<1>3. ASSUME NEW t \in Task, GraphStep(t) PROVE HandedOnIsSettled'
  <2>1. CASE TakeDecisionsFlow(t)
    BY <2>1 DEF TakeDecisionsFlow, Ready, Undecided, Unresumed
  <2>2. CASE ~ TakeDecisionsFlow(t)
    <3>1. resumed' = resumed
      BY <1>3, <2>2
         DEF GraphStep, BeginStreamFlow, ToolStep, ToolBegin, ToolDone, ToolFails, ToolEnds,
             EndStreamFlow, RaiseInterrupt, PersistInterruptFlow, GraphLeft, proposalVars
    <3> QED BY <1>3, <3>1, GraphRows
  <2> QED BY <2>1, <2>2
<1> QED BY <1>1, <1>2, <1>3 DEF Kinds

\* Rows and thread of a run that the step is not about stay as they are.
LEMMA OtherRunsKeepTheirRows ==
    ASSUME IInvFlow, OneRunPerConversation, NEW t \in Task, GraphStep(t),
           NEW r \in Run, r # job[t].run
    PROVE  /\ thread'[ConversationOf[r]] = thread[ConversationOf[r]]
           /\ Asked(r)' = Asked(r)
           /\ \A p \in Slot : p[1] = r =>
                 proposal'[p] = proposal[p] /\ (p \in resumed' => p \in resumed)
<1>1. Thread(t) = ConversationOf[job[t].run] /\ job[t].run \in Run
  BY GraphFrame, AtThread DEF IInvFlow
<1>2. ConversationOf[r] \in Conversation /\ ConversationOf[r] # Thread(t)
  BY <1>1, FlowAssumption DEF OneRunPerConversation
<1>3. thread'[ConversationOf[r]] = thread[ConversationOf[r]]
  BY <1>2, GraphThreads DEF IInvFlow
<1>4. \A p \in Slot : p[1] = r =>
         proposal'[p] = proposal[p] /\ (p \in resumed' => p \in resumed)
  BY GraphRows DEF IInvFlow
<1> QED BY <1>3, <1>4 DEF Asked

LEMMA AskedAreSlots ==
    ASSUME TypeOKFlow, NEW r \in Run, thread[ConversationOf[r]] # NoInterruptYet
    PROVE  /\ thread[ConversationOf[r]] \in Interrupt
           /\ \A p \in Asked(r) :
                 p \in Slot /\ p[1] = r /\ p[2] = thread[ConversationOf[r]]
<1>1. thread[ConversationOf[r]] \in Interrupt
  BY FlowAssumption DEF TypeOKFlow
<1> QED BY <1>1 DEF Asked, Slot

LEMMA NewInterruptsStayNew ==
    ASSUME IInvFlow, OneRunPerConversation, Kinds, TypeOKFlow'
    PROVE  NewInterruptsHaveNoRows'
<1> SUFFICES ASSUME NEW u \in Task, pc'[u] = "ended", thread'[Thread(u)'] # NoInterruptYet,
                    NEW p \in Asked(job[u].run)'
             PROVE  proposal'[p] = "none"
  BY DEF NewInterruptsHaveNoRows
<1> USE DEF IInvFlow
<1>1. CASE UNCHANGED vars
  BY <1>1 DEF vars, runVars, flowVars, proposalVars, graphVars, Asked, Thread,
              NewInterruptsHaveNoRows
<1>2. CASE RowsRest
  <2>1. pc[u] = "ended" /\ job'[u] = job[u]
    BY <1>2, RestFrame DEF Live
  <2> QED BY <1>2, <2>1 DEF RowsRest, graphVars, Asked, Thread, NewInterruptsHaveNoRows
<1>3. CASE RowsSettle
  <2>1. pc[u] = "ended" /\ job' = job /\ thread' = thread
    BY <1>3 DEF RowsSettle, runVars, graphVars
  <2>2. job[u].run \in Run /\ thread[Thread(u)] # NoInterruptYet /\ p \in Asked(job[u].run)
        /\ Thread(u) = ConversationOf[job[u].run]
    BY <2>1, AtThread DEF Asked, Thread, Live
  <2>3. proposal[p] = "none" /\ p \in Slot
    BY <2>1, <2>2, AskedAreSlots DEF NewInterruptsHaveNoRows
  <2> QED BY <1>3, <2>3 DEF RowsSettle
<1>4. ASSUME NEW t \in Task, GraphStep(t) PROVE proposal'[p] = "none"
  <2>0. job' = job /\ job[t].run \in Run /\ Thread(t) = ConversationOf[job[t].run]
    BY <1>4, GraphFrame, AtThread
  <2>1. CASE u # t
    <3>1. pc[u] = "ended" /\ pc[u] \in Live /\ pc[t] \in Live
      BY <1>4, <2>1, GraphFrame DEF Live
    <3>2. job[u].run \in Run /\ job[u].run # job[t].run /\ Thread(u) = ConversationOf[job[u].run]
      BY <2>1, <3>1, OtherRun, AtThread
    <3>3. thread[Thread(u)] # NoInterruptYet /\ p \in Asked(job[u].run)
      BY <1>4, <2>0, <3>2, OtherRunsKeepTheirRows DEF Thread
    <3>4. proposal[p] = "none" /\ p \in Slot /\ p[1] = job[u].run
      BY <3>1, <3>2, <3>3, AskedAreSlots DEF NewInterruptsHaveNoRows
    <3> QED BY <1>4, <3>2, <3>4, OtherRunsKeepTheirRows
  <2>2. CASE u = t
    <3>1. \/ EndStreamFlow(t) \/ \E i \in Interrupt : RaiseInterrupt(t, i)
      BY <1>4, <2>2
         DEF GraphStep, TakeDecisionsFlow, TakeDecisions, BeginStreamFlow, BeginStream,
             PersistInterruptFlow, PersistInterrupt, Goto, GraphLeft, ToolStep, ToolBegin,
             ToolDone, ToolFails, ToolEnds, CallsAreApproved, runVars, TypeOKFlow, TypeOK
    <3>2. ~ EndStreamFlow(t)
      BY <2>0, <2>2, <1>4, GraphFrame, AtThread DEF EndStreamFlow, TypeOKFlow, Thread
    <3>3. PICK i \in Interrupt \ raised : RaiseInterrupt(t, i)
      BY <3>1, <3>2 DEF RaiseInterrupt
    <3>4. proposal' = proposal /\ thread'[Thread(t)] = i
      BY <3>3, <1>4, GraphFrame, AtThread DEF RaiseInterrupt, proposalVars, TypeOKFlow
    <3>5. p \in Slot /\ p[2] = i
      BY <2>0, <2>2, <3>4 DEF Asked, Slot
    <3> QED BY <3>3, <3>4, <3>5 DEF RowsAreRaised
  <2> QED BY <2>1, <2>2
<1> QED BY <1>1, <1>2, <1>3, <1>4 DEF Kinds

LEMMA ParkedStayAsked ==
    ASSUME IInvFlow, OneRunPerConversation, Kinds
    PROVE  ParkedRunsAreAsked'
<1> SUFFICES ASSUME NEW r \in Run, Parked(r)'
             PROVE  /\ thread'[ConversationOf[r]] # NoInterruptYet
                    /\ \A p \in Asked(r)' : proposal'[p] # "none" /\ p \notin resumed'
  BY DEF ParkedRunsAreAsked
<1> USE DEF IInvFlow
<1>1. CASE UNCHANGED vars
  BY <1>1 DEF vars, runVars, flowVars, proposalVars, graphVars, Asked, Parked, Executing, Of,
              ParkedRunsAreAsked
<1>2. CASE RowsRest
  <2>1. CASE status'[r] = "waiting_approval"
    BY <1>2, <2>1, RestFrame DEF Parked, RowsRest, graphVars, Asked, ParkedRunsAreAsked
  <2>2. CASE status'[r] # "waiting_approval"
    <3>1. PICK u \in Task : /\ Executing(u, r)'
                            /\ \/ pc'[u] = "persisted"
                               \/ pc'[u] = "claimed" /\ job'[u].kind = "resume"
      BY <2>2 DEF Parked
    <3>2. job'[u] = job[u]
      BY <1>2, <3>1, RestFrame DEF Live
    <3>3. CASE pc[u] = pc'[u]
      <4>1. Parked(r)
        BY <3>1, <3>2, <3>3 DEF Parked, Executing, Of
      <4> QED BY <1>2, <4>1 DEF RowsRest, graphVars, Asked, ParkedRunsAreAsked
    <3>4. CASE Claim(u)
      <4>1. job[u].run = r /\ job[u].kind = "resume"
        BY <3>1, <3>2, <3>4 DEF Executing, Of, Claim, Goto, Inv, TypeOK
      <4>2. status[r] = "waiting_approval"
        BY <3>4, <4>1 DEF Claim, Claimable
      <4> QED BY <1>2, <4>2 DEF Parked, RowsRest, graphVars, Asked, ParkedRunsAreAsked
    <3> QED BY <1>2, <3>1, <3>3, <3>4, RestFrame
  <2> QED BY <2>1, <2>2
<1>3. CASE RowsSettle
  <2>1. Parked(r) /\ UNCHANGED <<thread, resumed>> /\ Asked(r)' = Asked(r)
    BY <1>3 DEF RowsSettle, Parked, Executing, Of, Asked, runVars, graphVars
  <2>2. thread[ConversationOf[r]] # NoInterruptYet
    BY <2>1 DEF ParkedRunsAreAsked
  <2>3. \A p \in Asked(r) : p \in Slot /\ proposal[p] # "none" /\ p \notin resumed
    BY <2>1, <2>2, AskedAreSlots DEF ParkedRunsAreAsked
  <2> QED BY <1>3, <2>1, <2>2, <2>3 DEF RowsSettle
<1>4. ASSUME NEW t \in Task, GraphStep(t)
      PROVE  /\ thread'[ConversationOf[r]] # NoInterruptYet
             /\ \A p \in Asked(r)' : proposal'[p] # "none" /\ p \notin resumed'
  <2>0. /\ job' = job /\ status' = status /\ pc[t] \in Live
        /\ job[t].run \in Run /\ Thread(t) = ConversationOf[job[t].run]
    BY <1>4, GraphFrame, AtThread
  <2>1. CASE r # job[t].run
    <3>1. Parked(r)
      BY <1>4, <2>0, <2>1, GraphFrame DEF Parked, Executing, Of
    <3>2. thread[ConversationOf[r]] # NoInterruptYet
      BY <3>1 DEF ParkedRunsAreAsked
    <3>3. \A p \in Asked(r) : p \in Slot /\ p[1] = r /\ proposal[p] # "none" /\ p \notin resumed
      BY <3>1, <3>2, AskedAreSlots DEF ParkedRunsAreAsked
    <3> QED BY <1>4, <2>1, <3>2, <3>3, OtherRunsKeepTheirRows
  <2>2. CASE r = job[t].run
    <3>1. status[r] # "waiting_approval"
      BY <2>0, <2>2 DEF Inv, WorkersHoldTheirRow
    <3>2. PICK u \in Task : /\ Executing(u, r)'
                            /\ \/ pc'[u] = "persisted"
                               \/ pc'[u] = "claimed" /\ job'[u].kind = "resume"
      BY <2>0, <3>1 DEF Parked
    <3>3. u = t
      <4>1. CASE u # t
        <5>1. pc[u] \in Live /\ job[u].run = r
          BY <1>4, <2>0, <3>2, <4>1, GraphFrame DEF Executing, Of
        <5> QED BY <2>0, <2>2, <5>1, OtherRun
      <4> QED BY <4>1
    <3>4. PersistInterruptFlow(t)
      BY <1>4, <3>2, <3>3
         DEF GraphStep, TakeDecisionsFlow, TakeDecisions, BeginStreamFlow, BeginStream,
             EndStreamFlow, RaiseInterrupt, EndStream, Goto, GraphLeft, ToolStep, ToolBegin,
             ToolDone, ToolFails, ToolEnds, CallsAreApproved, runVars, TypeOKFlow, TypeOK
    <3>5. pc[t] = "ended" /\ thread[Thread(t)] # NoInterruptYet /\ UNCHANGED <<thread, resumed>>
      BY <3>4 DEF PersistInterruptFlow, PersistInterrupt, Goto, graphVars
    <3>6. \A p \in Asked(r) : /\ p \in Slot /\ p[1] = r /\ p[2] = thread[Thread(t)]
                              /\ proposal[p] = "none" /\ p \notin resumed
      BY <2>0, <2>2, <3>5, AskedAreSlots DEF NewInterruptsHaveNoRows, HandedOnIsSettled
    <3>7. Asked(r)' = Asked(r)
      BY <3>5 DEF Asked
    <3> QED BY <2>0, <2>2, <3>4, <3>5, <3>6, <3>7 DEF PersistInterruptFlow
  <2> QED BY <2>1, <2>2
<1> QED BY <1>1, <1>2, <1>3, <1>4 DEF Kinds

\* A resumption that fits hands the graph exactly the rows of the interrupt it
\* waits on: they are among those taken, and there are no more of those.
LEMMA FittingDecisions ==
    ASSUME IInvFlow, NEW t \in Task, pc[t] = "decided", ResumeFits(t)
    PROVE  taken[t] = Asked(job[t].run)
<1> DEFINE r == job[t].run
           i == thread[ConversationOf[r]]
<1> USE DEF IInvFlow
<1>1. r \in Run /\ Thread(t) = ConversationOf[r] /\ i # NoInterruptYet
  BY AtThread DEF Live, ResumeFits
<1>2. Asked(r) \subseteq taken[t]
  BY DEF DecisionsAreHeld
<1>3. IsFiniteSet(taken[t])
  <2>1. IsFiniteSet({r} \X raised)
    BY FS_Singleton, FS_Product
  <2>2. IsFiniteSet(({r} \X raised) \X Position)
    BY <2>1, FS_Product, FlowAssumption
  <2> DEFINE f == [p \in taken[t] |-> <<<<p[1], p[2]>>, p[3]>>]
  <2>3. \A p \in taken[t] : /\ p \in Slot /\ p[1] = r /\ p[2] \in raised /\ p[3] \in Position
                            /\ p = <<p[1], p[2], p[3]>>
    <3>1. \A p \in taken[t] : p \in Slot /\ p[1] = r /\ proposal[p] # "none"
      BY DEF DecisionsAreHeld, TypeOKFlow
    <3> QED BY <3>1, SlotFields DEF RowsAreRaised
  <2>4. f \in Injection(taken[t], ({r} \X raised) \X Position)
    BY <2>3 DEF Injection, IsInjective
  <2> QED BY <2>2, <2>4, FS_Injection
<1>4. Cardinality(Asked(r)) = Cardinality(Position)
  <2> DEFINE g == [n \in Position |-> <<r, i, n>>]
  <2>1. g \in Bijection(Position, Asked(r))
    BY DEF Asked, Bijection, Injection, Surjection, IsInjective
  <2>2. ExistsBijection(Position, Asked(r))
    BY <2>1 DEF ExistsBijection
  <2> QED BY <2>2, FS_Bijection, FlowAssumption
<1>5. Cardinality(taken[t]) = Cardinality(Position)
  BY DEF ResumeFits
<1> QED BY <1>2, <1>3, <1>4, <1>5, FS_Subset

LEMMA DecisionsStayHeld ==
    ASSUME IInvFlow, OneRunPerConversation, Kinds
    PROVE  DecisionsAreHeld'
<1> SUFFICES ASSUME NEW u \in Task
             PROVE  /\ pc'[u] = "decided" =>
                         /\ thread'[Thread(u)'] # NoInterruptYet
                         /\ Asked(job[u].run)' \subseteq taken'[u]
                    /\ \A p \in taken'[u] :
                         /\ pc'[u] = "decided" /\ p[1] = job'[u].run /\ p \in resumed'
                         /\ proposal'[p] \in {"approved", "rejected", "expired"}
  BY DEF DecisionsAreHeld
<1> USE DEF IInvFlow
<1>1. CASE UNCHANGED vars
  BY <1>1 DEF vars, runVars, flowVars, proposalVars, graphVars, localVars, Asked, Thread,
              DecisionsAreHeld
<1>2. CASE RowsRest
  <2>1. /\ pc'[u] = "decided" => pc[u] = "decided"
        /\ pc[u] = "decided" => pc'[u] = "decided" /\ job'[u] = job[u]
    BY <1>2, RestFrame DEF Live
  <2>2. UNCHANGED <<proposal, resumed, thread, taken>>
    BY <1>2 DEF RowsRest, graphVars, localVars
  <2> QED BY <2>1, <2>2 DEF Asked, Thread, DecisionsAreHeld
<1>3. CASE RowsSettle
  <2>1. UNCHANGED <<pc, job, thread, resumed, taken>>
    BY <1>3 DEF RowsSettle, runVars, graphVars, localVars
  <2>2. \A p \in taken[u] : p \in Slot
    BY DEF TypeOKFlow
  <2>3. \A p \in taken[u] : proposal'[p] = proposal[p]
    BY <1>3, <2>2 DEF RowsSettle, DecisionsAreHeld
  <2> QED BY <2>1, <2>3 DEF Asked, Thread, DecisionsAreHeld
<1>4. ASSUME NEW t \in Task, GraphStep(t)
      PROVE  /\ pc'[u] = "decided" =>
                  /\ thread'[Thread(u)'] # NoInterruptYet
                  /\ Asked(job[u].run)' \subseteq taken'[u]
             /\ \A p \in taken'[u] :
                  /\ pc'[u] = "decided" /\ p[1] = job'[u].run /\ p \in resumed'
                  /\ proposal'[p] \in {"approved", "rejected", "expired"}
  <2>0. /\ job' = job /\ pc[t] \in Live
        /\ job[t].run \in Run /\ Thread(t) = ConversationOf[job[t].run]
    BY <1>4, GraphFrame, AtThread
  <2>1. CASE u # t
    <3>1. pc'[u] = pc[u] /\ taken'[u] = taken[u]
      BY <1>4, <2>1, GraphFrame
    <3>2. CASE pc[u] # "decided"
      BY <3>1, <3>2 DEF DecisionsAreHeld
    <3>3. CASE pc[u] = "decided"
      <4>1. /\ job[u].run \in Run /\ job[u].run # job[t].run
            /\ Thread(u) = ConversationOf[job[u].run]
        BY <2>0, <2>1, <3>3, OtherRun, AtThread DEF Live
      <4>2. /\ thread'[Thread(u)] = thread[Thread(u)]
            /\ Asked(job[u].run)' = Asked(job[u].run)
        BY <1>4, <2>0, <4>1, OtherRunsKeepTheirRows DEF Asked
      <4>3. \A p \in taken[u] : p \in Slot /\ p[1] = job[u].run
        BY DEF DecisionsAreHeld, TypeOKFlow
      <4>4. \A p \in taken[u] : proposal'[p] = proposal[p]
        BY <1>4, <4>1, <4>3, OtherRunsKeepTheirRows
      <4>5. resumed \subseteq resumed'
        BY <1>4
           DEF GraphStep, TakeDecisionsFlow, BeginStreamFlow, ToolStep, ToolBegin, ToolDone,
               ToolFails, ToolEnds, EndStreamFlow, RaiseInterrupt, PersistInterruptFlow,
               GraphLeft, proposalVars
      <4> QED BY <2>0, <3>1, <4>2, <4>4, <4>5 DEF DecisionsAreHeld, Thread
    <3> QED BY <3>2, <3>3
  <2>2. CASE u = t
    <3>1. CASE TakeDecisionsFlow(t)
      <4> DEFINE r == job[t].run
      <4>1. /\ pc[t] = "claimed" /\ job[t].kind = "resume" /\ Ready(r)
            /\ taken'[t] = Unresumed(r) /\ resumed' = resumed \union Unresumed(r)
            /\ UNCHANGED <<proposal, thread>>
        BY <3>1 DEF TakeDecisionsFlow, TakeDecisions, Goto, TypeOKFlow
      <4>1a. pc'[t] = "decided"
        BY <3>1 DEF TakeDecisionsFlow, TakeDecisions, Goto, TypeOKFlow, TypeOK
      <4>2. Parked(r)
        BY <2>0, <4>1, WorkerHasJob DEF Parked
      <4>3. thread[Thread(t)] # NoInterruptYet
        BY <2>0, <4>2 DEF ParkedRunsAreAsked
      <4>4. Asked(r) \subseteq Unresumed(r)
        BY <2>0, <4>2, <4>3, AskedAreSlots DEF ParkedRunsAreAsked, Unresumed
      <4>5. \A p \in Unresumed(r) :
               p[1] = r /\ proposal[p] \in {"approved", "rejected", "expired"}
        BY <4>1 DEF Ready, Undecided, Unresumed, HandedOnIsSettled, TypeOKFlow, ProposalStatus
      <4>6. Asked(r)' = Asked(r) /\ Thread(t)' = Thread(t)
        BY <2>0, <4>1 DEF Asked, Thread
      <4> QED BY <2>0, <2>2, <4>1, <4>1a, <4>3, <4>4, <4>5, <4>6
    <3>2. CASE ~ TakeDecisionsFlow(t)
      <4>1. taken'[t] = {} /\ pc'[t] # "decided"
        <5>1. CASE BeginStreamFlow(t) \/ GraphLeft(t)
          BY <5>1 DEF BeginStreamFlow, BeginStream, Goto, GraphLeft, TypeOKFlow, TypeOK
        <5>2. CASE EndStreamFlow(t) \/ \E i \in Interrupt : RaiseInterrupt(t, i)
          BY <5>2 DEF EndStreamFlow, RaiseInterrupt, EndStream, Goto, TypeOKFlow, TypeOK,
                      localVars, DecisionsAreHeld
        <5>3. CASE PersistInterruptFlow(t)
          BY <5>3 DEF PersistInterruptFlow, PersistInterrupt, Goto, TypeOKFlow, TypeOK,
                      graphVars, localVars, DecisionsAreHeld
        <5>4. CASE ToolStep(t)
          <6>1. pc[t] = "streaming" /\ pc' = pc /\ taken' = taken
            BY <5>4 DEF ToolStep, ToolBegin, ToolDone, ToolFails, ToolEnds, CallsAreApproved,
                        runVars
          <6> QED BY <6>1 DEF DecisionsAreHeld
        <5> QED BY <1>4, <3>2, <5>1, <5>2, <5>3, <5>4 DEF GraphStep
      <4> QED BY <2>2, <4>1
    <3> QED BY <3>1, <3>2
  <2> QED BY <2>1, <2>2
<1> QED BY <1>1, <1>2, <1>3, <1>4 DEF Kinds

LEMMA CallsStayApproved ==
    ASSUME IInvFlow, OneRunPerConversation, Kinds
    PROVE  CallsAreApproved'
<1> SUFFICES ASSUME NEW u \in Task
             PROVE  /\ pc'[u] # "streaming" => todo'[u] = {} /\ active'[u] = {}
                    /\ \A c \in todo'[u] : /\ SlotOf(job'[u].run, c) \in resumed'
                                           /\ proposal'[SlotOf(job'[u].run, c)] = "approved"
                    /\ \A c \in active'[u] : /\ SlotOf(job'[u].run, c) \in resumed'
                                             /\ proposal'[SlotOf(job'[u].run, c)] = "executing"
  BY DEF CallsAreApproved
<1> USE DEF IInvFlow
<1>1. CASE UNCHANGED vars
  BY <1>1 DEF vars, runVars, flowVars, proposalVars, graphVars, localVars, CallsAreApproved
<1>2. CASE RowsRest
  <2>1. UNCHANGED <<proposal, resumed, todo, active>>
    BY <1>2 DEF RowsRest, graphVars, localVars
  <2>2. CASE pc[u] = "streaming"
    BY <1>2, <2>1, <2>2, RestFrame DEF Live, CallsAreApproved
  <2>3. CASE pc[u] # "streaming"
    BY <2>1, <2>3 DEF CallsAreApproved
  <2> QED BY <2>2, <2>3
<1>3. CASE RowsSettle
  <2>1. UNCHANGED <<pc, job, resumed, todo, active>>
    BY <1>3 DEF RowsSettle, runVars, graphVars, localVars
  <2>2. \A p \in Slot : proposal[p] # "awaiting_approval" => proposal'[p] = proposal[p]
    BY <1>3 DEF RowsSettle
  <2>3. \A p \in resumed : p \in Slot
    BY DEF TypeOKFlow
  <2> QED BY <2>1, <2>2, <2>3 DEF CallsAreApproved
<1>4. ASSUME NEW t \in Task, GraphStep(t)
      PROVE  /\ pc'[u] # "streaming" => todo'[u] = {} /\ active'[u] = {}
             /\ \A c \in todo'[u] : /\ SlotOf(job'[u].run, c) \in resumed'
                                    /\ proposal'[SlotOf(job'[u].run, c)] = "approved"
             /\ \A c \in active'[u] : /\ SlotOf(job'[u].run, c) \in resumed'
                                      /\ proposal'[SlotOf(job'[u].run, c)] = "executing"
  <2>0. /\ job' = job /\ pc[t] \in Live
        /\ job[t].run \in Run /\ Thread(t) = ConversationOf[job[t].run]
    BY <1>4, GraphFrame, AtThread
  <2>00. resumed \subseteq resumed'
    BY <1>4
       DEF GraphStep, TakeDecisionsFlow, BeginStreamFlow, ToolStep, ToolBegin, ToolDone,
           ToolFails, ToolEnds, EndStreamFlow, RaiseInterrupt, PersistInterruptFlow,
           GraphLeft, proposalVars
  <2>1. CASE u # t
    <3>1. pc'[u] = pc[u] /\ todo'[u] = todo[u] /\ active'[u] = active[u]
      BY <1>4, <2>1, GraphFrame
    <3>2. CASE pc[u] # "streaming"
      BY <3>1, <3>2 DEF CallsAreApproved
    <3>3. CASE pc[u] = "streaming"
      <4>1. job[u].run \in Run /\ job[u].run # job[t].run
        BY <2>0, <2>1, <3>3, OtherRun, AtThread DEF Live
      <4>2. \A c \in Call : proposal'[SlotOf(job[u].run, c)] = proposal[SlotOf(job[u].run, c)]
        BY <1>4, <4>1, SlotOfCall, OtherRunsKeepTheirRows
      <4>3. todo[u] \subseteq Call /\ active[u] \subseteq Call
        BY DEF TypeOKFlow
      <4> QED BY <2>0, <2>00, <3>1, <3>3, <4>2, <4>3 DEF CallsAreApproved
    <3> QED BY <3>2, <3>3
  <2>2. CASE u = t
    <3> DEFINE r == job[t].run
    <3>1. CASE BeginStreamFlow(t)
      <4>1. /\ pc[t] # "streaming" /\ pc'[t] = "streaming"
            /\ UNCHANGED <<proposal, resumed, active>>
            /\ job[t].kind = "resume" => pc[t] = "decided" /\ ResumeFits(t)
            /\ todo'[t] = IF job[t].kind = "resume" THEN ApprovedCalls(t) ELSE todo[t]
        BY <3>1 DEF BeginStreamFlow, BeginStream, Goto, TypeOKFlow, TypeOK, proposalVars
      <4>2. todo[t] = {} /\ active[t] = {}
        BY <4>1 DEF CallsAreApproved
      <4>3. CASE job[t].kind # "resume"
        BY <2>2, <4>1, <4>2, <4>3
      <4>4. CASE job[t].kind = "resume"
        <5>1. taken[t] = Asked(r) /\ thread[Thread(t)] # NoInterruptYet
          BY <4>1, <4>4, FittingDecisions DEF ResumeFits
        <5>2. \A p \in taken[t] : SlotOf(r, <<thread[Thread(t)], p[3]>>) = p /\ p \in resumed
          BY <2>0, <5>1 DEF Asked, SlotOf, DecisionsAreHeld
        <5>3. \A c \in ApprovedCalls(t) :
                 SlotOf(r, c) \in resumed /\ proposal[SlotOf(r, c)] = "approved"
          BY <5>2 DEF ApprovedCalls
        <5> QED BY <2>0, <2>2, <4>1, <4>2, <4>4, <5>3
      <4> QED BY <4>3, <4>4
    <3>2. CASE ToolStep(t)
      <4>1. PICK c \in Call : ToolBegin(t, c) \/ ToolDone(t, c) \/ ToolFails(t, c)
        BY <3>2 DEF ToolStep
      <4>2. \A d \in Call : SlotOf(r, d) \in Slot /\ (SlotOf(r, d) = SlotOf(r, c) => d = c)
        BY <2>0, SlotOfCall
      <4>3. todo[t] \subseteq Call /\ active[t] \subseteq Call
        BY DEF TypeOKFlow
      <4>4. CASE ToolBegin(t, c)
        <5>1. /\ pc' = pc /\ pc[t] = "streaming" /\ c \in todo[t] /\ resumed' = resumed
              /\ todo'[t] = todo[t] \ {c} /\ active'[t] = active[t] \union {c}
          BY <4>4 DEF ToolBegin, runVars, TypeOKFlow
        <5>2. proposal' = [proposal EXCEPT ![SlotOf(r, c)] = "executing"]
          BY <4>4, <5>1 DEF ToolBegin, CallsAreApproved
        <5>3. \A d \in Call : proposal'[SlotOf(r, d)] =
                 IF d = c THEN "executing" ELSE proposal[SlotOf(r, d)]
          BY <4>2, <5>2 DEF TypeOKFlow
        <5> QED BY <2>0, <2>2, <4>3, <5>1, <5>3 DEF CallsAreApproved
      <4>5. CASE ToolDone(t, c) \/ ToolFails(t, c)
        <5>1. PICK outcome \in {"executed", "failed"} : ToolEnds(t, c, outcome)
          BY <4>5 DEF ToolDone, ToolFails
        <5>2. /\ pc' = pc /\ c \in active[t] /\ resumed' = resumed
              /\ todo' = todo /\ active'[t] = active[t] \ {c}
          BY <5>1 DEF ToolEnds, runVars, TypeOKFlow
        <5>3. /\ proposal[SlotOf(r, c)] = "executing"
              /\ proposal' = [proposal EXCEPT ![SlotOf(r, c)] = outcome]
          BY <5>1, <5>2 DEF ToolEnds, CallsAreApproved
        <5>4. \A d \in Call : d # c => proposal'[SlotOf(r, d)] = proposal[SlotOf(r, d)]
          BY <4>2, <5>3 DEF TypeOKFlow
        <5>5. c \notin todo[t] /\ pc[t] = "streaming"
          BY <5>2, <5>3 DEF CallsAreApproved
        <5> QED BY <2>0, <2>2, <4>3, <5>2, <5>4, <5>5 DEF CallsAreApproved
      <4> QED BY <4>1, <4>4, <4>5
    <3>3. CASE GraphLeft(t)
      BY <2>2, <3>3 DEF GraphLeft, TypeOKFlow
    <3>4. CASE \/ TakeDecisionsFlow(t) \/ EndStreamFlow(t) \/ PersistInterruptFlow(t)
               \/ \E i \in Interrupt : RaiseInterrupt(t, i)
      <4>1. todo' = todo /\ active' = active
        BY <3>4 DEF TakeDecisionsFlow, EndStreamFlow, RaiseInterrupt, PersistInterruptFlow,
                    localVars, graphVars
      <4>2. todo[t] = {} /\ active[t] = {}
        BY <3>4 DEF TakeDecisionsFlow, TakeDecisions, EndStreamFlow, RaiseInterrupt,
                    PersistInterruptFlow, PersistInterrupt, Goto, CallsAreApproved
      <4> QED BY <2>2, <4>1, <4>2
    <3> QED BY <1>4, <3>1, <3>2, <3>3, <3>4 DEF GraphStep
  <2> QED BY <2>1, <2>2
<1> QED BY <1>1, <1>2, <1>3, <1>4 DEF Kinds

LEMMA EffectsStayCounted ==
    ASSUME IInvFlow, Kinds
    PROVE  EffectsHappenOnce'
<1> USE DEF IInvFlow, EffectsHappenOnce
<1> DEFINE Settled == {"executed", "failed"}
<1>1. CASE UNCHANGED vars \/ RowsRest
  BY <1>1 DEF vars, flowVars, proposalVars, graphVars, RowsRest
<1>2. CASE RowsSettle
  <2>1. ASSUME NEW c \in Call, NEW r \in Run, NEW x \in Settled
        PROVE  proposal'[SlotOf(r, c)] = x <=> proposal[SlotOf(r, c)] = x
    BY <1>2, SlotOfCall DEF RowsSettle
  <2> QED BY <1>2, <2>1 DEF RowsSettle, graphVars
<1>3. ASSUME NEW t \in Task, GraphStep(t) PROVE EffectsHappenOnce'
  <2>0. job[t].run \in Run
    BY <1>3, GraphFrame, AtThread
  <2>1. ASSUME NEW d \in Call, ToolDone(t, d) \/ ToolFails(t, d) PROVE EffectsHappenOnce'
    <3> DEFINE s == SlotOf(job[t].run, d)
    <3>1. s \in Slot /\ s[1] = job[t].run /\ s = <<job[t].run, d[1], d[2]>>
          /\ d[1] \in Interrupt /\ d[2] \in Position
      BY <2>0, SlotOfCall DEF SlotOf
    <3>2. proposal[s] = "executing"
      BY <2>1 DEF ToolDone, ToolFails, ToolEnds, CallsAreApproved
    <3>3. PICK outcome \in Settled, n \in 0..1 :
             /\ proposal' = [proposal EXCEPT ![s] = outcome]
             /\ effects' = [effects EXCEPT ![d] = effects[d] + n]
             /\ outcome = "executed" => n = 1
      BY <2>1, <3>2 DEF ToolDone, ToolFails, ToolEnds
    <3>4. ASSUME NEW r \in Run, proposal[SlotOf(r, d)] \in Settled PROVE FALSE
      <4>1. SlotOf(r, d) = <<r, d[1], d[2]>>
        BY DEF SlotOf
      <4>2. Knows(r, d[1]) /\ Knows(job[t].run, d[1])
        BY <3>1, <3>2, <3>4, <4>1 DEF Knows
      <4>3. r = job[t].run
        BY <2>0, <3>1, <4>2 DEF InterruptsHaveOneRun
      <4> QED BY <3>2, <3>4, <4>3
    <3>5. effects[d] = 0 /\ effects'[d] = n
      <4>1. effects[d] \in Nat
        BY DEF TypeOKFlow
      <4>2. effects[d] # 1
        BY <3>4
      <4>3. effects[d] = 0
        BY <4>1, <4>2
      <4> QED BY <3>3, <4>3 DEF TypeOKFlow
    <3>6. proposal'[s] = outcome
      BY <3>1, <3>3 DEF TypeOKFlow
    <3>7. \A c \in Call, r \in Run : c # d =>
             /\ proposal'[SlotOf(r, c)] = proposal[SlotOf(r, c)]
             /\ effects'[c] = effects[c]
      <4>1. \A c \in Call, r \in Run : c # d => SlotOf(r, c) \in Slot /\ SlotOf(r, c) # s
        BY <3>1, SlotOfCall
      <4> QED BY <3>3, <4>1 DEF TypeOKFlow
    <3>8. ASSUME NEW r \in Run, r # job[t].run PROVE proposal'[SlotOf(r, d)] \notin Settled
      <4>1. SlotOf(r, d) \in Slot /\ SlotOf(r, d) # s
        BY <2>0, <3>8, SlotOfCall DEF SlotOf
      <4> QED BY <3>3, <3>4, <4>1 DEF TypeOKFlow
    <3>9. "executed" \in {proposal'[SlotOf(r, d)] : r \in Run} => n = 1
      BY <3>3, <3>6, <3>8
    <3>10. outcome \in {proposal'[SlotOf(r, d)] : r \in Run}
      BY <2>0, <3>6
    <3>11. ASSUME NEW c \in Call, c # d
           PROVE  /\ {proposal'[SlotOf(r, c)] : r \in Run} = {proposal[SlotOf(r, c)] : r \in Run}
                  /\ effects'[c] = effects[c]
      <4>1. \A r \in Run : proposal'[SlotOf(r, c)] = proposal[SlotOf(r, c)]
        BY <3>7, <3>11
      <4>2. {proposal'[SlotOf(r, c)] : r \in Run} = {proposal[SlotOf(r, c)] : r \in Run}
        BY ONLY <4>1, Zenon
      <4>3. effects'[c] = effects[c]
        BY <2>0, <3>7, <3>11
      <4> QED BY <4>2, <4>3
    <3>12. ASSUME NEW c \in Call, c # d
           PROVE  LET rows == {proposal'[SlotOf(r, c)] : r \in Run} IN
                     /\ effects'[c] <= 1
                     /\ "executed" \in rows => effects'[c] = 1
                     /\ effects'[c] = 1 => rows \intersect Settled # {}
      BY <3>11, <3>12
    <3>13. LET rows == {proposal'[SlotOf(r, d)] : r \in Run} IN
              /\ effects'[d] <= 1
              /\ "executed" \in rows => effects'[d] = 1
              /\ effects'[d] = 1 => rows \intersect Settled # {}
      BY <3>5, <3>9, <3>10
    <3> QED BY <3>12, <3>13 DEF SlotOf
  <2>2. CASE ~ \E d \in Call : ToolDone(t, d) \/ ToolFails(t, d)
    <3>1. effects' = effects
      BY <1>3, <2>2
         DEF GraphStep, TakeDecisionsFlow, BeginStreamFlow, EndStreamFlow, RaiseInterrupt,
             PersistInterruptFlow, GraphLeft, ToolStep, ToolBegin, graphVars
    <3>2. \A p \in Slot, x \in Settled : proposal'[p] = x <=> proposal[p] = x
      <4>1. CASE ToolStep(t)
        <5>1. PICK c \in Call : ToolBegin(t, c)
          BY <2>2, <4>1 DEF ToolStep
        <5>2. SlotOf(job[t].run, c) \in Slot
          BY <2>0, SlotOfCall
        <5> QED BY <5>1, <5>2 DEF ToolBegin, TypeOKFlow
      <4>2. CASE ~ ToolStep(t)
        BY <1>3, <4>2, GraphRows
      <4> QED BY <4>1, <4>2
    <3>3. \A c \in Call, r \in Run, x \in Settled :
             proposal'[SlotOf(r, c)] = x <=> proposal[SlotOf(r, c)] = x
      BY <3>2, SlotOfCall
    <3> QED BY <3>1, <3>3
  <2> QED BY <2>1, <2>2
<1> QED BY <1>1, <1>2, <1>3 DEF Kinds

-----------------------------------------------------------------------------
(* The theorems *)

LEMMA TypedInitially == InitFlow => Inv /\ TypeOKFlow
<1> SUFFICES ASSUME InitFlow PROVE Inv /\ TypeOKFlow
  OBVIOUS
<1>1. Init /\ Inv
  BY InitInv DEF InitFlow
<1>2. TypeOKFlow
  BY <1>1, FlowAssumption DEF InitFlow, TypeOKFlow, Inv, ProposalStatus
<1> QED BY <1>1, <1>2

LEMMA FlowInitially == InitFlow => IInvFlow
<1> SUFFICES ASSUME InitFlow PROVE IInvFlow
  OBVIOUS
<1> USE TypedInitially DEF InitFlow, Init
<1>1. RowsAreRaised /\ IsFiniteSet(raised)
  BY FS_EmptySet DEF RowsAreRaised
<1>2. InterruptsHaveOneRun
  <2>1. ASSUME NEW r \in Run, NEW i \in Interrupt PROVE ~ Knows(r, i)
    <3>1. \A n \in Position : <<r, i, n>> \in Slot
      BY DEF Slot
    <3> QED BY <3>1, FlowAssumption DEF Knows
  <2> QED BY <2>1 DEF InterruptsHaveOneRun
<1>3. OpenDecisionsHoldTheirRow /\ HandedOnIsSettled
  BY DEF OpenDecisionsHoldTheirRow, HandedOnIsSettled
<1>4. NewInterruptsHaveNoRows /\ ParkedRunsAreAsked
  BY DEF NewInterruptsHaveNoRows, ParkedRunsAreAsked, Parked
<1>5. DecisionsAreHeld /\ CallsAreApproved
  BY DEF DecisionsAreHeld, CallsAreApproved
<1>6. EffectsHappenOnce
  BY SlotOfCall DEF EffectsHappenOnce
<1> QED BY <1>1, <1>2, <1>3, <1>4, <1>5, <1>6 DEF IInvFlow

LEMMA FlowStep ==
    ASSUME OneRunPerConversation, IInvFlow, [NextFlow]_vars
    PROVE  IInvFlow'
<1>1. Kinds
  BY StepKinds DEF IInvFlow
<1>2. Inv' /\ TypeOKFlow'
  BY StepsRefine, NextInv, TypingFlow DEF IInvFlow
<1> QED
  BY <1>1, <1>2, RowsStayRaised, InterruptsKeepTheirRun, OpenDecisionsStay, HandedOnStaysSettled,
     NewInterruptsStayNew, ParkedStayAsked, DecisionsStayHeld, CallsStayApproved,
     EffectsStayCounted
     DEF IInvFlow

\* The inductive invariant.
THEOREM FlowInvariance == OneRunPerConversation => (SpecFlow => []IInvFlow)
<1> SUFFICES ASSUME OneRunPerConversation PROVE SpecFlow => []IInvFlow
  OBVIOUS
<1>1. InitFlow => IInvFlow
  BY FlowInitially
<1>2. IInvFlow /\ [NextFlow]_vars => IInvFlow'
  BY FlowStep
<1> QED BY <1>1, <1>2, PTL DEF SpecFlow

\* Every variable keeps its type, whatever conversations runs share.
THEOREM FlowTypes == SpecFlow => []TypeOKFlow
<1>1. InitFlow => Inv /\ TypeOKFlow
  BY TypedInitially
<1>2. Inv /\ TypeOKFlow /\ [NextFlow]_vars => (Inv /\ TypeOKFlow)'
  BY StepsRefine, NextInv, TypingFlow
<1> QED BY <1>1, <1>2, PTL DEF SpecFlow

\* The record of effects: work that committed, all or part of it, has a row
\* that says executed or failed, a row says executed only if its work has
\* committed, and no call has its effect twice.
THEOREM EffectsAreRecorded == OneRunPerConversation => (SpecFlow => []EffectsHappenOnce)
<1> SUFFICES ASSUME OneRunPerConversation PROVE SpecFlow => []EffectsHappenOnce
  OBVIOUS
<1>1. IInvFlow => EffectsHappenOnce
  BY DEF IInvFlow
<1> QED BY <1>1, FlowInvariance, PTL

\* No effect without approval: work commits, all or part of it, only under a row
\* of its own that was approved and handed to the graph, whatever crashes, comes
\* twice, expires or is decided at the same time.
THEOREM ApprovalIsNeeded == OneRunPerConversation => (SpecFlow => []NoEffectWithoutApproval)
<1> SUFFICES ASSUME OneRunPerConversation PROVE SpecFlow => []NoEffectWithoutApproval
  OBVIOUS
<1>1. ASSUME IInvFlow PROVE NoEffectWithoutApproval
  <2>1. ASSUME NEW c \in Call, effects[c] > 0
        PROVE  \E r \in Run : proposal[SlotOf(r, c)] \in {"executed", "failed"}
    <3>1. effects[c] = 1
      BY <1>1, <2>1 DEF IInvFlow, EffectsHappenOnce, TypeOKFlow
    <3> QED BY <1>1, <3>1 DEF IInvFlow, EffectsHappenOnce
  <2>2. \A p \in Slot : proposal[p] \in {"executed", "failed"} => p \in resumed
    BY <1>1 DEF IInvFlow, HandedOnIsSettled
  <2> QED BY <2>1, <2>2, SlotOfCall DEF NoEffectWithoutApproval
<1> QED BY <1>1, FlowInvariance, PTL

\* Rows move along the arrows of the documented lifecycle only, and execute only
\* after their decision was handed on.
THEOREM LifecycleIsKept == OneRunPerConversation => (SpecFlow => ProposalsFollowLifecycle)
<1> SUFFICES ASSUME OneRunPerConversation PROVE SpecFlow => ProposalsFollowLifecycle
  OBVIOUS
<1> DEFINE Moves == \A p \in Slot : proposal'[p] # proposal[p] =>
                       /\ <<proposal[p], proposal'[p]>> \in Lifecycle
                       /\ proposal'[p] = "executing" => p \in resumed
<1>1. ASSUME IInvFlow, [NextFlow]_vars PROVE [Moves]_vars
  <2>1. Kinds
    BY <1>1, StepKinds DEF IInvFlow
  <2>2. CASE UNCHANGED vars
    BY <2>2
  <2>3. CASE RowsRest
    BY <2>3 DEF RowsRest
  <2>4. CASE RowsSettle
    BY <2>4 DEF RowsSettle, Lifecycle
  <2>5. ASSUME NEW t \in Task, GraphStep(t) PROVE Moves
    BY <1>1, <2>5, GraphRows DEF IInvFlow, Lifecycle
  <2> QED BY <2>1, <2>2, <2>3, <2>4, <2>5 DEF Kinds
<1> QED BY <1>1, FlowInvariance, PTL DEF SpecFlow, ProposalsFollowLifecycle

-----------------------------------------------------------------------------
(* What holds until the first crash *)

Calm == CalmRunsLeaveNoRows /\ DecisionsFitInterrupt

\* The three ways in which rows change for a run.
LEMMA CalmGraphStep ==
    ASSUME IInvFlow, IInvFlow', OneRunPerConversation, Calm, crashes' = 0,
           NEW t \in Task, GraphStep(t)
    PROVE  Calm'
<1> DEFINE r == job[t].run
<1> USE DEF IInvFlow
<1>0. /\ job' = job /\ status' = status /\ taskId' = taskId /\ pc[t] \in Live /\ crashes = 0
      /\ r \in Run /\ Thread(t) = ConversationOf[r]
  BY GraphFrame, AtThread
<1>1. ASSUME NEW q \in Run, q # r
      PROVE  /\ Unresumed(q)' \subseteq Unresumed(q) /\ Asked(q)' = Asked(q)
             /\ \A p \in Slot : p[1] = q => proposal'[p] = proposal[p]
  <2>1. \A p \in Slot : p[1] = q => /\ proposal'[p] = proposal[p]
                                    /\ p \in resumed' => p \in resumed
    BY <1>0, <1>1, OtherRunsKeepTheirRows
  <2>2. resumed \subseteq resumed'
    BY DEF GraphStep, TakeDecisionsFlow, BeginStreamFlow, ToolStep, ToolBegin, ToolDone,
           ToolFails, ToolEnds, EndStreamFlow, RaiseInterrupt, PersistInterruptFlow,
           GraphLeft, proposalVars
  <2> QED BY <1>1, <2>1, <2>2, OtherRunsKeepTheirRows DEF Unresumed
<1>2. status[r] \notin {"absent", "pending"}
  BY <1>0 DEF Inv, WorkersHoldTheirRow
<1>3. /\ Unresumed(r)' \subseteq Asked(r)'
      /\ Entering(t)' => Unresumed(r)' = {}
      /\ pc'[t] = "decided" => taken'[t] = Asked(r)'
      /\ pc'[t] # "unsent" /\ pc'[t] # "queued"
  <2> USE DEF Goto, Live, TypeOKFlow, TypeOK
  <2>1. CASE TakeDecisionsFlow(t)
    <3>1. /\ pc[t] = "claimed" /\ job[t].kind = "resume" /\ pc'[t] = "decided"
          /\ taken'[t] = Unresumed(r) /\ resumed' = resumed \union Unresumed(r)
          /\ UNCHANGED <<proposal, thread>>
      BY <2>1 DEF TakeDecisionsFlow, TakeDecisions
    <3>2. Unresumed(r)' = {}
      BY <1>0, <3>1 DEF Unresumed
    <3>3. Unresumed(r) \subseteq Asked(r) /\ Asked(r)' = Asked(r)
      BY <1>0, <3>1 DEF Calm, CalmRunsLeaveNoRows, Asked
    <3>4. Asked(r) \subseteq Unresumed(r)
      <4>1. Parked(r)
        BY <1>0, <3>1, WorkerHasJob DEF Parked
      <4>2. thread[ConversationOf[r]] # NoInterruptYet
        BY <1>0, <4>1 DEF ParkedRunsAreAsked
      <4> QED BY <1>0, <4>1, <4>2, AskedAreSlots DEF ParkedRunsAreAsked, Unresumed
    <3>5. Unresumed(r) = Asked(r)'
      BY <3>3, <3>4
    <3> QED BY <3>1, <3>2, <3>5
  <2>2. CASE BeginStreamFlow(t)
    <3>1. Entering(t) /\ pc'[t] = "streaming" /\ UNCHANGED <<proposal, resumed>>
      BY <1>0, <2>2, WorkerHasJob DEF BeginStreamFlow, BeginStream, Entering, proposalVars
    <3>2. Unresumed(r)' = {}
      BY <1>0, <3>1 DEF Calm, CalmRunsLeaveNoRows, Unresumed
    <3> QED BY <3>1, <3>2
  <2>3. CASE EndStreamFlow(t) \/ \E i \in Interrupt : RaiseInterrupt(t, i)
    <3>1. Entering(t) /\ pc'[t] = "ended" /\ UNCHANGED <<proposal, resumed>>
      BY <2>3 DEF EndStreamFlow, RaiseInterrupt, EndStream, Entering, proposalVars
    <3>2. Unresumed(r)' = {}
      BY <1>0, <3>1 DEF Calm, CalmRunsLeaveNoRows, Unresumed
    <3> QED BY <3>1, <3>2 DEF Entering
  <2>4. CASE PersistInterruptFlow(t)
    <3>1. /\ pc[t] = "ended" /\ pc'[t] = "persisted" /\ UNCHANGED <<thread, resumed>>
          /\ thread[Thread(t)] # NoInterruptYet
      BY <2>4 DEF PersistInterruptFlow, PersistInterrupt, graphVars
    <3>2. Unresumed(r) \subseteq Asked(r) /\ Asked(r)' = Asked(r)
      BY <1>0, <3>1 DEF Calm, CalmRunsLeaveNoRows, Asked
    <3>3. ASSUME NEW p \in Unresumed(r)', p \notin Unresumed(r) PROVE p \in Asked(r)
      <4>1. p \in Slot /\ p[1] = r /\ p \notin resumed /\ proposal'[p] # proposal[p]
        BY <1>0, <3>1, <3>3 DEF Unresumed
      <4>2. p[2] = thread[Thread(t)]
        BY <2>4, <4>1 DEF PersistInterruptFlow
      <4> QED BY <1>0, <4>1, <4>2, SlotFields DEF Asked
    <3> QED BY <3>1, <3>2, <3>3 DEF Entering
  <2>5. CASE ToolStep(t)
    <3>1. /\ pc[t] = "streaming" /\ pc' = pc /\ UNCHANGED <<resumed, thread>>
      BY <2>5 DEF ToolStep, ToolBegin, ToolDone, ToolFails, ToolEnds, CallsAreApproved, runVars
    <3>2. Unresumed(r)' \subseteq Unresumed(r)
      <4>1. \A p \in Slot : proposal'[p] = proposal[p] \/ p \in resumed
        BY <2>5, <3>1, GraphRows DEF PersistInterruptFlow, PersistInterrupt
      <4> QED BY <1>0, <3>1, <4>1 DEF Unresumed
    <3>3. Unresumed(r) = {}
      BY <1>0, <3>1 DEF Calm, CalmRunsLeaveNoRows, Entering
    <3> QED BY <3>1, <3>2, <3>3
  <2>6. CASE GraphLeft(t)
    <3>1. /\ pc'[t] \in {"done", "failing"}
          /\ UNCHANGED <<proposal, resumed, thread>>
      BY <2>6 DEF GraphLeft
    <3>2. Unresumed(r)' = Unresumed(r) /\ Asked(r)' = Asked(r)
      BY <1>0, <3>1 DEF Unresumed, Asked
    <3> QED BY <1>0, <3>1, <3>2 DEF Calm, CalmRunsLeaveNoRows, Entering
  <2> QED BY <2>1, <2>2, <2>3, <2>4, <2>5, <2>6 DEF GraphStep
<1>4. \A q \in Run : Unresumed(q)' \subseteq Asked(q)'
  <2>1. ASSUME NEW q \in Run, q # r PROVE Unresumed(q)' \subseteq Asked(q)'
    BY <1>0, <1>1, <2>1 DEF Calm, CalmRunsLeaveNoRows
  <2> QED BY <1>0, <1>3, <2>1
<1>5. ASSUME NEW u \in Task, u # t
      PROVE  /\ pc'[u] \in {"unsent", "queued"} /\ job'[u] # NoJob /\ job'[u].kind = "execute"
                => ~ (status'[job'[u].run] = "running" /\ taskId'[job'[u].run] = u)
             /\ Entering(u)' => Unresumed(job[u].run)' = {}
             /\ pc'[u] = "decided" =>
                   thread'[Thread(u)'] # NoInterruptYet /\ taken'[u] = Asked(job[u].run)'
  <2>1. pc'[u] = pc[u] /\ taken'[u] = taken[u]
    BY <1>5, GraphFrame
  <2>2. pc'[u] \in {"unsent", "queued"} /\ job'[u] # NoJob /\ job'[u].kind = "execute"
          => ~ (status'[job'[u].run] = "running" /\ taskId'[job'[u].run] = u)
    BY <1>0, <2>1 DEF Calm, CalmRunsLeaveNoRows
  <2>3. CASE ~ Entering(u)
    BY <1>0, <2>1, <2>2, <2>3 DEF Entering
  <2>4. CASE Entering(u)
    <3>1. job[u].run \in Run /\ job[u].run # r /\ Unresumed(job[u].run) = {}
      BY <1>0, <1>5, <2>4, OtherRun, AtThread DEF Entering, Live, Calm, CalmRunsLeaveNoRows
    <3>2. Unresumed(job[u].run)' = {} /\ Asked(job[u].run)' = Asked(job[u].run)
      BY <1>0, <1>1, <3>1
    <3>3. pc[u] = "decided" => taken[u] = Asked(job[u].run)
      BY <1>0 DEF Calm, DecisionsFitInterrupt
    <3>4. pc'[u] = "decided" => thread'[Thread(u)'] # NoInterruptYet
      BY DEF DecisionsAreHeld
    <3> QED BY <1>0, <2>1, <2>2, <3>2, <3>3, <3>4
  <2> QED BY <2>3, <2>4
<1>6. CalmRunsLeaveNoRows'
  <2>1. \A q \in Run : status'[q] \in {"absent", "pending"} =>
           \A p \in Slot : p[1] = q => proposal'[p] = "none"
    BY <1>0, <1>1, <1>2 DEF Calm, CalmRunsLeaveNoRows
  <2>2. \A u \in Task :
           /\ pc'[u] \in {"unsent", "queued"} /\ job'[u] # NoJob /\ job'[u].kind = "execute"
                => ~ (status'[job'[u].run] = "running" /\ taskId'[job'[u].run] = u)
           /\ Entering(u)' => Unresumed(job[u].run)' = {}
    BY <1>3, <1>5
  <2> QED BY <1>0, <1>4, <2>1, <2>2 DEF CalmRunsLeaveNoRows, Unresumed
<1>7. DecisionsFitInterrupt'
  <2>1. pc'[t] = "decided" => thread'[Thread(t)'] # NoInterruptYet
    BY DEF DecisionsAreHeld
  <2> QED BY <1>0, <1>3, <1>5, <2>1 DEF DecisionsFitInterrupt, Asked
<1> QED BY <1>6, <1>7 DEF Calm

\* Without a crash no queued message meets a row that its own task made running.
LEMMA CalmRest ==
    ASSUME IInvFlow, Calm, RowsRest, crashes' = 0, crashes = 0
    PROVE  /\ \A r \in Run : status'[r] \in {"absent", "pending"} =>
                 status[r] \in {"absent", "pending"}
           /\ \A u \in Task :
                 pc'[u] \in {"unsent", "queued"} /\ job'[u] # NoJob /\ job'[u].kind = "execute"
                 => ~ (status'[job'[u].run] = "running" /\ taskId'[job'[u].run] = u)
<1> USE DEF IInvFlow, Inv, TypeOK, Goto, Live, rowVars, jobVars, budgetVars
<1> DEFINE Safe(u) ==
        pc[u] \in {"unsent", "queued"} /\ job[u] # NoJob /\ job[u].kind = "execute"
        => ~ (status[job[u].run] = "running" /\ taskId[job[u].run] = u)
<1>0. \A u \in Task : Safe(u)
  BY DEF Calm, CalmRunsLeaveNoRows
<1>00. \A u \in Task : job[u] # NoJob => job[u].run \in Run
  BY JobIsARecord
<1>1. ASSUME NEW r \in Run, RowStep(r)
      PROVE  /\ \A q \in Run : status'[q] \in {"absent", "pending"}
                                  => status[q] \in {"absent", "pending"}
             /\ \A u \in Task : Safe(u)'
  <2>1. UNCHANGED <<pc, job, taskId>>
    BY <1>1 DEF RowStep, Start, Cancel, Age, FailStale
  <2>2. \A q \in Run :
           /\ status'[q] = "running" => status[q] = "running"
           /\ status'[q] \in {"absent", "pending"} => status[q] \in {"absent", "pending"}
    <3>1. CASE Start(r) \/ Cancel(r) \/ Age(r)
      BY <3>1 DEF Start, Cancel, Age
    <3>2. CASE FailStale(r)
      BY <3>2 DEF FailStale, FailRow
    <3> QED BY <1>1, <3>1, <3>2 DEF RowStep
  <2> QED BY <1>0, <1>00, <2>1, <2>2
<1>2. CASE ListStale
  BY <1>0, <1>2 DEF ListStale
<1>3. ASSUME NEW r \in Run, NEW t \in Task, ReserveExecution(r, t) \/ ReserveResume(r, t)
      PROVE  /\ \A q \in Run : status'[q] \in {"absent", "pending"}
                                  => status[q] \in {"absent", "pending"}
             /\ \A u \in Task : Safe(u)'
  <2>1. /\ UNCHANGED <<status, pc>> /\ status[r] # "running"
        /\ taskId' = [taskId EXCEPT ![r] = t]
        /\ \A u \in Task : u # t => job'[u] = job[u]
        /\ job'[t].run = r
    BY <1>3 DEF ReserveExecution, ReserveResume, Reserve
  <2>2. ASSUME NEW u \in Task, u # t PROVE Safe(u)'
    BY <1>0, <1>00, <2>1, <2>2
  <2>3. Safe(t)'
    BY <2>1
  <2> QED BY <2>1, <2>2, <2>3
<1>4. ASSUME NEW t \in Task, PublishStep(t)
      PROVE  /\ \A q \in Run : status'[q] \in {"absent", "pending"}
                                  => status[q] \in {"absent", "pending"}
             /\ \A u \in Task : Safe(u)'
  <2>1. /\ UNCHANGED <<status, job>>
        /\ \A u \in Task : pc'[u] = pc[u] \/ pc[u] = "unsent"
    BY <1>4 DEF PublishStep, Publish, PublishRaises, Release, CallerCrash, PublishedOnce
  <2>2. \A q \in Run : taskId'[q] = taskId[q] \/ taskId'[q] = NoTask
    BY <1>4 DEF PublishStep, Publish, PublishRaises, Release, CallerCrash
  <2>3. \A u \in Task : u # NoTask
    BY ConstantsAssumption
  <2> QED BY <1>0, <1>00, <2>1, <2>2, <2>3
<1>5. ASSUME NEW t \in Task, Claim(t)
      PROVE  /\ \A q \in Run : status'[q] \in {"absent", "pending"}
                                  => status[q] \in {"absent", "pending"}
             /\ \A u \in Task : Safe(u)'
  <2>1. /\ UNCHANGED <<taskId, job>> /\ pc[t] = "queued" /\ pc'[t] = "claimed"
        /\ \A u \in Task : u # t => pc'[u] = pc[u]
        /\ status' = [status EXCEPT ![job[t].run] = "running"]
    BY <1>5 DEF Claim
  <2>2. job[t] # NoJob /\ job[t].run \in Run /\ job[t].kind \in {"execute", "resume"}
    BY <2>1, JobIsARecord DEF Sent
  <2>3. taskId[job[t].run] \in {NoTask, t}
    BY <1>0, <1>5, <2>1, <2>2 DEF Claim, Claimable
  <2>4. ASSUME NEW u \in Task, u # t PROVE Safe(u)'
    BY <1>0, <1>00, <2>1, <2>2, <2>3, <2>4, ConstantsAssumption
  <2> QED BY <2>1, <2>2, <2>4
<1>6. ASSUME NEW t \in Task,
             \/ Discard(t) \/ SetupRaises(t) \/ NoInterrupt(t) \/ WaitForApproval(t)
             \/ Complete(t) \/ Fail(t) \/ (pc[t] = "claimed" /\ Raise(t))
      PROVE  /\ \A q \in Run : status'[q] \in {"absent", "pending"}
                                  => status[q] \in {"absent", "pending"}
             /\ \A u \in Task : Safe(u)'
  <2>1. /\ job' = job /\ pc'[t] \in {"done", "finishing", "failing"}
        /\ \A u \in Task : u # t => pc'[u] = pc[u]
    BY <1>6 DEF Discard, SetupRaises, NoInterrupt, WaitForApproval, Complete, Fail, Raise
  <2>2. \A q \in Run :
           /\ status'[q] = "running" => status[q] = "running"
           /\ status'[q] \in {"absent", "pending"} => status[q] \in {"absent", "pending"}
    <3>1. CASE Fail(t)
      BY <3>1 DEF Fail, FailRow
    <3>2. CASE ~ Fail(t)
      BY <1>6, <3>2 DEF Discard, SetupRaises, NoInterrupt, WaitForApproval, Complete, Raise
    <3> QED BY <3>1, <3>2
  <2>3. \A q \in Run : taskId'[q] = taskId[q] \/ taskId'[q] = NoTask
    BY <1>6 DEF Discard, SetupRaises, NoInterrupt, WaitForApproval, Complete, Fail, Raise
  <2> QED BY <1>0, <1>00, <2>1, <2>2, <2>3, ConstantsAssumption
<1>7. ASSUME NEW t \in Task, RunsOnly(t)
      PROVE  \/ PublishStep(t) \/ Claim(t)
             \/ Discard(t) \/ SetupRaises(t) \/ NoInterrupt(t) \/ WaitForApproval(t)
             \/ Complete(t) \/ Fail(t) \/ (pc[t] = "claimed" /\ Raise(t))
  BY <1>7 DEF RunsOnly
<1>8. /\ \A q \in Run : status'[q] \in {"absent", "pending"} => status[q] \in {"absent", "pending"}
      /\ \A u \in Task : Safe(u)'
  BY <1>1, <1>2, <1>3, <1>4, <1>5, <1>6, <1>7 DEF RowsRest
<1> QED BY <1>8

LEMMA CalmStep ==
    ASSUME OneRunPerConversation, IInvFlow, Calm, [NextFlow]_vars
    PROVE  Calm'
<1>0. IInvFlow' /\ Kinds
  BY FlowStep, StepKinds DEF IInvFlow
<1>1. CASE crashes' # 0
  BY <1>1 DEF Calm, CalmRunsLeaveNoRows, DecisionsFitInterrupt
<1>2. CASE crashes' = 0 /\ \E t \in Task : GraphStep(t)
  BY <1>0, <1>2, CalmGraphStep
<1>3. CASE UNCHANGED vars
  BY <1>3 DEF vars, runVars, flowVars, proposalVars, graphVars, localVars, Calm,
              CalmRunsLeaveNoRows, DecisionsFitInterrupt, Unresumed, Asked, Thread, Entering
<1>4. CASE RowsSettle
  <2>1. UNCHANGED <<crashes, status, taskId, job, pc, resumed, thread, taken>>
    BY <1>4 DEF RowsSettle, runVars, graphVars, localVars
  <2>2. \A p \in Slot : proposal'[p] = "none" <=> proposal[p] = "none"
    BY <1>4 DEF RowsSettle
  <2>3. \A q : Unresumed(q)' = Unresumed(q) /\ Asked(q)' = Asked(q)
    BY <2>1, <2>2 DEF Unresumed, Asked
  <2>4. \A u \in Task : Entering(u)' = Entering(u) /\ Thread(u)' = Thread(u)
    BY <2>1 DEF Entering, Thread
  <2> QED BY <2>1, <2>2, <2>3, <2>4 DEF Calm, CalmRunsLeaveNoRows, DecisionsFitInterrupt
<1>5. CASE RowsRest /\ crashes' = 0
  <2> USE DEF IInvFlow
  <2>1. /\ UNCHANGED <<proposal, resumed, thread, taken>>
        /\ \A q : Unresumed(q)' = Unresumed(q) /\ Asked(q)' = Asked(q)
    BY <1>5 DEF RowsRest, graphVars, localVars, Unresumed, Asked
  <2>2. crashes = 0
    BY <1>5, ConstantsAssumption
       DEF RowsRest, RowStep, Start, Cancel, Age, FailStale, ListStale, ReserveExecution,
           ReserveResume, Reserve, RunsOnly, PublishStep, Publish, PublishRaises, Release,
           CallerCrash, Claim, Discard, SetupRaises, NoInterrupt, WaitForApproval, Complete,
           Fail, Raise, budgetVars, Inv, TypeOK
  <2>3. \A r \in Run : Unresumed(r)' \subseteq Asked(r)'
    BY <2>1, <2>2 DEF Calm, CalmRunsLeaveNoRows
  <2>4. \A r \in Run : status'[r] \in {"absent", "pending"} => status[r] \in {"absent", "pending"}
    BY <1>5, <2>2, CalmRest
  <2>5. \A u \in Task :
           /\ pc'[u] \in {"unsent", "queued"} /\ job'[u] # NoJob /\ job'[u].kind = "execute"
           => ~ (status'[job'[u].run] = "running" /\ taskId'[job'[u].run] = u)
    BY <1>5, <2>2, CalmRest
  <2>6. ASSUME NEW u \in Task, Entering(u)' PROVE Unresumed(job[u].run)' = {}
    <3>1. \/ pc'[u] \in {"decided", "streaming"}
          \/ pc'[u] = "claimed" /\ job'[u].kind = "execute"
      BY <2>6 DEF Entering
    <3>2. job'[u] = job[u] /\ (Entering(u) \/ Claim(u))
      BY <1>5, <3>1, RestFrame DEF Entering, Live
    <3>3. CASE Entering(u)
      <4>1. Unresumed(job[u].run) = {}
        BY <2>2, <3>3 DEF Calm, CalmRunsLeaveNoRows
      <4> QED BY <2>1, <3>2, <4>1
    <3>4. CASE Claim(u)
      <4>1. job[u].kind = "execute" /\ pc[u] = "queued" /\ pc'[u] = "claimed"
        BY <3>1, <3>2, <3>4 DEF Claim, Goto, Inv, TypeOK
      <4>2. job[u] \in Job
        BY <4>1 DEF Inv, Sent
      <4>3. job[u].run \in Run /\ job[u] # NoJob
        BY <4>2, JobIsARecord
      <4>4. status[job[u].run] = "pending"
        BY <2>2, <3>4, <4>1, <4>3 DEF Claim, Claimable, Calm, CalmRunsLeaveNoRows
      <4>5. Unresumed(job[u].run) = {}
        BY <2>2, <4>3, <4>4 DEF Calm, CalmRunsLeaveNoRows, Unresumed
      <4> QED BY <2>1, <3>2, <4>5
    <3> QED BY <3>2, <3>3, <3>4
  <2>7. CalmRunsLeaveNoRows'
    BY <2>1, <2>2, <2>3, <2>4, <2>5, <2>6 DEF Calm, CalmRunsLeaveNoRows
  <2>8. \A u \in Task : pc'[u] = "decided" => pc[u] = "decided" /\ job'[u] = job[u]
    BY <1>5, RestFrame DEF Live
  <2>9. DecisionsFitInterrupt'
    BY <2>1, <2>2, <2>8 DEF Calm, DecisionsFitInterrupt, Thread
  <2> QED BY <2>7, <2>9 DEF Calm
<1> QED BY <1>0, <1>1, <1>2, <1>3, <1>4, <1>5 DEF Kinds

\* A parked run can be settled, what is handed to its graph is settled for that
\* graph, and what the graph executes was approved and handed on.
THEOREM FlowIsSound == OneRunPerConversation => (SpecFlow => []InvFlow)
<1> SUFFICES ASSUME OneRunPerConversation PROVE SpecFlow => []InvFlow
  OBVIOUS
<1>1. InitFlow => IInvFlow /\ Calm
  <2>1. ASSUME InitFlow PROVE Calm
    BY <2>1, ConstantsAssumption
       DEF InitFlow, Init, Calm, CalmRunsLeaveNoRows, DecisionsFitInterrupt, Unresumed, Entering
  <2> QED BY <2>1, FlowInitially
<1>2. IInvFlow /\ Calm /\ [NextFlow]_vars => (IInvFlow /\ Calm)'
  BY FlowStep, CalmStep
<1>3. ASSUME IInvFlow, Calm PROVE InvFlow
  <2>1. ASSUME NEW r \in Run, status[r] = "waiting_approval" PROVE Unresumed(r) # {}
    <3>1. Parked(r)
      BY <2>1 DEF Parked
    <3>2. thread[ConversationOf[r]] # NoInterruptYet
      BY <1>3, <3>1 DEF IInvFlow, ParkedRunsAreAsked
    <3>3. Asked(r) # {}
      BY FlowAssumption DEF Asked
    <3>4. Asked(r) \subseteq Unresumed(r)
      BY <1>3, <3>1, <3>2, AskedAreSlots DEF IInvFlow, ParkedRunsAreAsked, Unresumed
    <3> QED BY <3>3, <3>4
  <2> QED BY <1>3, <2>1 DEF IInvFlow, Calm, InvFlow, WaitingIsDecidable
<1> QED BY <1>1, <1>2, <1>3, PTL DEF SpecFlow
=============================================================================
