---------------------------- MODULE RunLifecycle ----------------------------
(***************************************************************************)
(* What the rest of the system may rely on about agent runs, without       *)
(* messages, reservations and faults: a run is executed by one worker at a *)
(* time; only that worker parks or completes it; anybody may cancel it     *)
(* while it is unfinished, and nothing undoes that; and a run that was     *)
(* given up as failed can still be parked or completed by a worker that    *)
(* was only slow (complete and wait_for_approval refuse nothing but a      *)
(* cancelled run).                                                         *)
(***************************************************************************)
CONSTANTS Run, Worker, Nobody

VARIABLES
    status,             \* AgentRun.status
    executor            \* who is at work on the run

vars == <<status, executor>>

Finished == {"completed", "failed", "cancelled"}

TypeOK ==
    /\ status \in [Run -> {"absent", "pending", "running", "waiting_approval"}
                          \union Finished]
    /\ executor \in [Run -> Worker \union {Nobody}]

Init ==
    /\ status = [r \in Run |-> "absent"]
    /\ executor = [r \in Run |-> Nobody]

Become(r, s) == status' = [status EXCEPT ![r] = s]

Start(r) ==
    /\ status[r] = "absent"
    /\ Become(r, "pending")
    /\ UNCHANGED executor

\* A run is entered for the first time, again after a crash, or resumed.
Enter(r, w) ==
    /\ executor[r] = Nobody
    /\ status[r] \in {"pending", "running", "waiting_approval"}
    /\ executor' = [executor EXCEPT ![r] = w]
    /\ Become(r, "running")

\* The worker is done with the run, fails it, or leaves it as it is.
Leave(r) ==
    /\ executor[r] # Nobody
    /\ executor' = [executor EXCEPT ![r] = Nobody]
    /\ \/ status[r] # "cancelled" /\ \E s \in {"waiting_approval", "completed"} : Become(r, s)
       \/ status[r] \notin Finished /\ Become(r, "failed")
       \/ UNCHANGED status

\* By the stale sweep, by whoever could not publish it, by the user.
GiveUp(r) ==
    /\ status[r] \notin Finished \union {"absent"}
    /\ Become(r, "failed")
    /\ UNCHANGED executor

Cancel(r) ==
    /\ status[r] \notin Finished \union {"absent"}
    /\ Become(r, "cancelled")
    /\ UNCHANGED executor

Next ==
    \E r \in Run :
        \/ Start(r) \/ Leave(r) \/ GiveUp(r) \/ Cancel(r)
        \/ \E w \in Worker : Enter(r, w)

Spec == Init /\ [][Next]_vars
=============================================================================
