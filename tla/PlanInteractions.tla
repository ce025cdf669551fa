-------------------------- MODULE PlanInteractions --------------------------
(***************************************************************************)
(* InteractionArtifact rows of one schedule plan: the cards on which a     *)
(* user edits, reorders or dismisses it, and the transactions that race    *)
(* for them and for the plan.                                              *)
(*                                                                         *)
(* The order of locks is the point.  submit takes the user's advisory      *)
(* lock, its artifact, the plan and the other artifacts; apply takes the   *)
(* advisory lock, the plan and its artifacts; abandon takes the plan and   *)
(* its artifacts and no advisory lock; ensure reads the plan without any   *)
(* lock and locks the latest artifact.  submit and abandon may therefore   *)
(* wait for each other, and PostgreSQL rolls one of them back.             *)
(*                                                                         *)
(* A transaction's writes are seen when it commits.                        *)
(***************************************************************************)
EXTENDS Naturals

CONSTANTS
    Process,            \* requests being served
    Kind,               \* the two interaction types of plans
    Key,                \* idempotency keys
    Nobody,
    MaxArtifacts,       \* bound: artifacts ever made
    MaxVersion          \* bound: versions of the plan that are edited

ASSUME InteractionAssumption ==
    /\ Nobody \notin Process /\ Kind # {} /\ Key # {}
    /\ MaxArtifacts \in Nat \ {0} /\ MaxVersion \in Nat \ {0}

Artifact == 1..MaxArtifacts     \* in the order of created_at

VARIABLES
    plan,               \* SchedulePlan.status and version
    artifact,           \* InteractionArtifact rows
    submission,         \* InteractionSubmission rows, by idempotency key
    told,               \* what the answers to requests with a key have said
    advisory,           \* who holds the user's advisory lock
    planLock,           \* who holds the plan row
    rowLock,            \* who holds an artifact row
    request             \* what each process is doing

vars == <<plan, artifact, submission, told, advisory, planLock, rowLock, request>>

\* COMPLETED and ABANDONED are told apart nowhere: both are resolved.
Status == {"none", "pending", "resolved", "stale"}
NoArtifact == [status |-> "none", kind |-> CHOOSE k \in Kind : TRUE,
               version |-> 0, planVersion |-> 0]
Idle == [op |-> "idle", at |-> "start", row |-> 1,
         version |-> 0, planVersion |-> 0, kind |-> CHOOSE k \in Kind : TRUE,
         verdict |-> "none", key |-> CHOOSE k \in Key : TRUE, found |-> {}]

Op == {"idle", "submit", "ensure", "abandon", "write"}
Place == {"start", "advisory", "row", "plan", "commit"}
Verdict == {"none", "dismissed", "accepted", "rejected"}

Card == [status : Status, kind : Kind, version : Nat, planVersion : Nat]
\* What was decided on a card that was shown at a version.
Decision == [row : Artifact, version : Nat, verdict : Verdict]
Request == [op : Op, at : Place, row : Artifact, version : Nat, planVersion : Nat,
            kind : Kind, verdict : Verdict, key : Key, found : SUBSET Decision]

TypeOK ==
    /\ plan \in [status : {"draft", "ended"}, version : Nat]
    /\ artifact \in [Artifact -> Card]
    /\ submission \in [Key -> SUBSET Decision]
    /\ told \in [Key -> SUBSET Decision]
    /\ {advisory, planLock} \subseteq Process \union {Nobody}
    /\ rowLock \in [Artifact -> Process \union {Nobody}]
    /\ request \in [Process -> Request]

Init ==
    /\ plan = [status |-> "draft", version |-> 1]
    /\ artifact = [a \in Artifact |-> NoArtifact]
    /\ submission = [k \in Key |-> {}]
    /\ told = [k \in Key |-> {}]
    /\ advisory = Nobody
    /\ planLock = Nobody
    /\ rowLock = [a \in Artifact |-> Nobody]
    /\ request = [p \in Process |-> Idle]

-----------------------------------------------------------------------------
Pending == {a \in Artifact : artifact[a].status = "pending"}
Made == {a \in Artifact : artifact[a].status # "none"}
Latest(kind) == {a \in Made : /\ artifact[a].kind = kind
                              /\ \A b \in Made : artifact[b].kind = kind => b <= a}

At(p, op, place) == request[p].op \in op /\ request[p].at = place
Go(p, place) == request' = [request EXCEPT ![p].at = place]

\* A transaction-scoped advisory lock taken for the session.
ReleaseRows(p) ==
    /\ planLock' = IF planLock = p THEN Nobody ELSE planLock
    /\ rowLock' = [a \in Artifact |-> IF rowLock[a] = p THEN Nobody ELSE rowLock[a]]
    /\ request' = [request EXCEPT ![p] = Idle]
    /\ UNCHANGED advisory

\* The end of a transaction releases its locks.
Release(p) ==
    /\ advisory' = IF advisory = p THEN Nobody ELSE advisory
    /\ planLock' = IF planLock = p THEN Nobody ELSE planLock
    /\ rowLock' = [a \in Artifact |-> IF rowLock[a] = p THEN Nobody ELSE rowLock[a]]
    /\ request' = [request EXCEPT ![p] = Idle]

Rollback(p) == Release(p) /\ UNCHANGED <<plan, artifact, submission, told>>

TakeAdvisory(p, next) ==
    /\ advisory = Nobody
    /\ advisory' = p
    /\ Go(p, next)
    /\ UNCHANGED <<plan, artifact, submission, told, planLock, rowLock>>

\* The pending cards of the plan can all be locked by p.
CardsFree(p) == \A a \in Pending : rowLock[a] \in {Nobody, p}

-----------------------------------------------------------------------------
(* submit: an edit or a dismissal of what the client was shown; which of the  *)
(* two it is, is told where it first matters.                                 *)

\* The client sends a key and the version on its card, or sends again what it
\* sent under the key.  The key is looked for before any lock is taken.
BeginSubmit(p, a, key) ==
    /\ request[p] = Idle
    /\ a \in Made
    /\ \E version \in 1..artifact[a].version :
          /\ \/ a \in Pending /\ version = artifact[a].version
             \/ \E d \in submission[key] : d.row = a /\ d.version = version
          /\ request' = [request EXCEPT ![p] =
                           [@ EXCEPT !.op = "submit", !.at = "advisory", !.row = a,
                                     !.version = version,
                                     !.planVersion = artifact[a].planVersion,
                                     !.key = key, !.found = submission[key]]]
    /\ UNCHANGED <<plan, artifact, submission, told, advisory, planLock, rowLock>>

SubmitAdvisory(p) == At(p, {"submit"}, "advisory") /\ TakeAdvisory(p, "row")

\* The card is pending, at the version sent, and of the plan as it is.
StillAsShown(p) ==
    LET a == artifact[request[p].row] IN
    /\ a.status = "pending"
    /\ a.version = request[p].version
    /\ a.planVersion = plan.version

SubmitRow(p) ==
    LET a == request[p].row IN
    /\ At(p, {"submit"}, "row")
    /\ request[p].found = {}
    /\ rowLock[a] = Nobody
    /\ IF StillAsShown(p)
       THEN /\ rowLock' = [rowLock EXCEPT ![a] = p]
            /\ \/ Go(p, "plan")
               \/ request' = [request EXCEPT ![p].at = "commit", ![p].verdict = "dismissed"]
            /\ UNCHANGED <<plan, artifact, submission, told, advisory, planLock>>
       ELSE Rollback(p)

\* The decisions found that are the one this request asks for.
Replayed(p) == {d \in request[p].found : /\ d.row = request[p].row
                                         /\ d.version = request[p].version}

\* What the client that sent p takes a verdict to be about.
Answer(p, verdict) ==
    [row |-> request[p].row, version |-> request[p].version, verdict |-> verdict]

\* The key was found: the answer it had is given again, unless the action or
\* its values are others.
SubmitReplay(p) ==
    /\ At(p, {"submit"}, "row")
    /\ request[p].found # {}
    /\ rowLock[request[p].row] = Nobody
    /\ told' \in {told, [told EXCEPT ![request[p].key] =
                            @ \union {Answer(p, d.verdict) : d \in Replayed(p)}]}
    /\ Release(p)
    /\ UNCHANGED <<plan, artifact, submission>>

\* edit_schedule_plan under the plan's row lock; it may be refused for reasons
\* of the schedule, and it is for a plan that was abandoned meanwhile.
SubmitPlan(p) ==
    /\ At(p, {"submit"}, "plan")
    /\ planLock = Nobody
    /\ \E verdict \in {"accepted", "rejected"} :
          /\ verdict = "accepted" => /\ plan.status = "draft"
                                     /\ plan.version = artifact[request[p].row].planVersion
                                     /\ plan.version < MaxVersion
          /\ planLock' = p
          /\ request' = [request EXCEPT ![p].verdict = verdict,
                                        ![p].at = "commit"]
    /\ UNCHANGED <<plan, artifact, submission, told, advisory, rowLock>>

\* An accepted edit that leaves the card's version as it was.
AcceptedSameVersion(rows, a, version) ==
    [b \in Artifact |->
        IF b = a THEN [rows[b] EXCEPT !.planVersion = version]
        ELSE IF rows[b].status = "pending" THEN [rows[b] EXCEPT !.status = "stale"]
        ELSE rows[b]]

\* The card an edit came from follows the plan; every other one is stale.
Accepted(rows, a, version) ==
    [b \in Artifact |->
        IF b = a THEN [rows[b] EXCEPT !.version = @ + 1, !.planVersion = version]
        ELSE IF rows[b].status = "pending" THEN [rows[b] EXCEPT !.status = "stale"]
        ELSE rows[b]]

\* Rows of a key that another transaction may have recorded as well.
RecordAgain(p) ==
    LET d == Answer(p, request[p].verdict) IN
    submission' = [submission EXCEPT ![request[p].key] = @ \union {d}]

\* inter_user_idem_uniq: a key another transaction recorded first undoes this.
Record(p) ==
    LET d == Answer(p, request[p].verdict) IN
    /\ submission[request[p].key] = {}
    /\ submission' = [submission EXCEPT ![request[p].key] = {d}]

SubmitCommit(p) ==
    LET a == request[p].row IN
    /\ At(p, {"submit"}, "commit")
    /\ Record(p)
    /\ told' = [told EXCEPT ![request[p].key] = @ \union {Answer(p, request[p].verdict)}]
    /\ \/ /\ request[p].verdict = "dismissed"
          /\ artifact' = [artifact EXCEPT ![a].status = "resolved", ![a].version = @ + 1]
          /\ UNCHANGED plan
       \/ /\ request[p].verdict = "accepted"
          /\ CardsFree(p)
          /\ plan' = [plan EXCEPT !.version = @ + 1]
          /\ artifact' = Accepted(artifact, a, plan.version + 1)
       \/ /\ request[p].verdict = "rejected"
          /\ UNCHANGED <<plan, artifact>>
    /\ Release(p)

\* The key was recorded since it was looked for, and this request is undone.
SubmitKeyTaken(p) ==
    /\ At(p, {"submit"}, "commit")
    /\ submission[request[p].key] # {}
    /\ Rollback(p)

-----------------------------------------------------------------------------
(* ensure: the card of a kind, made when there is none to go on with *)

\* The plan is read without a lock ...
BeginEnsure(p, kind) ==
    /\ request[p] = Idle
    /\ plan.status = "draft"
    /\ request' = [request EXCEPT ![p] = [@ EXCEPT !.op = "ensure", !.at = "row", !.kind = kind,
                                                   !.planVersion = plan.version]]
    /\ UNCHANGED <<plan, artifact, submission, told, advisory, planLock, rowLock>>

\* ... and compared with the latest card once that is free.
EnsureExisting(p) ==
    /\ At(p, {"ensure"}, "row")
    /\ \E a \in Latest(request[p].kind) :
          LET row == artifact[a]
              same == row.planVersion = request[p].planVersion
          IN /\ rowLock[a] = Nobody
             /\ row.status \in {"pending", "resolved"} /\ same
    /\ Rollback(p)

EnsureNew(p) ==
    LET kind == request[p].kind IN
    /\ At(p, {"ensure"}, "row")
    /\ \A a \in Latest(kind) :
          /\ rowLock[a] = Nobody
          /\ \/ artifact[a].status = "stale"
             \/ artifact[a].planVersion # request[p].planVersion
    /\ \E new \in Artifact \ Made :
          /\ \A b \in Artifact \ Made : new <= b
          /\ artifact' =
               [a \in Artifact |->
                  IF a = new
                  THEN [status |-> "pending", kind |-> kind, version |-> 1,
                        planVersion |-> request[p].planVersion]
                  ELSE IF a \in Latest(kind) /\ artifact[a].status = "pending"
                  THEN [artifact[a] EXCEPT !.status = "stale"]
                  ELSE artifact[a]]
    /\ Release(p)
    /\ UNCHANGED <<plan, submission, told>>

\* Bound: no artifact left to make.
EnsureBound(p) == At(p, {"ensure"}, "row") /\ Made = Artifact /\ Rollback(p)

\* list_pending, and ensure itself, on a card whose time is up: its status
\* EXPIRED is as good as STALE.
Expire(a) ==
    /\ a \in Pending /\ rowLock[a] = Nobody
    /\ artifact' = [artifact EXCEPT ![a].status = "stale"]
    /\ UNCHANGED <<plan, submission, told, advisory, planLock, rowLock, request>>

-----------------------------------------------------------------------------
(* What else happens to the plan *)

\* abandon_schedule_plan; or apply, edit and regenerate from the plan's page.
Begin(p, op) ==
    /\ request[p] = Idle
    /\ plan.status = "draft"
    /\ request' = [request EXCEPT ![p] =
                     [@ EXCEPT !.op = op, !.planVersion = plan.version,
                               !.at = IF op = "abandon" THEN "plan" ELSE "advisory"]]
    /\ UNCHANGED <<plan, artifact, submission, told, advisory, planLock, rowLock>>

PlanAdvisory(p) == At(p, {"write"}, "advisory") /\ TakeAdvisory(p, "plan")

PlanRow(p) ==
    /\ At(p, {"write", "abandon"}, "plan")
    /\ planLock = Nobody
    /\ IF plan.status = "draft" /\ plan.version = request[p].planVersion
       THEN /\ planLock' = p
            /\ Go(p, "commit")
            /\ UNCHANGED <<plan, artifact, submission, told, advisory, rowLock>>
       ELSE Rollback(p)

\* resolve_plan_interactions
Resolved(rows) ==
    [a \in Artifact |-> IF rows[a].status = "pending" THEN [rows[a] EXCEPT !.status = "resolved"]
                        ELSE rows[a]]

\* apply_schedule_plan, _mark_plan_invalidated and abandon_schedule_plan.
EndPlan ==
    /\ plan' = [plan EXCEPT !.status = "ended", !.version = @ + 1]
    /\ artifact' = Resolved(artifact)

PlanCommit(p) ==
    /\ At(p, {"write", "abandon"}, "commit")
    /\ \/ CardsFree(p) /\ EndPlan
       \/ /\ request[p].op = "write"
          /\ plan.version < MaxVersion
          /\ plan' = [plan EXCEPT !.version = @ + 1]
          /\ UNCHANGED artifact
    /\ Release(p)
    /\ UNCHANGED <<submission, told>>

-----------------------------------------------------------------------------
\* Whom a process waits for.
WaitsFor(p) ==
    CASE request[p].at = "advisory" -> {advisory} \ {Nobody}
      [] request[p].at = "plan" -> {planLock} \ {Nobody}
      [] At(p, {"submit"}, "row") -> {rowLock[request[p].row]} \ {Nobody}
      [] At(p, {"ensure"}, "row") -> {rowLock[a] : a \in Latest(request[p].kind)} \ {Nobody}
      [] planLock = p -> {rowLock[a] : a \in Pending} \ {Nobody, p}
      [] OTHER -> {}

\* PostgreSQL ends a cycle of two waiting transactions by rolling one back.
DeadlockVictim(p) ==
    /\ \E q \in Process : q \in WaitsFor(p) /\ p \in WaitsFor(q)
    /\ Rollback(p)

Start(p) ==
    \/ \E a \in Artifact, key \in Key : BeginSubmit(p, a, key)
    \/ \E kind \in Kind : BeginEnsure(p, kind)
    \/ \E op \in {"write", "abandon"} : Begin(p, op)

Continue(p) ==
    \/ SubmitAdvisory(p) \/ SubmitRow(p) \/ SubmitReplay(p) \/ SubmitPlan(p)
    \/ SubmitCommit(p) \/ SubmitKeyTaken(p)
    \/ EnsureExisting(p) \/ EnsureNew(p) \/ EnsureBound(p)
    \/ PlanAdvisory(p) \/ PlanRow(p) \/ PlanCommit(p)

Next ==
    \/ \E p \in Process : Start(p) \/ Continue(p) \/ DeadlockVictim(p)
    \/ \E a \in Artifact : Expire(a)

Spec == Init /\ [][Next]_vars

\* A request that can go on does, and PostgreSQL looks for deadlocks; a lock
\* passes on in the order in which it was asked for.
FairSpec ==
    /\ Spec
    /\ \A p \in Process : SF_vars(Continue(p)) /\ WF_vars(DeadlockVictim(p))

-----------------------------------------------------------------------------
(* Properties *)

\* An edit takes effect only on the version of the plan that was on the card
\* the user edited, though submit compares the card's version and not it.
EditsWhatWasShown ==
    \A p \in Process :
        At(p, {"submit"}, "commit") /\ request[p].verdict = "accepted"
        => plan = [status |-> "draft", version |-> request[p].planVersion]

\* However often requests are sent again, and however many of them looked for
\* their key before any had recorded it: all answers under a key are of the one
\* decision it stands for, and a version of a card is decided on under one key.
OneDecisionToAKey ==
    /\ \A key \in Key : \A d \in told[key] : submission[key] = {d}
    /\ \A j, k \in Key : \A d \in submission[j], e \in submission[k] :
          /\ d.row = e.row /\ d.version = e.version
          /\ "rejected" \notin {d.verdict, e.verdict}
          => j = k /\ d = e

\* inter_user_type_plan_pending, and what ensure's race leaves is harmless: a
\* card that appears on a plan that has ended can never be submitted.
CardsOfEndedPlansAreDead ==
    /\ \A a, b \in Pending : artifact[a].kind = artifact[b].kind => a = b
    /\ plan.status # "draft" => \A a \in Pending : artifact[a].planVersion < plan.version

\* What each request holds.
LocksFollowRequests ==
    \A p \in Process :
        /\ request[p].op # "submit" => request[p].verdict = "none"
        /\ planLock = p <=> request[p].at = "commit" /\ request[p].verdict # "dismissed"
        /\ \A a \in Artifact :
              rowLock[a] = p <=> /\ request[p].op = "submit" /\ request[p].row = a
                                 /\ request[p].at \in {"plan", "commit"}

\* A card that still has the version a request was sent with shows the same
\* version of the plan, and stays as it is once the request holds it.
SubmissionsFollowCards ==
    \A p \in Process : request[p].op = "submit" =>
        LET card == artifact[request[p].row] IN
        /\ card.status # "none" /\ request[p].version <= card.version
        /\ card.version = request[p].version => card.planVersion = request[p].planVersion
        /\ request[p].at \in {"plan", "commit"} =>
              card.status = "pending" /\ card.version = request[p].version

\* The plan stays as it is for the request that holds it.
PlanIsAsTested ==
    \A p \in Process :
        planLock = p /\ request[p].verdict # "rejected"
        => plan = [status |-> "draft", version |-> request[p].planVersion]

\* Cards, and those that are about to be made, are of the plan as it was.
CardsAreOfThePlan ==
    /\ \A a \in Artifact : artifact[a].planVersion <= plan.version
    /\ \A p \in Process : request[p].op = "ensure" =>
          /\ request[p].planVersion <= plan.version
          /\ plan.status # "draft" => request[p].planVersion < plan.version

\* Cards are made in order, and only the last of a kind is pending.
LatestArePending ==
    /\ \A a \in Made, b \in Artifact : b <= a => b \in Made
    /\ \A a \in Pending, b \in Made : artifact[b].kind = artifact[a].kind => b <= a

\* A card takes effect only on what it shows, and a plan that has ended leaves
\* none that could.
CardInv ==
    /\ TypeOK
    /\ LocksFollowRequests /\ SubmissionsFollowCards /\ PlanIsAsTested
    /\ CardsAreOfThePlan /\ LatestArePending
    /\ EditsWhatWasShown /\ CardsOfEndedPlansAreDead

\* Every request is answered although submit and abandon lock in opposite
\* orders.
EveryRequestEnds == \A p \in Process : []<>(request[p] = Idle)
=============================================================================
