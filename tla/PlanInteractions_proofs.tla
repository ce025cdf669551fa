----------------------- MODULE PlanInteractions_proofs -----------------------
(***************************************************************************)
(* A card takes effect only on what it shows, for any number of requests,  *)
(* cards, kinds, keys and versions of the plan.                            *)
(*                                                                         *)
(* What a request has tested stays true because of the locks it holds:     *)
(* LocksFollowRequests says which these are, SubmissionsFollowCards and    *)
(* PlanIsAsTested what was tested under them.  Nobody else writes a card   *)
(* or the plan then, although ensure and Expire write cards without the    *)
(* plan's lock and submit and abandon take their locks in opposite orders. *)
(***************************************************************************)
EXTENDS PlanInteractions, TLAPS

\* What is left of the last part of CardInv.
CardsOfEndedPlansAreOld ==
    plan.status # "draft" => \A a \in Pending : artifact[a].planVersion < plan.version

\* A key stands for one decision; the card has moved on unless it was rejected.
KeysAreDecided ==
    \A key \in Key :
        /\ \A d \in told[key] : submission[key] = {d}
        /\ \A d \in submission[key] :
              /\ \A e \in submission[key] : d = e
              /\ artifact[d.row].status # "none" /\ d.version <= artifact[d.row].version
              /\ d.version = artifact[d.row].version => d.verdict = "rejected"

\* No two decisions but rejections are on one version of a card.
CardsAreDecidedOnce ==
    \A j, k \in Key : \A d \in submission[j], e \in submission[k] :
        /\ d.row = e.row /\ d.version = e.version
        /\ "rejected" \notin {d.verdict, e.verdict}
        => j = k /\ d = e

\* What a request found is still there.
FoundIsRecorded == \A p \in Process : request[p].found \subseteq submission[request[p].key]

KeysHold == KeysAreDecided /\ CardsAreDecidedOnce /\ FoundIsRecorded

Core ==
    /\ TypeOK
    /\ LocksFollowRequests /\ SubmissionsFollowCards /\ PlanIsAsTested
    /\ CardsAreOfThePlan /\ LatestArePending /\ CardsOfEndedPlansAreOld
    /\ KeysHold

\* The other parts follow.
LEMMA CoreIsAll == Core => CardInv /\ OneDecisionToAKey
<1>1. ASSUME Core PROVE EditsWhatWasShown
  BY <1>1 DEF Core, TypeOK, LocksFollowRequests, PlanIsAsTested, EditsWhatWasShown, At
<1>2. ASSUME Core PROVE CardsOfEndedPlansAreDead
  <2>1. ASSUME NEW a \in Pending, NEW b \in Pending, artifact[a].kind = artifact[b].kind
        PROVE  a = b
    <3>1. a \in Made /\ b \in Made /\ a \in Nat /\ b \in Nat
      BY DEF Pending, Made, Artifact
    <3> QED BY <1>2, <2>1, <3>1 DEF Core, LatestArePending
  <2> QED BY <1>2, <2>1 DEF Core, CardsOfEndedPlansAreDead, CardsOfEndedPlansAreOld
<1>3. ASSUME Core PROVE OneDecisionToAKey
  BY <1>3 DEF Core, KeysHold, KeysAreDecided, CardsAreDecidedOnce, OneDecisionToAKey
<1> QED BY <1>1, <1>2, <1>3 DEF Core, CardInv

-----------------------------------------------------------------------------
(* Locks *)

LEMMA IdleIsRequest == Idle \in Request
<1>1. 1 \in Artifact
  BY InteractionAssumption DEF Artifact
<1>2. (CHOOSE k \in Kind : TRUE) \in Kind
  BY InteractionAssumption
<1>3. (CHOOSE k \in Key : TRUE) \in Key
  BY InteractionAssumption
<1> QED BY <1>1, <1>2, <1>3 DEF Idle, Request, Op, Place, Verdict

\* The end of a transaction.
LEMMA Releasing ==
    ASSUME TypeOK, NEW p \in Process, Release(p)
    PROVE  /\ request' \in [Process -> Request] /\ request'[p] = Idle
           /\ \A q \in Process \ {p} : request'[q] = request[q]
           /\ {advisory', planLock'} \subseteq Process \union {Nobody}
           /\ rowLock' \in [Artifact -> Process \union {Nobody}]
           /\ planLock' # p /\ \A a \in Artifact : rowLock'[a] # p
           /\ \A q \in Process \ {p} :
                 /\ planLock' = q <=> planLock = q
                 /\ \A a \in Artifact : rowLock'[a] = q <=> rowLock[a] = q
<1>1. request' = [request EXCEPT ![p] = Idle]
  BY DEF Release
<1>2. request' \in [Process -> Request] /\ request'[p] = Idle
      /\ \A q \in Process \ {p} : request'[q] = request[q]
  BY <1>1, IdleIsRequest DEF TypeOK
<1>3. {advisory', planLock'} \subseteq Process \union {Nobody}
  BY DEF TypeOK, Release
<1>4. rowLock' \in [Artifact -> Process \union {Nobody}]
  BY DEF TypeOK, Release
<1>5. planLock' # p /\ \A a \in Artifact : rowLock'[a] # p
  BY InteractionAssumption DEF TypeOK, Release
<1>6. \A q \in Process \ {p} :
         /\ planLock' = q <=> planLock = q
         /\ \A a \in Artifact : rowLock'[a] = q <=> rowLock[a] = q
  BY InteractionAssumption DEF TypeOK, Release
<1> QED BY <1>2, <1>3, <1>4, <1>5, <1>6

LEMMA LocksReleased ==
    ASSUME Core, NEW p \in Process, Release(p)
    PROVE  LocksFollowRequests'
<1>1. Idle.at = "start" /\ Idle.op = "idle" /\ Idle.verdict = "none"
  BY DEF Idle
<1> QED BY <1>1, Releasing DEF Core, LocksFollowRequests

\* A request leaves, and those that go on still find what they found.
LEMMA FoundStays ==
    ASSUME Core, NEW p \in Process, Release(p),
           \A key \in Key : submission[key] \subseteq submission'[key]
    PROVE  FoundIsRecorded'
<1>1. Idle.found = {}
  BY DEF Idle
<1>2. ASSUME NEW q \in Process \ {p}
      PROVE  request'[q].found \subseteq submission'[request'[q].key]
  <2>1. request'[q] = request[q] /\ request[q] \in Request
    BY Releasing DEF Core, TypeOK
  <2>2. request[q].key \in Key
    BY <2>1 DEF Request
  <2> QED BY <2>1, <2>2 DEF Core, KeysHold, FoundIsRecorded
<1>3. request'[p].found = {}
  BY <1>1, Releasing DEF Core
<1> QED BY <1>2, <1>3 DEF FoundIsRecorded

\* Ending a request disturbs no other.
LEMMA EndingKeeps ==
    ASSUME Core, NEW p \in Process, Release(p), UNCHANGED <<plan, artifact, submission>>,
           told' \in [Key -> SUBSET Decision], KeysAreDecided'
    PROVE  Core'
<1>1. Idle.at = "start" /\ Idle.op = "idle" /\ Idle.verdict = "none"
  BY DEF Idle
<1>2. TypeOK'
  BY Releasing DEF Core, TypeOK
<1>3. LocksFollowRequests'
  BY LocksReleased
<1>4. SubmissionsFollowCards' /\ PlanIsAsTested'
  BY <1>1, Releasing DEF Core, SubmissionsFollowCards, PlanIsAsTested
<1>5. CardsAreOfThePlan'
  BY <1>1, Releasing DEF Core, CardsAreOfThePlan
<1>6. LatestArePending' /\ CardsOfEndedPlansAreOld'
  BY DEF Core, LatestArePending, CardsOfEndedPlansAreOld, Made, Pending
<1>7. KeysHold'
  BY FoundStays DEF Core, KeysHold, CardsAreDecidedOnce
<1> QED BY <1>2, <1>3, <1>4, <1>5, <1>6, <1>7 DEF Core

LEMMA RollbackKeeps ==
    ASSUME Core, NEW p \in Process, Rollback(p)
    PROVE  Core'
<1>1. Release(p) /\ UNCHANGED <<plan, artifact, submission>> /\ told' = told
  BY DEF Rollback
<1>2. told' \in [Key -> SUBSET Decision]
  BY <1>1 DEF Core, TypeOK
<1>3. KeysAreDecided'
  BY <1>1 DEF Core, KeysHold, KeysAreDecided
<1> QED BY <1>1, <1>2, <1>3, EndingKeeps

\* An answer that is given again is of the decision that was recorded.
LEMMA ReplayKeeps ==
    ASSUME Core, NEW p \in Process, SubmitReplay(p)
    PROVE  Core'
<1> DEFINE key == request[p].key
           again == {Answer(p, d.verdict) : d \in Replayed(p)}
<1>1. Release(p) /\ UNCHANGED <<plan, artifact, submission>>
      /\ told' \in {told, [told EXCEPT ![key] = @ \union again]}
  BY DEF SubmitReplay
<1>2. request[p] \in Request /\ key \in Key /\ request[p].found \in SUBSET Decision
  BY DEF Core, TypeOK, Request
<1>3. ASSUME NEW e \in again PROVE e \in request[p].found
  <2>1. PICK d \in Replayed(p) : e = Answer(p, d.verdict)
    OBVIOUS
  <2>2. d \in request[p].found /\ d.row = request[p].row /\ d.version = request[p].version
    BY DEF Replayed
  <2>3. d \in Decision
    BY <1>2, <2>2
  <2>4. e = d
    BY <2>1, <2>2, <2>3 DEF Answer, Decision
  <2> QED BY <2>2, <2>4
<1>4. submission \in [Key -> SUBSET Decision] /\ told \in [Key -> SUBSET Decision]
      /\ again \in SUBSET Decision
  BY <1>2, <1>3 DEF Core, TypeOK
<1>5. \A e \in again : e \in submission[key]
  BY <1>2, <1>3 DEF Core, KeysHold, FoundIsRecorded
<1> HIDE DEF key, again
<1>6. told' \in [Key -> SUBSET Decision]
  BY <1>1, <1>2, <1>4
<1>7. ASSUME NEW k \in Key, NEW d \in told'[k] PROVE submission[k] = {d}
  <2>1. CASE d \in told[k]
    BY <2>1 DEF Core, KeysHold, KeysAreDecided
  <2>2. CASE d \notin told[k]
    <3>1. k = key /\ d \in again
      BY <1>1, <1>2, <1>4, <1>7, <2>2
    <3>2. d \in submission[k] /\ \A e \in submission[k] : d = e
      BY <1>5, <3>1 DEF Core, KeysHold, KeysAreDecided
    <3> QED BY <3>2
  <2> QED BY <2>1, <2>2
<1>8. KeysAreDecided'
  BY <1>1, <1>7 DEF Core, KeysHold, KeysAreDecided
<1> QED BY <1>1, <1>6, <1>8, EndingKeeps

\* What the next state asks of a request that goes on as r.
FollowsItsCard(r) ==
    r.op = "submit" =>
        LET card == artifact[r.row] IN
        /\ card.status # "none" /\ r.version <= card.version
        /\ card.version = r.version => card.planVersion = r.planVersion

IsOfThePlan(r) ==
    r.op = "ensure" => /\ r.planVersion <= plan.version
                       /\ plan.status # "draft" => r.planVersion < plan.version

HoldsNothing(r) == r.at \notin {"plan", "commit"} \/ (r.at = "plan" /\ r.op # "submit")

FoundItsKey(r) == r.found \subseteq submission[r.key]

HasItsVerdict(r) == r.op # "submit" => r.verdict = "none"

\* A request goes on, taking no lock of the rows.
LEMMA Proceeding ==
    ASSUME Core, NEW p \in Process, NEW r \in Request, request' = [request EXCEPT ![p] = r],
           UNCHANGED <<plan, artifact, submission, told, planLock, rowLock>>,
           advisory' \in Process \union {Nobody},
           request[p].at \notin {"plan", "commit"},
           HoldsNothing(r), FollowsItsCard(r), IsOfThePlan(r), HasItsVerdict(r), FoundItsKey(r)
    PROVE  Core'
<1>1. request'[p] = r /\ \A q \in Process \ {p} : request'[q] = request[q]
  BY DEF Core, TypeOK
<1>2. TypeOK'
  BY DEF Core, TypeOK
<1>3. LocksFollowRequests'
  BY <1>1 DEF Core, LocksFollowRequests, HoldsNothing, HasItsVerdict
<1>4. SubmissionsFollowCards'
  BY <1>1 DEF Core, SubmissionsFollowCards, HoldsNothing, FollowsItsCard
<1>5. PlanIsAsTested'
  BY <1>1 DEF Core, LocksFollowRequests, PlanIsAsTested, HoldsNothing
<1>6. CardsAreOfThePlan'
  BY <1>1 DEF Core, CardsAreOfThePlan, IsOfThePlan
<1>7. LatestArePending' /\ CardsOfEndedPlansAreOld'
  BY DEF Core, LatestArePending, CardsOfEndedPlansAreOld, Made, Pending
<1>8. KeysHold'
  BY <1>1 DEF Core, KeysHold, KeysAreDecided, CardsAreDecidedOnce, FoundIsRecorded, FoundItsKey
<1> QED BY <1>2, <1>3, <1>4, <1>5, <1>6, <1>7, <1>8 DEF Core

-----------------------------------------------------------------------------
(* Requests begin, and wait *)

LEMMA BeginSubmitKeeps ==
    ASSUME Core, NEW p \in Process, NEW a \in Artifact, NEW key \in Key,
           BeginSubmit(p, a, key)
    PROVE  Core'
<1>1. artifact[a] \in Card /\ artifact[a].status # "none" /\ artifact[a].version \in Nat
  BY DEF Core, TypeOK, BeginSubmit, Made, Card
<1>2. PICK version \in 1..artifact[a].version :
         request' = [request EXCEPT ![p] =
                        [@ EXCEPT !.op = "submit", !.at = "advisory", !.row = a,
                                  !.version = version,
                                  !.planVersion = artifact[a].planVersion,
                                  !.key = key, !.found = submission[key]]]
  BY DEF BeginSubmit
<1> DEFINE r == [Idle EXCEPT !.op = "submit", !.at = "advisory", !.row = a,
                             !.version = version, !.planVersion = artifact[a].planVersion,
                             !.key = key, !.found = submission[key]]
<1>3. request[p] = Idle /\ request' = [request EXCEPT ![p] = r]
      /\ UNCHANGED <<plan, artifact, submission, told, advisory, planLock, rowLock>>
  BY <1>2 DEF Core, TypeOK, BeginSubmit
<1>4. version \in Nat /\ version <= artifact[a].version /\ submission[key] \in SUBSET Decision
  BY <1>1, <1>2 DEF Core, TypeOK
<1>5. /\ r \in Request /\ r.op = "submit" /\ r.at = "advisory" /\ r.row = a
      /\ r.version = version /\ r.planVersion = artifact[a].planVersion
  BY <1>1, <1>4, IdleIsRequest DEF Idle, Request, Card, Op, Place
<1>6. request[p].at = "start" /\ advisory' \in Process \union {Nobody}
  BY <1>3 DEF Core, TypeOK, Idle
<1>7. r.key = key /\ r.found = submission[key]
  BY IdleIsRequest DEF Idle, Request
<1> HIDE DEF r
<1>8. /\ HoldsNothing(r) /\ FollowsItsCard(r) /\ IsOfThePlan(r) /\ HasItsVerdict(r)
      /\ FoundItsKey(r)
  BY <1>1, <1>4, <1>5, <1>7
     DEF HoldsNothing, FollowsItsCard, IsOfThePlan, HasItsVerdict, FoundItsKey
<1> QED BY <1>3, <1>5, <1>6, <1>8, Proceeding

LEMMA BeginEnsureKeeps ==
    ASSUME Core, NEW p \in Process, NEW kind \in Kind, BeginEnsure(p, kind)
    PROVE  Core'
<1> DEFINE r == [Idle EXCEPT !.op = "ensure", !.at = "row", !.kind = kind,
                             !.planVersion = plan.version]
<1>1. request[p] = Idle /\ request' = [request EXCEPT ![p] = r] /\ plan.status = "draft"
      /\ UNCHANGED <<plan, artifact, submission, told, advisory, planLock, rowLock>>
  BY DEF Core, TypeOK, BeginEnsure
<1>2. plan.version \in Nat
  BY DEF Core, TypeOK
<1>3. r \in Request /\ r.op = "ensure" /\ r.at = "row" /\ r.planVersion = plan.version
  BY <1>2, IdleIsRequest DEF Idle, Request, Op, Place
<1>4. request[p].at = "start" /\ advisory' \in Process \union {Nobody}
  BY <1>1 DEF Core, TypeOK, Idle
<1>5. r.verdict = "none" /\ r.found = {}
  BY IdleIsRequest DEF Idle, Request
<1> HIDE DEF r
<1>6. /\ HoldsNothing(r) /\ FollowsItsCard(r) /\ IsOfThePlan(r) /\ HasItsVerdict(r)
      /\ FoundItsKey(r)
  BY <1>1, <1>2, <1>3, <1>5
     DEF HoldsNothing, FollowsItsCard, IsOfThePlan, HasItsVerdict, FoundItsKey
<1> QED BY <1>1, <1>3, <1>4, <1>6, Proceeding

LEMMA BeginKeeps ==
    ASSUME Core, NEW p \in Process, NEW op \in {"write", "abandon"}, Begin(p, op)
    PROVE  Core'
<1> DEFINE r == [Idle EXCEPT !.op = op, !.planVersion = plan.version,
                             !.at = IF op = "abandon" THEN "plan" ELSE "advisory"]
<1>1. request[p] = Idle /\ request' = [request EXCEPT ![p] = r]
      /\ UNCHANGED <<plan, artifact, submission, told, advisory, planLock, rowLock>>
  BY DEF Core, TypeOK, Begin
<1>2. plan.version \in Nat
  BY DEF Core, TypeOK
<1>3. r \in Request /\ r.op = op /\ r.at \in {"plan", "advisory"}
  BY <1>2, IdleIsRequest DEF Idle, Request, Op, Place
<1>4. request[p].at = "start" /\ advisory' \in Process \union {Nobody}
  BY <1>1 DEF Core, TypeOK, Idle
<1>5. r.verdict = "none" /\ r.found = {}
  BY IdleIsRequest DEF Idle, Request
<1> HIDE DEF r
<1>6. /\ HoldsNothing(r) /\ FollowsItsCard(r) /\ IsOfThePlan(r) /\ HasItsVerdict(r)
      /\ FoundItsKey(r)
  BY <1>3, <1>5
     DEF HoldsNothing, FollowsItsCard, IsOfThePlan, HasItsVerdict, FoundItsKey
<1> QED BY <1>1, <1>3, <1>4, <1>6, Proceeding

\* Who gets the advisory lock goes on to a row or to the plan.
LEMMA TakeAdvisoryKeeps ==
    ASSUME Core, NEW p \in Process, SubmitAdvisory(p) \/ PlanAdvisory(p)
    PROVE  Core'
<1>1. PICK next \in {"row", "plan"} :
         /\ request[p].at = "advisory" /\ TakeAdvisory(p, next)
         /\ (request[p].op = "submit" /\ next = "row") \/ request[p].op = "write"
  BY DEF SubmitAdvisory, PlanAdvisory, At
<1> DEFINE r == [request[p] EXCEPT !.at = next]
<1>2. request' = [request EXCEPT ![p] = r] /\ advisory' = p
      /\ UNCHANGED <<plan, artifact, submission, told, planLock, rowLock>>
  BY <1>1 DEF TakeAdvisory, Go
<1>3. request[p] \in Request
  BY DEF Core, TypeOK
<1>4. /\ r \in Request /\ r.op = request[p].op /\ r.at = next /\ r.row = request[p].row
      /\ r.version = request[p].version /\ r.planVersion = request[p].planVersion
  BY <1>3 DEF Request, Place
<1>5. /\ r.verdict = request[p].verdict
      /\ r.key = request[p].key /\ r.found = request[p].found
  BY <1>3 DEF Request
<1>6. p \in Process \union {Nobody} /\ request[p].at \notin {"plan", "commit"}
  BY <1>1
<1> HIDE DEF r
<1>7. FollowsItsCard(r)
  BY <1>4 DEF Core, SubmissionsFollowCards, FollowsItsCard
<1>8. HoldsNothing(r) /\ IsOfThePlan(r) /\ HasItsVerdict(r)
  BY <1>1, <1>4, <1>5 DEF Core, LocksFollowRequests, HoldsNothing, IsOfThePlan, HasItsVerdict,
                          CardsAreOfThePlan
<1>9. FoundItsKey(r)
  BY <1>5 DEF Core, KeysHold, FoundIsRecorded, FoundItsKey
<1> QED BY <1>2, <1>4, <1>6, <1>7, <1>8, <1>9, Proceeding

-----------------------------------------------------------------------------
(* Rows are locked *)

\* The submission takes its card, which is as it was shown.
LEMMA SubmitRowKeeps ==
    ASSUME Core, NEW p \in Process, SubmitRow(p)
    PROVE  Core'
<1> DEFINE a == request[p].row
<1>1. request[p].op = "submit" /\ request[p].at = "row" /\ rowLock[a] = Nobody
  BY DEF SubmitRow, At
<1>2. CASE ~StillAsShown(p)
  BY <1>2, RollbackKeeps DEF SubmitRow
<1>3. CASE StillAsShown(p)
  <2>1. PICK place \in {"plan", "commit"}, verdict \in Verdict :
           /\ request' = [request EXCEPT ![p] = [request[p] EXCEPT !.at = place,
                                                                  !.verdict = verdict]]
           /\ place = "commit" => verdict = "dismissed"
    <3>1. CASE Go(p, "plan")
      <4>1. request[p] \in Request
        BY DEF Core, TypeOK
      <4>2. [request[p] EXCEPT !.at = "plan"]
            = [request[p] EXCEPT !.at = "plan", !.verdict = request[p].verdict]
        BY <4>1 DEF Request
      <4> QED BY <3>1, <4>1, <4>2 DEF Go, Request
    <3>2. CASE request' = [request EXCEPT ![p].at = "commit", ![p].verdict = "dismissed"]
      BY <3>2 DEF Core, TypeOK, Verdict
    <3> QED BY <1>3, <3>1, <3>2 DEF SubmitRow
  <2> DEFINE r == [request[p] EXCEPT !.at = place, !.verdict = verdict]
  <2>2. request[p] \in Request /\ a \in Artifact
    BY DEF Core, TypeOK, Request
  <2>3. /\ r \in Request /\ r.op = "submit" /\ r.at = place /\ r.row = a /\ r.verdict = verdict
        /\ r.version = request[p].version /\ r.planVersion = request[p].planVersion
        /\ r.key = request[p].key /\ r.found = request[p].found
    BY <1>1, <2>2 DEF Request, Place
  <2>4. /\ rowLock' = [rowLock EXCEPT ![a] = p]
        /\ UNCHANGED <<plan, artifact, submission, told, advisory, planLock>>
    BY <1>3 DEF SubmitRow
  <2>5. request' = [request EXCEPT ![p] = r]
    BY <2>1
  <2>6. /\ artifact[a].status = "pending" /\ artifact[a].version = request[p].version
        /\ artifact[a].version = request[p].version
              => artifact[a].planVersion = request[p].planVersion
        /\ request[p].version <= artifact[a].version
    BY <1>1, <1>3 DEF Core, SubmissionsFollowCards, StillAsShown
  <2> HIDE DEF r, a
  <2>7. /\ request'[p] = r /\ \A q \in Process \ {p} : request'[q] = request[q]
        /\ rowLock'[a] = p /\ \A b \in Artifact \ {a} : rowLock'[b] = rowLock[b]
    BY <2>2, <2>4, <2>5 DEF Core, TypeOK
  <2>8. TypeOK'
    BY <2>3, <2>4, <2>5 DEF Core, TypeOK
  <2>9. LocksFollowRequests'
    <3>1. planLock # p
      BY <1>1 DEF Core, LocksFollowRequests
    <3>2. \A q \in Process : rowLock[a] # q
      BY <1>1, InteractionAssumption DEF a
    <3>3. \A b \in Artifact : rowLock[b] # p
      BY <1>1 DEF Core, LocksFollowRequests
    <3>4. ASSUME NEW q \in Process \ {p}
          PROVE  \A b \in Artifact : rowLock'[b] = q <=> rowLock[b] = q
      BY <2>2, <2>7, <3>2
    <3>5. \A b \in Artifact : rowLock'[b] = p <=> b = a
      BY <2>2, <2>7, <3>3
    <3>6. ~(r.at = "commit" /\ r.verdict # "dismissed") /\ r.at \in {"plan", "commit"}
      BY <2>1, <2>3
    <3> QED BY <2>3, <2>4, <2>7, <3>1, <3>4, <3>5, <3>6 DEF Core, LocksFollowRequests
  <2>10. SubmissionsFollowCards'
    BY <2>3, <2>4, <2>6, <2>7 DEF Core, SubmissionsFollowCards
  <2>11. PlanIsAsTested'
    <3>1. planLock # p
      BY <1>1 DEF Core, LocksFollowRequests
    <3> QED BY <2>4, <2>7, <3>1 DEF Core, PlanIsAsTested
  <2>12. CardsAreOfThePlan' /\ LatestArePending' /\ CardsOfEndedPlansAreOld'
    BY <2>3, <2>4, <2>7 DEF Core, CardsAreOfThePlan, LatestArePending,
                            CardsOfEndedPlansAreOld, Made, Pending
  <2>13. KeysHold'
    <3>1. UNCHANGED <<submission, told, artifact>>
      BY <2>4
    <3>2. FoundIsRecorded'
      BY <2>3, <2>7, <3>1 DEF Core, KeysHold, FoundIsRecorded
    <3> QED BY <3>1, <3>2 DEF Core, KeysHold, KeysAreDecided, CardsAreDecidedOnce
  <2> QED BY <2>8, <2>9, <2>10, <2>11, <2>12, <2>13 DEF Core
<1> QED BY <1>2, <1>3

IsLockedBy(r) ==
    /\ r.op # "ensure" /\ r.verdict # "dismissed"
    /\ r.verdict # "rejected" => plan = [status |-> "draft", version |-> r.planVersion]

\* The plan is locked by a submission, or by whoever changes it from its page.
LEMMA LockingPlan ==
    ASSUME Core, NEW p \in Process, NEW r \in Request, request[p].at = "plan",
           planLock = Nobody, planLock' = p, request' = [request EXCEPT ![p] = r],
           UNCHANGED <<plan, artifact, submission, told, advisory, rowLock>>,
           r.at = "commit", r.op = request[p].op, r.row = request[p].row,
           r.version = request[p].version, r.planVersion = request[p].planVersion,
           IsLockedBy(r), HasItsVerdict(r), r.key = request[p].key, r.found = request[p].found
    PROVE  Core'
<1>1. request'[p] = r /\ \A q \in Process \ {p} : request'[q] = request[q]
  BY DEF Core, TypeOK
<1>2. \A q \in Process : planLock # q
  BY InteractionAssumption
<1>3. TypeOK'
  BY DEF Core, TypeOK
<1>4. LocksFollowRequests'
  BY <1>1, <1>2 DEF Core, LocksFollowRequests, IsLockedBy, HasItsVerdict
<1>5. SubmissionsFollowCards'
  BY <1>1 DEF Core, SubmissionsFollowCards
<1>6. PlanIsAsTested'
  BY <1>1 DEF Core, PlanIsAsTested, IsLockedBy
<1>7. CardsAreOfThePlan' /\ LatestArePending' /\ CardsOfEndedPlansAreOld'
  BY <1>1 DEF Core, CardsAreOfThePlan, LatestArePending, CardsOfEndedPlansAreOld, Made,
              Pending, IsLockedBy
<1>8. KeysHold'
  BY <1>1 DEF Core, KeysHold, KeysAreDecided, CardsAreDecidedOnce, FoundIsRecorded
<1> QED BY <1>3, <1>4, <1>5, <1>6, <1>7, <1>8 DEF Core

LEMMA SubmitPlanKeeps ==
    ASSUME Core, NEW p \in Process, SubmitPlan(p)
    PROVE  Core'
<1>1. PICK verdict \in {"accepted", "rejected"} :
         /\ verdict = "accepted" => /\ plan.status = "draft"
                                    /\ plan.version = artifact[request[p].row].planVersion
         /\ planLock' = p
         /\ request' = [request EXCEPT ![p].verdict = verdict, ![p].at = "commit"]
  BY DEF SubmitPlan
<1>2. /\ request[p].op = "submit" /\ request[p].at = "plan" /\ planLock = Nobody
      /\ UNCHANGED <<plan, artifact, submission, told, advisory, rowLock>>
  BY DEF SubmitPlan, At
<1> DEFINE r == [request[p] EXCEPT !.verdict = verdict, !.at = "commit"]
<1>3. request' = [request EXCEPT ![p] = r]
  BY <1>1
<1>4. request[p] \in Request
  BY DEF Core, TypeOK
<1>5. /\ r \in Request /\ r.at = "commit" /\ r.op = request[p].op /\ r.row = request[p].row
      /\ r.version = request[p].version /\ r.planVersion = request[p].planVersion
      /\ r.verdict = verdict /\ r.key = request[p].key /\ r.found = request[p].found
  BY <1>4 DEF Request, Place, Verdict
<1>6. artifact[request[p].row].planVersion = request[p].planVersion
  BY <1>2 DEF Core, SubmissionsFollowCards
<1>7. verdict = "accepted" => plan = [status |-> "draft", version |-> request[p].planVersion]
  BY <1>1, <1>6 DEF Core, TypeOK
<1> HIDE DEF r
<1>8. IsLockedBy(r) /\ HasItsVerdict(r)
  BY <1>2, <1>5, <1>7 DEF IsLockedBy, HasItsVerdict
<1> QED BY <1>1, <1>2, <1>3, <1>5, <1>8, LockingPlan

LEMMA PlanRowKeeps ==
    ASSUME Core, NEW p \in Process, PlanRow(p)
    PROVE  Core'
<1>1. request[p].op \in {"write", "abandon"} /\ request[p].at = "plan" /\ planLock = Nobody
  BY DEF PlanRow, At
<1>2. CASE plan.status = "draft" /\ plan.version = request[p].planVersion
  <2> DEFINE r == [request[p] EXCEPT !.at = "commit"]
  <2>1. /\ planLock' = p /\ request' = [request EXCEPT ![p] = r]
        /\ UNCHANGED <<plan, artifact, submission, told, advisory, rowLock>>
    BY <1>2 DEF PlanRow, Go
  <2>2. request[p] \in Request
    BY DEF Core, TypeOK
  <2>3. /\ r \in Request /\ r.at = "commit" /\ r.op = request[p].op /\ r.row = request[p].row
        /\ r.version = request[p].version /\ r.planVersion = request[p].planVersion
        /\ r.verdict = request[p].verdict
        /\ r.key = request[p].key /\ r.found = request[p].found
    BY <2>2 DEF Request, Place
  <2>4. plan = [status |-> "draft", version |-> request[p].planVersion]
    BY <1>2 DEF Core, TypeOK
  <2>5. request[p].verdict = "none"
    BY <1>1 DEF Core, LocksFollowRequests
  <2> HIDE DEF r
  <2>6. IsLockedBy(r) /\ HasItsVerdict(r)
    BY <1>1, <2>3, <2>4, <2>5 DEF IsLockedBy, HasItsVerdict
  <2> QED BY <1>1, <2>1, <2>3, <2>6, LockingPlan
<1>3. CASE ~(plan.status = "draft" /\ plan.version = request[p].planVersion)
  BY <1>3, RollbackKeeps DEF PlanRow
<1> QED BY <1>2, <1>3

-----------------------------------------------------------------------------
(* Transactions that write *)

\* p writes cards that nobody else holds, and leaves what was there to follow.
CardsKept(p) ==
    \A b \in Artifact :
        /\ artifact[b].status # "none" =>
              /\ artifact'[b].status # "none" /\ artifact[b].version <= artifact'[b].version
              /\ artifact'[b].version = artifact[b].version
                    => artifact'[b].planVersion = artifact[b].planVersion
        /\ artifact'[b] # artifact[b] => rowLock[b] \in {Nobody, p}

\* The plan is changed by who holds it.
PlanKept(p) == plan' = plan \/ (planLock = p /\ plan'.version = plan.version + 1)

LEMMA Committing ==
    ASSUME Core, NEW p \in Process, Release(p), CardsKept(p), PlanKept(p),
           plan' \in [status : {"draft", "ended"}, version : Nat],
           artifact' \in [Artifact -> Card],
           submission' \in [Key -> SUBSET Decision], told' \in [Key -> SUBSET Decision],
           \A key \in Key : submission[key] \subseteq submission'[key],
           KeysAreDecided', CardsAreDecidedOnce',
           CardsAreOfThePlan', LatestArePending', CardsOfEndedPlansAreOld'
    PROVE  Core'
<1>1. Idle.at = "start" /\ Idle.op = "idle" /\ Idle.verdict = "none"
  BY DEF Idle
<1>2. TypeOK'
  BY Releasing DEF Core, TypeOK
<1>3. LocksFollowRequests'
  BY LocksReleased
<1>4. SubmissionsFollowCards'
  <2> SUFFICES ASSUME NEW q \in Process, request'[q].op = "submit"
               PROVE  LET card == artifact'[request'[q].row] IN
                      /\ card.status # "none" /\ request'[q].version <= card.version
                      /\ card.version = request'[q].version
                            => card.planVersion = request'[q].planVersion
                      /\ request'[q].at \in {"plan", "commit"} =>
                            card.status = "pending" /\ card.version = request'[q].version
    BY DEF SubmissionsFollowCards
  <2>1. q # p /\ request'[q] = request[q]
    BY <1>1, Releasing DEF Core
  <2> DEFINE b == request[q].row
  <2>2. request[q] \in Request /\ b \in Artifact
    BY DEF Core, TypeOK, Request
  <2>3. artifact[b] \in Card /\ artifact'[b] \in Card
    BY <2>2 DEF Core, TypeOK
  <2>4. /\ artifact[b].status # "none" /\ request[q].version <= artifact[b].version
        /\ artifact[b].version = request[q].version
              => artifact[b].planVersion = request[q].planVersion
        /\ request[q].at \in {"plan", "commit"} =>
              artifact[b].status = "pending" /\ artifact[b].version = request[q].version
    BY <2>1 DEF Core, SubmissionsFollowCards
  <2>5. request[q].at \in {"plan", "commit"} => rowLock[b] = q
    BY <2>1, <2>2 DEF Core, LocksFollowRequests
  <2>6. artifact'[b] # artifact[b] => rowLock[b] # q
    BY <2>1, <2>2, InteractionAssumption DEF CardsKept
  <2>7. /\ artifact'[b].status # "none" /\ artifact[b].version <= artifact'[b].version
        /\ artifact'[b].version = artifact[b].version
              => artifact'[b].planVersion = artifact[b].planVersion
    BY <2>2, <2>4 DEF CardsKept
  <2>8. /\ request[q].version \in Nat /\ artifact[b].version \in Nat
        /\ artifact'[b].version \in Nat
    BY <2>2, <2>3 DEF Request, Card
  <2> HIDE DEF b
  <2>9. /\ artifact'[b].status # "none" /\ request[q].version <= artifact'[b].version
        /\ artifact'[b].version = request[q].version
              => artifact'[b].planVersion = request[q].planVersion
    BY <2>4, <2>7, <2>8
  <2>10. request[q].at \in {"plan", "commit"} =>
            artifact'[b].status = "pending" /\ artifact'[b].version = request[q].version
    BY <2>4, <2>5, <2>6
  <2> QED BY <2>1, <2>9, <2>10 DEF b
<1>5. PlanIsAsTested'
  <2> SUFFICES ASSUME NEW q \in Process, planLock' = q, request'[q].verdict # "rejected"
               PROVE  plan' = [status |-> "draft", version |-> request'[q].planVersion]
    BY DEF PlanIsAsTested
  <2>1. q # p /\ request'[q] = request[q] /\ planLock = q
    BY Releasing DEF Core
  <2> QED BY <2>1 DEF Core, PlanIsAsTested, PlanKept
<1>6. KeysHold'
  BY FoundStays DEF KeysHold
<1> QED BY <1>2, <1>3, <1>4, <1>5, <1>6 DEF Core

\* Cards only move on.
LEMMA DecisionsStay ==
    ASSUME Core, NEW p, CardsKept(p), artifact' \in [Artifact -> Card],
           NEW key \in Key, NEW d \in submission[key]
    PROVE  /\ artifact'[d.row].status # "none" /\ d.version <= artifact'[d.row].version
           /\ d.version = artifact'[d.row].version => d.verdict = "rejected"
<1>1. d \in Decision
  BY DEF Core, TypeOK
<1>2. d.row \in Artifact /\ d.version \in Nat
  BY <1>1 DEF Decision
<1>3. artifact[d.row].version \in Nat /\ artifact'[d.row].version \in Nat
  BY <1>2 DEF Core, TypeOK, Card
<1>4. /\ artifact[d.row].status # "none" /\ d.version <= artifact[d.row].version
      /\ d.version = artifact[d.row].version => d.verdict = "rejected"
  BY DEF Core, KeysHold, KeysAreDecided
<1>5. artifact'[d.row].status # "none" /\ artifact[d.row].version <= artifact'[d.row].version
  BY <1>2, <1>4 DEF CardsKept
<1> QED BY <1>2, <1>3, <1>4, <1>5

\* Nothing is recorded.
LEMMA KeysStay ==
    ASSUME Core, NEW p, CardsKept(p), artifact' \in [Artifact -> Card],
           UNCHANGED <<submission, told>>
    PROVE  KeysAreDecided' /\ CardsAreDecidedOnce'
<1>1. KeysAreDecided'
  BY DecisionsStay DEF Core, KeysHold, KeysAreDecided
<1> QED BY <1>1 DEF Core, KeysHold, CardsAreDecidedOnce

\* A decision is recorded: the first under its key, on a version of the card
\* that only rejections were on.
LEMMA DecisionIsFirst ==
    ASSUME Core, NEW p \in Process, NEW key, key = request[p].key,
           NEW d0, d0 = Answer(p, request[p].verdict),
           request[p].op = "submit", request[p].at = "commit", Record(p),
           told' = [told EXCEPT ![key] = @ \union {d0}],
           CardsKept(p), artifact' \in [Artifact -> Card],
           artifact'[request[p].row].version = request[p].version
              => request[p].verdict = "rejected"
    PROVE  /\ submission' \in [Key -> SUBSET Decision] /\ told' \in [Key -> SUBSET Decision]
           /\ \A k \in Key : submission[k] \subseteq submission'[k]
           /\ KeysAreDecided' /\ CardsAreDecidedOnce'
<1>1. request[p] \in Request /\ request[p].row \in Artifact /\ key \in Key
  BY DEF Core, TypeOK, Request
<1>2. d0 \in Decision /\ d0.row = request[p].row /\ d0.version = request[p].version
      /\ d0.verdict = request[p].verdict
  BY <1>1 DEF Request, Decision, Answer
<1>3. submission \in [Key -> SUBSET Decision] /\ told \in [Key -> SUBSET Decision]
  BY DEF Core, TypeOK
<1>4. submission[key] = {} /\ submission' = [submission EXCEPT ![key] = {d0}]
  BY DEF Record
<1>5. told[key] = {}
  BY <1>1, <1>4 DEF Core, KeysHold, KeysAreDecided
<1>6. submission' \in [Key -> SUBSET Decision] /\ told' \in [Key -> SUBSET Decision]
  BY <1>1, <1>2, <1>3, <1>4
<1>7. submission'[key] = {d0} /\ told'[key] = {d0}
      /\ \A k \in Key \ {key} : submission'[k] = submission[k] /\ told'[k] = told[k]
  BY <1>1, <1>3, <1>4, <1>5
<1>8. /\ artifact[d0.row].status = "pending" /\ artifact[d0.row].version = d0.version
      /\ d0.row \in Artifact /\ d0.version \in Nat
  BY <1>1, <1>2 DEF Core, SubmissionsFollowCards, Request
<1>9. artifact'[d0.row].status # "none" /\ d0.version <= artifact'[d0.row].version
      /\ (d0.version = artifact'[d0.row].version => d0.verdict = "rejected")
  BY <1>2, <1>8 DEF CardsKept
<1>10. KeysAreDecided'
  <2>1. ASSUME NEW k \in Key, k # key, NEW d \in submission'[k]
        PROVE  /\ \A e \in submission'[k] : d = e
               /\ artifact'[d.row].status # "none" /\ d.version <= artifact'[d.row].version
               /\ d.version = artifact'[d.row].version => d.verdict = "rejected"
    BY <1>7, <2>1, DecisionsStay DEF Core, KeysHold, KeysAreDecided
  <2>2. ASSUME NEW k \in Key, k # key, NEW d \in told'[k] PROVE submission'[k] = {d}
    BY <1>7, <2>2 DEF Core, KeysHold, KeysAreDecided
  <2> QED BY <1>7, <1>9, <2>1, <2>2 DEF KeysAreDecided
<1>11. ASSUME NEW k \in Key, k # key, NEW e \in submission'[k],
              e.row = d0.row, e.version = d0.version
       PROVE  e.verdict = "rejected"
  BY <1>7, <1>8, <1>11 DEF Core, KeysHold, KeysAreDecided
<1>12. CardsAreDecidedOnce'
  <2> SUFFICES ASSUME NEW j \in Key, NEW k \in Key, NEW d \in submission'[j],
                      NEW e \in submission'[k], d.row = e.row, d.version = e.version,
                      "rejected" \notin {d.verdict, e.verdict}
               PROVE  j = k /\ d = e
    BY DEF CardsAreDecidedOnce
  <2>1. CASE j # key /\ k # key
    BY <1>7, <2>1 DEF Core, KeysHold, CardsAreDecidedOnce
  <2>2. CASE j = key
    BY <1>7, <1>11, <2>2
  <2>3. CASE k = key
    BY <1>7, <1>11, <2>3
  <2> QED BY <2>1, <2>2, <2>3
<1>13. \A k \in Key : submission[k] \subseteq submission'[k]
  BY <1>4, <1>7
<1> QED BY <1>6, <1>10, <1>12, <1>13

LEMMA DismissedCard ==
    ASSUME NEW card \in Card, NEW row,
           row = [card EXCEPT !.status = "resolved", !.version = @ + 1]
    PROVE  /\ row \in Card /\ row.status = "resolved" /\ row.version = card.version + 1
           /\ row.kind = card.kind /\ row.planVersion = card.planVersion
<1>1. card.kind \in Kind /\ card.version \in Nat /\ card.planVersion \in Nat
  BY DEF Card
<1>2. card.version + 1 \in Nat
  BY <1>1
<1>3. row = [status |-> "resolved", kind |-> card.kind, version |-> card.version + 1,
             planVersion |-> card.planVersion]
  BY DEF Card
<1> QED BY <1>1, <1>2, <1>3 DEF Card, Status

\* A submission commits: it holds its card, and the plan unless it dismisses.
LEMMA SubmitCommitKeeps ==
    ASSUME Core, NEW p \in Process, SubmitCommit(p)
    PROVE  Core'
<1> DEFINE a == request[p].row
<1>1. /\ request[p].op = "submit" /\ request[p].at = "commit" /\ Release(p)
  BY DEF SubmitCommit, At
<1>2. ASSUME CardsKept(p), artifact' \in [Artifact -> Card],
             artifact'[a].version = artifact[a].version => request[p].verdict = "rejected"
      PROVE  /\ submission' \in [Key -> SUBSET Decision] /\ told' \in [Key -> SUBSET Decision]
             /\ \A k \in Key : submission[k] \subseteq submission'[k]
             /\ KeysAreDecided' /\ CardsAreDecidedOnce'
  <2>1. /\ Record(p) /\ told' = [told EXCEPT ![request[p].key] =
                                    @ \union {Answer(p, request[p].verdict)}]
    BY DEF SubmitCommit
  <2>2. artifact[a].version = request[p].version
    BY <1>1 DEF Core, SubmissionsFollowCards
  <2> QED BY <1>1, <1>2, <2>1, <2>2, DecisionIsFirst
<1>3. a \in Artifact /\ artifact \in [Artifact -> Card] /\ artifact[a] \in Card
  BY DEF Core, TypeOK, Request
<1>4. artifact[a].status = "pending" /\ rowLock[a] = p
  BY <1>1, <1>3 DEF Core, LocksFollowRequests, SubmissionsFollowCards
<1>5. plan \in [status : {"draft", "ended"}, version : Nat]
  BY DEF Core, TypeOK
<1>6. CASE /\ request[p].verdict = "dismissed" /\ UNCHANGED plan
           /\ artifact' = [artifact EXCEPT ![a].status = "resolved", ![a].version = @ + 1]
  <2>1. /\ artifact'[a] = [artifact[a] EXCEPT !.status = "resolved", !.version = @ + 1]
        /\ \A b \in Artifact \ {a} : artifact'[b] = artifact[b]
    BY <1>3, <1>6
  <2>2. /\ artifact'[a].status = "resolved" /\ artifact'[a].version = artifact[a].version + 1
        /\ artifact'[a].kind = artifact[a].kind /\ artifact'[a] \in Card
        /\ artifact'[a].planVersion = artifact[a].planVersion /\ artifact[a].version \in Nat
    <3>1. artifact[a].version \in Nat
      BY <1>3 DEF Card
    <3> HIDE DEF a
    <3> QED BY <1>3, <2>1, <3>1, DismissedCard
  <2>3. artifact' \in [Artifact -> Card]
    BY <1>3, <1>6, <2>1, <2>2
  <2> HIDE DEF a
  <2>4. \A b \in Artifact : artifact[b] \in Card /\ artifact[b].version \in Nat
    BY <1>3 DEF Card
  <2>5. CardsKept(p)
    <3>1. /\ artifact'[a].status # "none" /\ artifact[a].version <= artifact'[a].version
          /\ artifact'[a].version # artifact[a].version
      BY <2>2
    <3>2. ASSUME NEW b \in Artifact, b # a
          PROVE  artifact'[b] = artifact[b] /\ artifact[b].version <= artifact[b].version
      BY <2>1, <2>4, <3>2
    <3>3. rowLock[a] \in {Nobody, p}
      BY <1>4
    <3> QED BY <3>1, <3>2, <3>3 DEF CardsKept
  <2>6. Made' = Made /\ Pending' \subseteq Pending
        /\ \A b \in Artifact : /\ artifact'[b].planVersion = artifact[b].planVersion
                               /\ artifact'[b].kind = artifact[b].kind
    <3>1. ASSUME NEW b \in Artifact
          PROVE  /\ artifact'[b].planVersion = artifact[b].planVersion
                 /\ artifact'[b].kind = artifact[b].kind
                 /\ artifact'[b].status = "none" <=> artifact[b].status = "none"
                 /\ artifact'[b].status = "pending" => artifact[b].status = "pending"
      <4>1. CASE b = a
        BY <1>4, <2>2, <4>1
      <4>2. CASE b # a
        BY <2>1, <4>2
      <4> QED BY <4>1, <4>2
    <3> QED BY <3>1 DEF Made, Pending
  <2>7. LatestArePending' /\ CardsOfEndedPlansAreOld'
    <3>1. Pending \subseteq Artifact /\ Made \subseteq Artifact
      BY DEF Pending, Made
    <3> QED BY <1>6, <2>6, <3>1 DEF Core, LatestArePending, CardsOfEndedPlansAreOld
  <2>8. CardsAreOfThePlan'
    <3>1. Idle.op = "idle"
      BY DEF Idle
    <3> QED BY <1>1, <1>6, <2>6, <3>1, Releasing DEF Core, CardsAreOfThePlan
  <2>9. artifact'[a].version # artifact[a].version
    BY <2>2
  <2> QED BY <1>1, <1>2, <1>5, <1>6, <2>3, <2>5, <2>7, <2>8, <2>9, Committing DEF PlanKept, a
<1>7. CASE /\ request[p].verdict = "accepted" /\ CardsFree(p)
           /\ plan' = [plan EXCEPT !.version = @ + 1]
           /\ artifact' = Accepted(artifact, a, plan.version + 1)
  <2>1. planLock = p
    BY <1>1, <1>7 DEF Core, LocksFollowRequests
  <2>2. plan.status = "draft" /\ plan.version \in Nat
    BY <1>5, <1>7, <2>1 DEF Core, PlanIsAsTested
  <2>3. /\ plan' \in [status : {"draft", "ended"}, version : Nat]
        /\ plan'.status = "draft" /\ plan'.version = plan.version + 1
    BY <1>5, <1>7, <2>2
  <2>4. artifact'[a] = [artifact[a] EXCEPT !.version = @ + 1, !.planVersion = plan.version + 1]
    BY <1>3, <1>7 DEF Accepted
  <2>5. /\ artifact'[a].status = "pending" /\ artifact'[a].version = artifact[a].version + 1
        /\ artifact'[a].kind = artifact[a].kind /\ artifact'[a] \in Card
        /\ artifact'[a].planVersion = plan.version + 1 /\ artifact[a].version \in Nat
    <3>1. artifact[a].kind \in Kind /\ artifact[a].version \in Nat
      BY <1>3 DEF Card
    <3>2. artifact[a].version + 1 \in Nat /\ plan.version + 1 \in Nat
      BY <2>2, <3>1
    <3> HIDE DEF a
    <3>3. artifact'[a] = [status |-> "pending", kind |-> artifact[a].kind,
                          version |-> artifact[a].version + 1,
                          planVersion |-> plan.version + 1]
      BY <1>3, <1>4, <2>4 DEF Card
    <3> QED BY <3>1, <3>2, <3>3 DEF Card, Status
  <2>6. ASSUME NEW b \in Artifact \ {a}
        PROVE  /\ artifact[b].status = "pending" => artifact'[b].status = "stale"
               /\ artifact[b].status # "pending" => artifact'[b] = artifact[b]
               /\ artifact'[b].version = artifact[b].version
               /\ artifact'[b].planVersion = artifact[b].planVersion
               /\ artifact'[b].kind = artifact[b].kind
               /\ artifact[b] \in Card /\ artifact'[b] \in Card
    <3>1. artifact[b] \in Card
      BY <1>3
    <3>2. artifact'[b] = IF artifact[b].status = "pending"
                         THEN [artifact[b] EXCEPT !.status = "stale"] ELSE artifact[b]
      BY <1>7 DEF Accepted
    <3> QED BY <3>1, <3>2 DEF Card, Status
  <2>7. artifact' = [b \in Artifact |-> artifact'[b]]
    BY <1>7 DEF Accepted
  <2> HIDE DEF a
  <2>8. artifact' \in [Artifact -> Card]
    BY <2>5, <2>6, <2>7
  <2>9. \A b \in Artifact : /\ artifact[b].version \in Nat /\ artifact[b].planVersion \in Nat
    BY <1>3 DEF Card
  <2>10. CardsKept(p)
    <3>1. ASSUME NEW b \in Artifact, artifact[b].status = "pending"
          PROVE  rowLock[b] \in {Nobody, p}
      BY <1>7, <3>1 DEF CardsFree, Pending
    <3>2. ASSUME NEW b \in Artifact \ {a}, artifact[b].status # "none"
          PROVE  artifact'[b].status # "none"
      BY <2>6, <3>2
    <3>3. artifact[a].version <= artifact'[a].version /\ artifact'[a].version # artifact[a].version
      BY <2>5
    <3> QED BY <1>4, <2>5, <2>6, <2>9, <3>1, <3>2, <3>3 DEF CardsKept
  <2>11. Pending' = {a} /\ Made' = Made /\ a \in Pending
        /\ \A b \in Artifact : artifact'[b].kind = artifact[b].kind
    BY <1>3, <1>4, <2>5, <2>6 DEF Pending, Made
  <2>12. LatestArePending'
    <3>1. Made \subseteq Artifact
      BY DEF Made
    <3> QED BY <1>3, <2>11, <3>1 DEF Core, LatestArePending
  <2>13. CardsOfEndedPlansAreOld'
    BY <2>3 DEF CardsOfEndedPlansAreOld
  <2>14. CardsAreOfThePlan'
    <3>1. \A b \in Artifact : artifact'[b].planVersion <= plan'.version
      <4>1. \A b \in Artifact : artifact[b].planVersion <= plan.version
        BY DEF Core, CardsAreOfThePlan
      <4> QED BY <2>2, <2>3, <2>5, <2>6, <2>9, <4>1
    <3>2. ASSUME NEW q \in Process, request'[q].op = "ensure"
          PROVE  request'[q].planVersion <= plan'.version
      <4>1. Idle.op = "idle"
        BY DEF Idle
      <4>2. request'[q] = request[q] /\ request[q] \in Request
        BY <1>1, <3>2, <4>1, Releasing DEF Core, TypeOK
      <4>3. request[q].planVersion <= plan.version /\ request[q].planVersion \in Nat
        BY <3>2, <4>2 DEF Core, CardsAreOfThePlan, Request
      <4> QED BY <2>2, <2>3, <4>2, <4>3
    <3> QED BY <2>3, <3>1, <3>2 DEF CardsAreOfThePlan
  <2>15. PlanKept(p)
    BY <2>1, <2>3 DEF PlanKept
  <2>16. artifact'[a].version # artifact[a].version
    BY <2>5
  <2> QED BY <1>1, <1>2, <2>3, <2>8, <2>10, <2>12, <2>13, <2>14, <2>15, <2>16, Committing DEF a
<1>8. CASE request[p].verdict = "rejected" /\ UNCHANGED <<plan, artifact>>
  <2>1. CardsKept(p) /\ PlanKept(p)
    <3>1. \A b \in Artifact : artifact[b].version \in Nat
      BY <1>3 DEF Card
    <3> QED BY <1>8, <3>1 DEF CardsKept, PlanKept
  <2>2. LatestArePending' /\ CardsOfEndedPlansAreOld'
    BY <1>8 DEF Core, LatestArePending, CardsOfEndedPlansAreOld, Made, Pending
  <2>3. CardsAreOfThePlan'
    <3>1. Idle.op = "idle"
      BY DEF Idle
    <3> QED BY <1>1, <1>8, <3>1, Releasing DEF Core, CardsAreOfThePlan
  <2> QED BY <1>1, <1>2, <1>3, <1>5, <1>8, <2>1, <2>2, <2>3, Committing
<1> QED BY <1>6, <1>7, <1>8 DEF SubmitCommit

\* The plan is applied, abandoned or changed from its page.
LEMMA PlanCommitKeeps ==
    ASSUME Core, NEW p \in Process, PlanCommit(p)
    PROVE  Core'
<1>1. /\ request[p].op \in {"write", "abandon"} /\ request[p].at = "commit" /\ Release(p)
      /\ UNCHANGED <<submission, told>>
  BY DEF PlanCommit, At
<1>2. planLock = p
  BY <1>1 DEF Core, LocksFollowRequests
<1>3. plan \in [status : {"draft", "ended"}, version : Nat] /\ artifact \in [Artifact -> Card]
      /\ submission' \in [Key -> SUBSET Decision] /\ told' \in [Key -> SUBSET Decision]
      /\ \A k \in Key : submission[k] \subseteq submission'[k]
  BY <1>1 DEF Core, TypeOK
<1>4. plan.status = "draft" /\ plan.version \in Nat
  <2>1. request[p].verdict = "none"
    BY <1>1 DEF Core, LocksFollowRequests
  <2> QED BY <1>2, <1>3, <2>1 DEF Core, PlanIsAsTested
<1>5. ASSUME NEW q \in Process, request'[q].op = "ensure"
      PROVE  /\ request[q].op = "ensure" /\ request'[q].planVersion = request[q].planVersion
             /\ request[q].planVersion <= plan.version /\ request[q].planVersion \in Nat
  <2>1. Idle.op = "idle"
    BY DEF Idle
  <2>2. request'[q] = request[q] /\ request[q] \in Request
    BY <1>1, <1>5, <2>1, Releasing DEF Core, TypeOK
  <2> QED BY <1>5, <2>2 DEF Core, CardsAreOfThePlan, Request
<1>6. \A b \in Artifact :
         /\ artifact[b] \in Card /\ artifact[b].version \in Nat
         /\ artifact[b].planVersion \in Nat /\ artifact[b].planVersion <= plan.version
  BY <1>3 DEF Core, CardsAreOfThePlan, Card
<1>7. CASE CardsFree(p) /\ EndPlan
  <2>1. /\ plan' \in [status : {"draft", "ended"}, version : Nat]
        /\ plan'.status = "ended" /\ plan'.version = plan.version + 1
    <3>1. plan' = [plan EXCEPT !.status = "ended", !.version = @ + 1]
      BY <1>7 DEF EndPlan
    <3>2. plan' = [status |-> "ended", version |-> plan.version + 1]
      BY <1>3, <3>1
    <3>3. plan.version + 1 \in Nat
      BY <1>4
    <3> QED BY <3>2, <3>3
  <2>2. ASSUME NEW b \in Artifact
        PROVE  /\ artifact[b].status = "pending" => artifact'[b].status = "resolved"
               /\ artifact[b].status # "pending" => artifact'[b] = artifact[b]
               /\ artifact'[b].version = artifact[b].version
               /\ artifact'[b].planVersion = artifact[b].planVersion
               /\ artifact'[b].kind = artifact[b].kind /\ artifact'[b] \in Card
    <3>1. artifact'[b] = IF artifact[b].status = "pending"
                         THEN [artifact[b] EXCEPT !.status = "resolved"] ELSE artifact[b]
      BY <1>7 DEF EndPlan, Resolved
    <3> QED BY <1>6, <3>1 DEF Card, Status
  <2>3. artifact' \in [Artifact -> Card]
    <3>1. artifact' = [b \in Artifact |-> artifact'[b]]
      BY <1>7 DEF EndPlan, Resolved
    <3> QED BY <2>2, <3>1
  <2>4. CardsKept(p)
    <3>1. ASSUME NEW b \in Artifact, artifact'[b] # artifact[b]
          PROVE  rowLock[b] \in {Nobody, p}
      BY <1>7, <2>2, <3>1 DEF CardsFree, Pending
    <3>2. ASSUME NEW b \in Artifact, artifact[b].status # "none"
          PROVE  artifact'[b].status # "none"
      BY <2>2, <3>2
    <3> QED BY <1>6, <2>2, <3>1, <3>2 DEF CardsKept
  <2>5. Pending' = {} /\ Made' = Made
    BY <2>2 DEF Pending, Made
  <2>6. LatestArePending' /\ CardsOfEndedPlansAreOld'
    BY <2>5 DEF Core, LatestArePending, CardsOfEndedPlansAreOld
  <2>7. CardsAreOfThePlan'
    <3>1. \A b \in Artifact : artifact'[b].planVersion <= plan'.version
      BY <1>4, <1>6, <2>1, <2>2
    <3>2. ASSUME NEW q \in Process, request'[q].op = "ensure"
          PROVE  request'[q].planVersion < plan'.version
                 /\ request'[q].planVersion <= plan'.version
      BY <1>4, <1>5, <2>1, <3>2
    <3> QED BY <3>1, <3>2 DEF CardsAreOfThePlan
  <2> QED BY <1>1, <1>2, <1>3, <2>1, <2>3, <2>4, <2>6, <2>7, KeysStay, Committing DEF PlanKept
<1>8. CASE plan' = [plan EXCEPT !.version = @ + 1] /\ UNCHANGED artifact
  <2>1. /\ plan' \in [status : {"draft", "ended"}, version : Nat]
        /\ plan'.status = "draft" /\ plan'.version = plan.version + 1
    BY <1>3, <1>4, <1>8
  <2>2. CardsKept(p)
    BY <1>6, <1>8 DEF CardsKept
  <2>3. LatestArePending' /\ CardsOfEndedPlansAreOld'
    BY <1>8, <2>1 DEF Core, LatestArePending, CardsOfEndedPlansAreOld, Made, Pending
  <2>4. CardsAreOfThePlan'
    <3>1. \A b \in Artifact : artifact'[b].planVersion <= plan'.version
      BY <1>4, <1>6, <1>8, <2>1
    <3>2. ASSUME NEW q \in Process, request'[q].op = "ensure"
          PROVE  request'[q].planVersion <= plan'.version
      BY <1>4, <1>5, <2>1, <3>2
    <3> QED BY <2>1, <3>1, <3>2 DEF CardsAreOfThePlan
  <2> QED BY <1>1, <1>2, <1>3, <1>8, <2>1, <2>2, <2>3, <2>4, KeysStay, Committing DEF PlanKept
<1> QED BY <1>7, <1>8 DEF PlanCommit

\* A card is made after all others, and takes the place of the pending one.
LEMMA EnsureNewKeeps ==
    ASSUME Core, NEW p \in Process, EnsureNew(p)
    PROVE  Core'
<1> DEFINE kind == request[p].kind
<1>1. /\ request[p].op = "ensure" /\ request[p].at = "row" /\ Release(p)
      /\ UNCHANGED plan /\ UNCHANGED <<submission, told>>
      /\ \A a \in Latest(kind) : rowLock[a] = Nobody
  BY DEF EnsureNew, At
<1>2. PICK new \in Artifact \ Made :
         /\ \A b \in Artifact \ Made : new <= b
         /\ artifact' =
              [a \in Artifact |->
                 IF a = new
                 THEN [status |-> "pending", kind |-> kind, version |-> 1,
                       planVersion |-> request[p].planVersion]
                 ELSE IF a \in Latest(kind) /\ artifact[a].status = "pending"
                 THEN [artifact[a] EXCEPT !.status = "stale"]
                 ELSE artifact[a]]
  BY DEF EnsureNew
<1>3. plan \in [status : {"draft", "ended"}, version : Nat] /\ artifact \in [Artifact -> Card]
      /\ submission' \in [Key -> SUBSET Decision] /\ told' \in [Key -> SUBSET Decision]
      /\ (\A k \in Key : submission[k] \subseteq submission'[k]) /\ request[p] \in Request
  BY <1>1 DEF Core, TypeOK
<1>4. kind \in Kind /\ request[p].planVersion \in Nat
      /\ request[p].planVersion <= plan.version
      /\ (plan.status # "draft" => request[p].planVersion < plan.version)
  BY <1>1, <1>3 DEF Core, CardsAreOfThePlan, Request
<1> DEFINE card == [status |-> "pending", kind |-> kind, version |-> 1,
                    planVersion |-> request[p].planVersion]
<1>5. artifact'[new] = card /\ card \in Card /\ card.status = "pending" /\ card.kind = kind
      /\ card.planVersion = request[p].planVersion
  BY <1>2, <1>4 DEF Card, Status
<1>6. \A b \in Artifact :
         /\ artifact[b] \in Card /\ artifact[b].version \in Nat
         /\ artifact[b].planVersion \in Nat /\ artifact[b].planVersion <= plan.version
  BY <1>3 DEF Core, CardsAreOfThePlan, Card
<1>7. ASSUME NEW b \in Artifact \ {new}
      PROVE  /\ b \in Latest(kind) /\ artifact[b].status = "pending"
                   => artifact'[b].status = "stale"
             /\ ~(b \in Latest(kind) /\ artifact[b].status = "pending")
                   => artifact'[b] = artifact[b]
             /\ artifact'[b].version = artifact[b].version
             /\ artifact'[b].planVersion = artifact[b].planVersion
             /\ artifact'[b].kind = artifact[b].kind /\ artifact'[b] \in Card
  <2>1. artifact'[b] = IF b \in Latest(kind) /\ artifact[b].status = "pending"
                       THEN [artifact[b] EXCEPT !.status = "stale"] ELSE artifact[b]
    BY <1>2
  <2> HIDE DEF kind
  <2> QED BY <1>6, <2>1 DEF Card, Status
<1> HIDE DEF kind, card
<1>8. artifact' \in [Artifact -> Card]
  <2>1. artifact' = [b \in Artifact |-> artifact'[b]]
    BY <1>2
  <2> QED BY <1>5, <1>7, <2>1
<1>9. artifact[new].status = "none" /\ new \notin Pending /\ new \in Artifact /\ new \in Nat
  BY <1>2 DEF Made, Pending, Artifact
<1>10. Made' = Made \union {new}
  BY <1>5, <1>7, <1>9 DEF Made
<1>11. \A b \in Made : b < new
  <2>1. ASSUME NEW b \in Made PROVE b < new
    <3>1. b \in Nat /\ b \in Artifact
      BY DEF Made, Artifact
    <3> QED BY <1>2, <1>9, <2>1, <3>1 DEF Core, LatestArePending
  <2> QED BY <2>1
<1>12. ASSUME NEW a \in Pending', a # new
       PROVE  a \in Pending /\ artifact'[a] = artifact[a] /\ artifact[a].kind # kind
  <2>1. a \in Artifact /\ artifact'[a].status = "pending"
    BY DEF Pending
  <2>2. ~(a \in Latest(kind) /\ artifact[a].status = "pending") /\ artifact'[a] = artifact[a]
    BY <1>7, <1>12, <2>1
  <2>3. a \in Pending /\ a \in Made
    BY <2>1, <2>2 DEF Pending, Made
  <2>4. a \notin Latest(kind)
    BY <2>2, <2>3 DEF Pending
  <2> QED BY <2>2, <2>3, <2>4 DEF Core, LatestArePending, Latest
<1>13. CardsKept(p)
  <2>1. ASSUME NEW b \in Artifact \ {new}, artifact'[b] # artifact[b]
        PROVE  rowLock[b] \in {Nobody, p}
    BY <1>1, <1>7, <2>1
  <2>2. rowLock[new] \in {Nobody, p}
    <3>1. ASSUME NEW q \in Process, rowLock[new] = q PROVE FALSE
      BY <1>9, <3>1 DEF Core, LocksFollowRequests, SubmissionsFollowCards
    <3> QED BY <1>9, <3>1 DEF Core, TypeOK
  <2>3. ASSUME NEW b \in Artifact, artifact[b].status # "none"
        PROVE  b # new /\ artifact'[b].status # "none"
    BY <1>7, <1>9, <2>3
  <2> QED BY <1>6, <1>7, <2>1, <2>2, <2>3 DEF CardsKept
<1>14. CardsAreOfThePlan'
  <2>1. \A b \in Artifact : artifact'[b].planVersion <= plan'.version
    BY <1>1, <1>4, <1>5, <1>6, <1>7
  <2>2. ASSUME NEW q \in Process, request'[q].op = "ensure"
        PROVE  request'[q] = request[q]
    <3>1. Idle.op = "idle"
      BY DEF Idle
    <3> QED BY <1>1, <2>2, <3>1, Releasing DEF Core
  <2> QED BY <1>1, <2>1, <2>2 DEF Core, CardsAreOfThePlan
<1>15. LatestArePending'
  <2>1. ASSUME NEW a \in Made', NEW b \in Artifact, b <= a PROVE b \in Made'
    <3>1. b \in Nat
      BY DEF Artifact
    <3>2. CASE a = new
      BY <1>2, <1>9, <1>10, <2>1, <3>1, <3>2
    <3>3. CASE a \in Made
      BY <1>10, <2>1, <3>3 DEF Core, LatestArePending
    <3> QED BY <1>10, <3>2, <3>3
  <2>2. ASSUME NEW a \in Pending', NEW b \in Made', artifact'[b].kind = artifact'[a].kind
        PROVE  b <= a
    <3>1. CASE a = new
      <4>1. b = new \/ b < new
        BY <1>10, <1>11
      <4>2. b \in Nat
        BY DEF Made, Artifact
      <4> QED BY <1>9, <3>1, <4>1, <4>2
    <3>2. CASE a # new
      <4>1. a \in Pending /\ artifact'[a] = artifact[a] /\ artifact[a].kind # kind
        BY <1>12, <3>2
      <4>2. b # new
        BY <1>5, <2>2, <4>1
      <4>3. b \in Made /\ artifact'[b].kind = artifact[b].kind
        BY <1>7, <1>10, <4>2 DEF Made
      <4> QED BY <2>2, <4>1, <4>3 DEF Core, LatestArePending
    <3> QED BY <3>1, <3>2
  <2> QED BY <2>1, <2>2 DEF LatestArePending
<1>16. CardsOfEndedPlansAreOld'
  <2> SUFFICES ASSUME plan'.status # "draft", NEW a \in Pending'
               PROVE  artifact'[a].planVersion < plan'.version
    BY DEF CardsOfEndedPlansAreOld
  <2>1. CASE a = new
    BY <1>1, <1>4, <1>5, <2>1
  <2>2. CASE a # new
    BY <1>1, <1>12, <2>2 DEF Core, CardsOfEndedPlansAreOld
  <2> QED BY <2>1, <2>2
<1>17. plan' \in [status : {"draft", "ended"}, version : Nat] /\ PlanKept(p)
  BY <1>1, <1>3 DEF PlanKept
<1> QED BY <1>1, <1>3, <1>8, <1>13, <1>14, <1>15, <1>16, <1>17, KeysStay, Committing

\* Time is up for a card that nobody holds.
LEMMA ExpireKeeps ==
    ASSUME Core, NEW a \in Artifact, Expire(a)
    PROVE  Core'
<1>1. /\ a \in Pending /\ rowLock[a] = Nobody
      /\ artifact' = [artifact EXCEPT ![a].status = "stale"]
      /\ UNCHANGED <<plan, submission, told, advisory, planLock, rowLock, request>>
  BY DEF Expire
<1>2. artifact \in [Artifact -> Card] /\ artifact[a] \in Card
  BY DEF Core, TypeOK
<1>3. /\ artifact'[a] = [artifact[a] EXCEPT !.status = "stale"]
      /\ \A b \in Artifact \ {a} : artifact'[b] = artifact[b]
  BY <1>1, <1>2
<1>4. /\ artifact'[a].status = "stale" /\ artifact'[a] \in Card
      /\ artifact'[a].version = artifact[a].version /\ artifact'[a].kind = artifact[a].kind
      /\ artifact'[a].planVersion = artifact[a].planVersion
  BY <1>2, <1>3 DEF Card, Status
<1>5. artifact' \in [Artifact -> Card]
  BY <1>1, <1>2, <1>3, <1>4
<1>6. TypeOK' /\ LocksFollowRequests' /\ PlanIsAsTested'
  BY <1>1, <1>5 DEF Core, TypeOK, LocksFollowRequests, PlanIsAsTested
<1>7. Made' = Made /\ Pending' \subseteq Pending
      /\ \A b \in Artifact : /\ artifact'[b].planVersion = artifact[b].planVersion
                             /\ artifact'[b].kind = artifact[b].kind
                             /\ artifact'[b].version = artifact[b].version
  BY <1>1, <1>3, <1>4 DEF Made, Pending
<1>8. CardsAreOfThePlan' /\ LatestArePending' /\ CardsOfEndedPlansAreOld'
  <2>1. Pending \subseteq Artifact /\ Made \subseteq Artifact
    BY DEF Pending, Made
  <2> QED BY <1>1, <1>7, <2>1
          DEF Core, CardsAreOfThePlan, LatestArePending, CardsOfEndedPlansAreOld
<1>9. SubmissionsFollowCards'
  <2> SUFFICES ASSUME NEW q \in Process, request[q].op = "submit"
               PROVE  LET card == artifact'[request[q].row] IN
                      /\ card.status # "none" /\ request[q].version <= card.version
                      /\ card.version = request[q].version
                            => card.planVersion = request[q].planVersion
                      /\ request[q].at \in {"plan", "commit"} =>
                            card.status = "pending" /\ card.version = request[q].version
    BY <1>1 DEF SubmissionsFollowCards
  <2>1. request[q].row \in Artifact
    BY DEF Core, TypeOK, Request
  <2>2. CASE request[q].row # a
    BY <1>3, <2>1, <2>2 DEF Core, SubmissionsFollowCards
  <2>3. CASE request[q].row = a
    <3>1. request[q].at \notin {"plan", "commit"}
      BY <1>1, <2>3, InteractionAssumption DEF Core, LocksFollowRequests
    <3> QED BY <1>4, <2>3, <3>1 DEF Core, SubmissionsFollowCards
  <2> QED BY <2>2, <2>3
<1>10. KeysHold'
  <2>1. ASSUME NEW b \in Artifact, artifact[b].status # "none"
        PROVE  artifact'[b].status # "none" /\ artifact'[b].version = artifact[b].version
    BY <1>7, <2>1 DEF Made
  <2>2. ASSUME NEW key \in Key, NEW d \in submission[key] PROVE d.row \in Artifact
    BY DEF Core, TypeOK, Decision
  <2>3. KeysAreDecided'
    BY <1>1, <2>1, <2>2 DEF Core, KeysHold, KeysAreDecided
  <2> QED BY <1>1, <2>3 DEF Core, KeysHold, CardsAreDecidedOnce, FoundIsRecorded
<1> QED BY <1>6, <1>8, <1>9, <1>10 DEF Core

-----------------------------------------------------------------------------
(* The specification *)

LEMMA CoreAtFirst == Init => Core
<1> SUFFICES ASSUME Init PROVE Core
  OBVIOUS
<1>1. (CHOOSE k \in Kind : TRUE) \in Kind
  BY InteractionAssumption
<1>2. NoArtifact \in Card /\ NoArtifact.status = "none" /\ NoArtifact.planVersion = 0
  BY <1>1 DEF NoArtifact, Card, Status
<1>3. Idle.op = "idle" /\ Idle.at = "start" /\ Idle.verdict = "none"
  BY DEF Idle
<1>4. plan.status = "draft" /\ plan.version = 1
  BY DEF Init
<1>5. TypeOK
  BY <1>2, IdleIsRequest DEF Init, TypeOK
<1>6. \A p \in Process : request[p] = Idle /\ planLock # p /\ \A a \in Artifact : rowLock[a] # p
  BY InteractionAssumption DEF Init
<1>7. LocksFollowRequests /\ SubmissionsFollowCards /\ PlanIsAsTested
  BY <1>3, <1>6 DEF LocksFollowRequests, SubmissionsFollowCards, PlanIsAsTested
<1>8. \A a \in Artifact : artifact[a] = NoArtifact
  BY DEF Init
<1>9. CardsAreOfThePlan
  BY <1>2, <1>3, <1>4, <1>6, <1>8 DEF CardsAreOfThePlan
<1>10. Made = {} /\ Pending = {}
  BY <1>2, <1>8 DEF Made, Pending
<1>11. KeysHold
  <2>1. \A k \in Key : submission[k] = {} /\ told[k] = {}
    BY DEF Init
  <2>2. Idle.found = {}
    BY DEF Idle
  <2> QED BY <1>6, <2>1, <2>2
          DEF KeysHold, KeysAreDecided, CardsAreDecidedOnce, FoundIsRecorded
<1> QED BY <1>5, <1>7, <1>9, <1>10, <1>11 DEF Core, LatestArePending, CardsOfEndedPlansAreOld

LEMMA CoreIsInductive == Core /\ [Next]_vars => Core'
<1> SUFFICES ASSUME Core, [Next]_vars PROVE Core'
  OBVIOUS
<1>1. CASE UNCHANGED vars
  BY <1>1 DEF vars, Core, TypeOK, LocksFollowRequests, SubmissionsFollowCards, PlanIsAsTested,
              CardsAreOfThePlan, LatestArePending, CardsOfEndedPlansAreOld, Made, Pending,
              KeysHold, KeysAreDecided, CardsAreDecidedOnce, FoundIsRecorded
<1>2. ASSUME NEW a \in Artifact, Expire(a) PROVE Core'
  BY <1>2, ExpireKeeps
<1>3. ASSUME NEW p \in Process, Start(p) PROVE Core'
  BY <1>3, BeginSubmitKeeps, BeginEnsureKeeps, BeginKeeps DEF Start
<1>4. ASSUME NEW p \in Process, Continue(p) PROVE Core'
  <2>1. CASE SubmitAdvisory(p) \/ PlanAdvisory(p)
    BY <2>1, TakeAdvisoryKeeps
  <2>2. CASE SubmitRow(p)
    BY <2>2, SubmitRowKeeps
  <2>3. CASE SubmitPlan(p)
    BY <2>3, SubmitPlanKeeps
  <2>4. CASE SubmitCommit(p)
    BY <2>4, SubmitCommitKeeps
  <2>5. CASE SubmitKeyTaken(p) \/ EnsureExisting(p) \/ EnsureBound(p)
    BY <2>5, RollbackKeeps DEF SubmitKeyTaken, EnsureExisting, EnsureBound
  <2>6. CASE EnsureNew(p)
    BY <2>6, EnsureNewKeeps
  <2>7. CASE PlanRow(p)
    BY <2>7, PlanRowKeeps
  <2>8. CASE PlanCommit(p)
    BY <2>8, PlanCommitKeeps
  <2>9. CASE SubmitReplay(p)
    BY <2>9, ReplayKeeps
  <2> QED BY <1>4, <2>1, <2>2, <2>3, <2>4, <2>5, <2>6, <2>7, <2>8, <2>9 DEF Continue
<1>5. ASSUME NEW p \in Process, DeadlockVictim(p) PROVE Core'
  BY <1>5, RollbackKeeps DEF DeadlockVictim
<1> QED BY <1>1, <1>2, <1>3, <1>4, <1>5 DEF Next

LEMMA CoreHolds == Spec => []Core
<1> QED BY CoreAtFirst, CoreIsInductive, PTL DEF Spec

\* A submission takes effect only on what its card showed, and a plan that has
\* ended leaves no card that could take effect.
THEOREM CardsAreSound == Spec => []CardInv
<1>1. Core => CardInv
  BY CoreIsAll
<1> QED BY <1>1, CoreHolds, PTL

\* However often a request is sent again, what is answered under its key is one
\* decision, and a version of a card is decided on under one key.
THEOREM KeysDecideOnce == Spec => []OneDecisionToAKey
<1>1. Core => OneDecisionToAKey
  BY CoreIsAll
<1> QED BY <1>1, CoreHolds, PTL
==============================================================================
