----------------------- MODULE ProfileRefresh_proofs -----------------------
(***************************************************************************)
(* A profile is current or marked as behind, for any places, workers and   *)
(* numbers of writes and mishaps.                                          *)
(*                                                                         *)
(* That a clean state has the due profile says nothing of rebuilds and     *)
(* requests under way.  ProfileInv adds what they have read: a rebuild     *)
(* holds the row, so what it read cannot change under it except by a       *)
(* request on the profile, and a request only by a rebuild or another      *)
(* request; as long as none overtakes another (calm), all write what is    *)
(* still right.                                                            *)
(* The proof has one lemma for each action and one step for each part of   *)
(* the invariant.                                                          *)
(***************************************************************************)
EXTENDS ProfileRefresh, TLAPS

-----------------------------------------------------------------------------
\* The bounds are kept, and a message asked for during a clear is an overtaking.
LEMMA Budgets ==
    ASSUME TypeOK
    PROVE  /\ Write => writes' \in 0..MaxWrites
           /\ Mishap => mishaps' \in 0..MaxMishaps
           /\ Enqueue => /\ messages' \in 0..MaxMessages
                         /\ mishaps' \in 0..MaxMishaps
                         /\ calm' \in BOOLEAN
                         /\ calm' => calm /\ Clearing = {}
<1>1. Write => writes' \in 0..MaxWrites
  BY RefreshAssumption DEF TypeOK, Write
<1>2. Mishap => mishaps' \in 0..MaxMishaps
  BY RefreshAssumption DEF TypeOK, Mishap
<1>3. Enqueue => messages' \in 0..MaxMessages
  BY RefreshAssumption DEF TypeOK, Enqueue
<1>4. Enqueue => mishaps' \in 0..MaxMishaps
  BY <1>2 DEF TypeOK, Enqueue
<1>5. Enqueue => calm' \in BOOLEAN /\ (calm' => calm /\ Clearing = {})
  BY DEF TypeOK, Enqueue
<1> QED BY <1>1, <1>2, <1>3, <1>4, <1>5

\* A mark waits for the row and leaves it dirty.
LEMMA Marking ==
    ASSUME TypeOK, Mark
    PROVE  /\ row = NoOne /\ status' = "dirty"
           /\ messages' \in 0..MaxMessages /\ mishaps' \in 0..MaxMishaps
           /\ calm' \in BOOLEAN /\ (calm' => calm /\ Clearing = {})
<1>1. CASE status # "dirty"
  BY <1>1, Budgets DEF Mark
<1>2. CASE status = "dirty"
  BY <1>2 DEF Mark, TypeOK
<1> QED BY <1>1, <1>2


-----------------------------------------------------------------------------
(* What marks the row *)

LEMMA ChangeKeeps ==
    ASSUME ProfileInv, NEW p \in Place, Change(p)
    PROVE  ProfileInv'
<1> USE RefreshAssumption DEF ProfileInv
<1>1. TypeOK'
  BY Marking, Budgets DEF TypeOK, Change
<1>2. RowIsHeldAtWork' /\ OneAtATime'
  BY Marking, Budgets DEF TypeOK, RowIsHeldAtWork, OneAtATime, AtWork, Asking, Change
<1>3. RebuildsAreCurrent'
  BY Marking, Budgets
     DEF TypeOK, RowIsHeldAtWork, OneAtATime, RebuildsAreCurrent, AtWork, Due, Asking,
         Change
<1>4. RequestsAreCurrent'
  BY Marking, Budgets
     DEF TypeOK, RowIsHeldAtWork, OneAtATime, RequestsAreCurrent,
         CleanMeansCurrent, ForgottenStaysForgotten, AtWork, Due, Clearing, Change
<1>5. CleanMeansCurrent' /\ ForgottenStaysForgotten'
  BY Marking, Budgets
     DEF TypeOK, RowIsHeldAtWork, RebuildsAreCurrent, RequestsAreCurrent,
         CleanMeansCurrent, ForgottenStaysForgotten, AtWork, Due, Asking, Change
<1> QED BY <1>1, <1>2, <1>3, <1>4, <1>5

LEMMA SetGenerationKeeps ==
    ASSUME ProfileInv, NEW on \in BOOLEAN, SetGeneration(on)
    PROVE  ProfileInv'
<1> USE RefreshAssumption DEF ProfileInv
<1>1. TypeOK'
  BY Marking, Budgets DEF TypeOK, SetGeneration
<1>2. RowIsHeldAtWork' /\ OneAtATime'
  BY Marking, Budgets DEF TypeOK, RowIsHeldAtWork, OneAtATime, AtWork, Asking, SetGeneration
<1>3. RebuildsAreCurrent'
  BY Marking, Budgets
     DEF TypeOK, RowIsHeldAtWork, OneAtATime, RebuildsAreCurrent, AtWork, Due, Asking,
         SetGeneration
<1>4. RequestsAreCurrent'
  BY Marking, Budgets
     DEF TypeOK, RowIsHeldAtWork, OneAtATime, RequestsAreCurrent,
         CleanMeansCurrent, ForgottenStaysForgotten, AtWork, Due, Asking, SetGeneration
<1>5. CleanMeansCurrent' /\ ForgottenStaysForgotten'
  BY Marking, Budgets
     DEF TypeOK, RowIsHeldAtWork, RebuildsAreCurrent, RequestsAreCurrent,
         CleanMeansCurrent, ForgottenStaysForgotten, AtWork, Due, Asking, SetGeneration
<1> QED BY <1>1, <1>2, <1>3, <1>4, <1>5

LEMMA RefreshDailyKeeps ==
    ASSUME ProfileInv, RefreshDaily
    PROVE  ProfileInv'
<1> USE RefreshAssumption DEF ProfileInv
<1>1. TypeOK'
  BY Budgets DEF TypeOK, RefreshDaily
<1>2. RowIsHeldAtWork' /\ OneAtATime'
  BY Budgets DEF TypeOK, RowIsHeldAtWork, OneAtATime, AtWork, Asking, RefreshDaily
<1>3. RebuildsAreCurrent'
  BY Budgets
     DEF TypeOK, RowIsHeldAtWork, OneAtATime, RebuildsAreCurrent, AtWork, Due, Asking,
         RefreshDaily
<1>4. RequestsAreCurrent'
  BY Budgets
     DEF TypeOK, RowIsHeldAtWork, OneAtATime, RequestsAreCurrent,
         CleanMeansCurrent, ForgottenStaysForgotten, AtWork, Due, Asking, RefreshDaily
<1>5. CleanMeansCurrent' /\ ForgottenStaysForgotten'
  BY Budgets
     DEF TypeOK, RowIsHeldAtWork, RebuildsAreCurrent, RequestsAreCurrent,
         CleanMeansCurrent, ForgottenStaysForgotten, AtWork, Due, Asking, RefreshDaily
<1> QED BY <1>1, <1>2, <1>3, <1>4, <1>5

-----------------------------------------------------------------------------
(* Rebuilds *)

LEMMA BeginKeeps ==
    ASSUME ProfileInv, NEW w \in Worker, Begin(w)
    PROVE  ProfileInv'
<1> USE RefreshAssumption DEF ProfileInv
<1>1. messages' \in 0..MaxMessages
  BY DEF TypeOK, Begin
<1>2. CASE status # "dirty"
  BY <1>1, <1>2
     DEF TypeOK, RowIsHeldAtWork, OneAtATime, RebuildsAreCurrent, RequestsAreCurrent,
         CleanMeansCurrent, ForgottenStaysForgotten, AtWork, Due, Asking, Begin
<1>3. CASE status = "dirty"
  <2> DEFINE e == [at |-> "loaded", on |-> generation, made |-> facts \ forgotten]
  <2>1. /\ row' = w /\ job' = [job EXCEPT ![w] = e]
        /\ calm' = (calm /\ Asking = {})
        /\ job[w].at = "rest" /\ row = NoOne
    BY <1>3 DEF Begin
  <2>2. e.at = "loaded" /\ e.on = generation /\ e.made = facts \ forgotten
    OBVIOUS
  <2>3. TypeOK'
    <3>1. e \in [at : {"rest", "loaded", "filtered", "stored", "failing"},
                 on : BOOLEAN, made : SUBSET Place]
      BY DEF TypeOK
    <3> HIDE DEF e
    <3> QED BY <1>1, <2>1, <3>1 DEF TypeOK, Begin
  <2> HIDE DEF e
  <2>4. \A v \in Worker : job'[v] = IF v = w THEN e ELSE job[v]
    BY <2>1 DEF TypeOK
  <2>5. RowIsHeldAtWork'
    BY <2>1, <2>2, <2>4 DEF RowIsHeldAtWork, AtWork
  <2>6. OneAtATime'
    <3>1. OneAtATime /\ request' = request
      BY DEF Begin
    <3>2. calm' => \A v \in Worker : job'[v].at # "failing"
      BY <2>1, <2>2, <2>4, <3>1 DEF OneAtATime
    <3>3. Asking' = Asking
      BY <3>1 DEF Asking
    <3> QED BY <2>1, <3>1, <3>2, <3>3 DEF OneAtATime
  <2>7. RebuildsAreCurrent'
    BY <1>3, <2>1, <2>2, <2>4 DEF RowIsHeldAtWork, RebuildsAreCurrent, AtWork, Begin
  <2>8. RequestsAreCurrent' /\ CleanMeansCurrent' /\ ForgottenStaysForgotten'
    BY <1>3, <2>1
       DEF RequestsAreCurrent, CleanMeansCurrent, ForgottenStaysForgotten, Due, Asking, Begin
  <2> QED BY <2>3, <2>5, <2>6, <2>7, <2>8
<1> QED BY <1>2, <1>3

LEMMA FilterKeeps ==
    ASSUME ProfileInv, NEW w \in Worker, Filter(w)
    PROVE  ProfileInv'
<1> USE RefreshAssumption DEF ProfileInv
<1> DEFINE e == [at |-> "filtered", on |-> job[w].on, made |-> job[w].made \ excluded]
<1>1. job' = [job EXCEPT ![w] = e]
  BY DEF Filter
<1>2. job[w].at = "loaded" /\ job[w].on \in BOOLEAN /\ job[w].made \subseteq Place
  BY DEF TypeOK, Filter
<1>3. TypeOK'
  <2>1. e \in [at : {"rest", "loaded", "filtered", "stored", "failing"},
               on : BOOLEAN, made : SUBSET Place]
    BY <1>2
  <2>2. UNCHANGED <<facts, forgotten, excluded, generation, status, row, messages,
                    profile, request, writes, mishaps, calm>>
    BY DEF Filter
  <2> HIDE DEF e
  <2> QED BY <1>1, <2>1, <2>2 DEF TypeOK
<1>4. \A v \in Worker : job'[v] = IF v = w THEN e ELSE job[v]
  BY <1>1 DEF TypeOK
<1>5. e.at = "filtered" /\ e.on = job[w].on /\ e.made = job[w].made \ excluded
  OBVIOUS
<1> HIDE DEF e
<1>6. RowIsHeldAtWork' /\ OneAtATime'
  BY <1>2, <1>4, <1>5 DEF RowIsHeldAtWork, OneAtATime, AtWork, Asking, Filter
<1>7. RebuildsAreCurrent'
  BY <1>2, <1>4, <1>5 DEF RowIsHeldAtWork, RebuildsAreCurrent, AtWork, Due, Asking, Filter
<1>8. RequestsAreCurrent' /\ CleanMeansCurrent' /\ ForgottenStaysForgotten'
  BY DEF RequestsAreCurrent, CleanMeansCurrent, ForgottenStaysForgotten, Due, Asking, Filter
<1> QED BY <1>3, <1>6, <1>7, <1>8

LEMMA StoreKeeps ==
    ASSUME ProfileInv, NEW w \in Worker, Store(w)
    PROVE  ProfileInv'
<1> USE RefreshAssumption DEF ProfileInv
<1>1. TypeOK'
  BY DEF TypeOK, Store, Step
<1>2. RowIsHeldAtWork' /\ OneAtATime'
  BY DEF TypeOK, RowIsHeldAtWork, OneAtATime, AtWork, Asking, Store, Step
<1>3. RebuildsAreCurrent'
  <2>1. calm => Asking = {}
    BY DEF OneAtATime, RowIsHeldAtWork, AtWork, Store
  <2> QED
    BY <2>1 DEF TypeOK, RowIsHeldAtWork, RebuildsAreCurrent, AtWork, Due, Store, Step
<1>4. RequestsAreCurrent'
  BY DEF TypeOK, RowIsHeldAtWork, OneAtATime, RequestsAreCurrent, CleanMeansCurrent,
         ForgottenStaysForgotten, AtWork, Due, Asking, Store, Step
<1>5. CleanMeansCurrent' /\ ForgottenStaysForgotten'
  BY DEF TypeOK, RowIsHeldAtWork, RebuildsAreCurrent, RequestsAreCurrent,
         CleanMeansCurrent, ForgottenStaysForgotten, AtWork, Due, Asking, Store, Step
<1> QED BY <1>1, <1>2, <1>3, <1>4, <1>5

LEMMA FinishKeeps ==
    ASSUME ProfileInv, NEW w \in Worker, Finish(w)
    PROVE  ProfileInv'
<1> USE RefreshAssumption DEF ProfileInv
<1>1. TypeOK'
  BY DEF TypeOK, Finish, Idle
<1>2. RowIsHeldAtWork' /\ OneAtATime'
  BY DEF TypeOK, RowIsHeldAtWork, OneAtATime, AtWork, Asking, Finish, Idle
<1>3. RebuildsAreCurrent'
  BY DEF TypeOK, RowIsHeldAtWork, OneAtATime, RebuildsAreCurrent, AtWork, Due, Asking, Finish,
         Idle
<1>4. RequestsAreCurrent'
  BY DEF TypeOK, RowIsHeldAtWork, OneAtATime, RequestsAreCurrent, CleanMeansCurrent,
         ForgottenStaysForgotten, AtWork, Due, Asking, Finish, Idle
<1>5. CleanMeansCurrent' /\ ForgottenStaysForgotten'
  BY DEF TypeOK, RowIsHeldAtWork, RebuildsAreCurrent, RequestsAreCurrent,
         CleanMeansCurrent, ForgottenStaysForgotten, AtWork, Due, Asking, Finish, Idle
<1> QED BY <1>1, <1>2, <1>3, <1>4, <1>5

LEMMA FailKeeps ==
    ASSUME ProfileInv, NEW w \in Worker, Fail(w)
    PROVE  ProfileInv'
<1> USE RefreshAssumption DEF ProfileInv
<1>1. TypeOK'
  BY Budgets DEF TypeOK, Fail, Idle
<1>2. RowIsHeldAtWork' /\ OneAtATime'
  BY Budgets DEF TypeOK, RowIsHeldAtWork, OneAtATime, AtWork, Asking, Fail, Idle
<1>3. RebuildsAreCurrent'
  BY Budgets
     DEF TypeOK, RowIsHeldAtWork, OneAtATime, RebuildsAreCurrent, AtWork, Due, Asking,
         Fail, Idle
<1>4. RequestsAreCurrent'
  BY Budgets
     DEF TypeOK, RowIsHeldAtWork, OneAtATime, RequestsAreCurrent,
         CleanMeansCurrent, ForgottenStaysForgotten, AtWork, Due, Asking, Fail, Idle
<1>5. CleanMeansCurrent' /\ ForgottenStaysForgotten'
  BY Budgets
     DEF TypeOK, RowIsHeldAtWork, RebuildsAreCurrent, RequestsAreCurrent,
         CleanMeansCurrent, ForgottenStaysForgotten, AtWork, Due, Asking, Fail, Idle
<1> QED BY <1>1, <1>2, <1>3, <1>4, <1>5

LEMMA MarkFailedKeeps ==
    ASSUME ProfileInv, NEW w \in Worker, MarkFailed(w)
    PROVE  ProfileInv'
<1> USE RefreshAssumption DEF ProfileInv
<1>1. TypeOK'
  BY DEF TypeOK, MarkFailed, Idle
<1>2. RowIsHeldAtWork' /\ OneAtATime'
  BY DEF TypeOK, RowIsHeldAtWork, OneAtATime, AtWork, Asking, MarkFailed, Idle
<1>3. RebuildsAreCurrent'
  BY DEF TypeOK, RowIsHeldAtWork, OneAtATime, RebuildsAreCurrent, AtWork, Due, Asking,
         MarkFailed, Idle
<1>4. RequestsAreCurrent'
  BY DEF TypeOK, RowIsHeldAtWork, OneAtATime, RequestsAreCurrent, CleanMeansCurrent,
         ForgottenStaysForgotten, AtWork, Due, Asking, MarkFailed, Idle
<1>5. CleanMeansCurrent' /\ ForgottenStaysForgotten'
  BY DEF TypeOK, RowIsHeldAtWork, RebuildsAreCurrent, RequestsAreCurrent,
         CleanMeansCurrent, ForgottenStaysForgotten, AtWork, Due, Asking, MarkFailed, Idle
<1> QED BY <1>1, <1>2, <1>3, <1>4, <1>5

LEMMA CrashKeeps ==
    ASSUME ProfileInv, NEW w \in Worker, Crash(w)
    PROVE  ProfileInv'
<1> USE RefreshAssumption DEF ProfileInv
<1>1. TypeOK'
  BY Budgets DEF TypeOK, Crash, Idle
<1>2. RowIsHeldAtWork' /\ OneAtATime'
  BY Budgets DEF TypeOK, RowIsHeldAtWork, OneAtATime, AtWork, Asking, Crash, Idle
<1>3. RebuildsAreCurrent'
  BY Budgets
     DEF TypeOK, RowIsHeldAtWork, OneAtATime, RebuildsAreCurrent, AtWork, Due, Asking,
         Crash, Idle
<1>4. RequestsAreCurrent'
  BY Budgets
     DEF TypeOK, RowIsHeldAtWork, OneAtATime, RequestsAreCurrent,
         CleanMeansCurrent, ForgottenStaysForgotten, AtWork, Due, Asking, Crash, Idle
<1>5. CleanMeansCurrent' /\ ForgottenStaysForgotten'
  BY Budgets
     DEF TypeOK, RowIsHeldAtWork, RebuildsAreCurrent, RequestsAreCurrent,
         CleanMeansCurrent, ForgottenStaysForgotten, AtWork, Due, Asking, Crash, Idle
<1> QED BY <1>1, <1>2, <1>3, <1>4, <1>5

-----------------------------------------------------------------------------
(* Requests on the profile *)

\* A request that begins while all is calm is the only one.
LEMMA OneAsks ==
    ASSUME TypeOK, NEW c \in Client, NEW r, request[c] = NoRequest,
           request' = [request EXCEPT ![c] = r], r.at # "rest"
    PROVE  /\ \A d \in Client : request'[d] = IF d = c THEN r ELSE request[d]
           /\ Asking' = Asking \union {c}
           /\ Asking = {} => \A d \in Client \ {c} : request'[d].at = "rest"
<1>1. \A d \in Client : request'[d] = IF d = c THEN r ELSE request[d]
  BY DEF TypeOK
<1> QED BY <1>1 DEF Asking

LEMMA BeginClearKeeps ==
    ASSUME ProfileInv, NEW c \in Client, BeginClear(c)
    PROVE  ProfileInv'
<1> USE RefreshAssumption DEF ProfileInv
<1> DEFINE r == [NoRequest EXCEPT !.at = "clear", !.made = facts]
<1>1. TypeOK'
  BY Budgets DEF TypeOK, BeginClear, NoRequest
<1>2. request[c] = NoRequest /\ request' = [request EXCEPT ![c] = r]
      /\ calm' = (calm /\ row = NoOne /\ Asking = {})
      /\ UNCHANGED <<facts, forgotten, excluded, generation, status, row, job>>
  BY DEF BeginClear
<1>3. r.at = "clear" /\ r.made = facts /\ profile' = {}
  BY DEF BeginClear, NoRequest
<1> HIDE DEF r
<1>4. /\ \A d \in Client : request'[d] = IF d = c THEN r ELSE request[d]
      /\ Asking' = Asking \union {c}
      /\ Asking = {} => \A d \in Client \ {c} : request'[d].at = "rest"
  BY <1>2, <1>3, OneAsks
<1>5. RowIsHeldAtWork' /\ OneAtATime'
  BY <1>2, <1>4 DEF RowIsHeldAtWork, OneAtATime, AtWork
<1>6. RebuildsAreCurrent'
  BY <1>2, RefreshAssumption DEF RowIsHeldAtWork, RebuildsAreCurrent, AtWork, Due
<1>7. RequestsAreCurrent'
  BY <1>2, <1>3, <1>4
     DEF RequestsAreCurrent, CleanMeansCurrent, ForgottenStaysForgotten, Due
<1>8. CleanMeansCurrent' /\ ForgottenStaysForgotten'
  BY <1>4 DEF CleanMeansCurrent, ForgottenStaysForgotten
<1> QED BY <1>1, <1>5, <1>6, <1>7, <1>8

LEMMA EndClearKeeps ==
    ASSUME ProfileInv, NEW c \in Client, EndClear(c)
    PROVE  ProfileInv'
<1> USE RefreshAssumption DEF ProfileInv
<1>1. TypeOK'
  BY DEF TypeOK, EndClear, NoRequest
<1>2. RowIsHeldAtWork' /\ OneAtATime'
  BY DEF TypeOK, RowIsHeldAtWork, OneAtATime, AtWork, Asking, EndClear, NoRequest
<1>3. RebuildsAreCurrent'
  BY DEF TypeOK, RowIsHeldAtWork, OneAtATime, RebuildsAreCurrent, AtWork, Due, Asking,
         EndClear, NoRequest
<1>4. RequestsAreCurrent'
  BY DEF TypeOK, RowIsHeldAtWork, OneAtATime, RequestsAreCurrent, CleanMeansCurrent,
         ForgottenStaysForgotten, AtWork, Due, Asking, EndClear, NoRequest
<1>5. CleanMeansCurrent' /\ ForgottenStaysForgotten'
  BY DEF TypeOK, RowIsHeldAtWork, RebuildsAreCurrent, RequestsAreCurrent,
         CleanMeansCurrent, ForgottenStaysForgotten, AtWork, Due, Asking, EndClear, NoRequest
<1> QED BY <1>1, <1>2, <1>3, <1>4, <1>5

LEMMA BeginExcludeKeeps ==
    ASSUME ProfileInv, NEW c \in Client, NEW p \in Place, BeginExclude(c, p)
    PROVE  ProfileInv'
<1> USE RefreshAssumption DEF ProfileInv
<1> DEFINE r == [at |-> "exclude", place |-> {p}, made |-> profile \ {p}]
<1>1. TypeOK'
  BY Budgets DEF TypeOK, BeginExclude, NoRequest
<1>2. request[c] = NoRequest /\ request' = [request EXCEPT ![c] = r]
      /\ calm' = (calm /\ row = NoOne /\ Asking = {})
      /\ UNCHANGED <<facts, forgotten, excluded, generation, status, row, job>>
  BY DEF BeginExclude
<1>3. /\ r.at = "exclude" /\ r.place = {p} /\ r.made = profile \ {p}
      /\ profile' = profile
  BY DEF BeginExclude, NoRequest
<1> HIDE DEF r
<1>4. /\ \A d \in Client : request'[d] = IF d = c THEN r ELSE request[d]
      /\ Asking' = Asking \union {c}
      /\ Asking = {} => \A d \in Client \ {c} : request'[d].at = "rest"
  BY <1>2, <1>3, OneAsks
<1>5. RowIsHeldAtWork' /\ OneAtATime'
  BY <1>2, <1>4 DEF RowIsHeldAtWork, OneAtATime, AtWork
<1>6. RebuildsAreCurrent'
  BY <1>2, RefreshAssumption DEF RowIsHeldAtWork, RebuildsAreCurrent, AtWork, Due
<1>7. RequestsAreCurrent'
  BY <1>2, <1>3, <1>4
     DEF RequestsAreCurrent, CleanMeansCurrent, ForgottenStaysForgotten, Due
<1>8. CleanMeansCurrent' /\ ForgottenStaysForgotten'
  BY <1>4 DEF CleanMeansCurrent, ForgottenStaysForgotten
<1> QED BY <1>1, <1>5, <1>6, <1>7, <1>8

LEMMA StoreExcludedKeeps ==
    ASSUME ProfileInv, NEW c \in Client, StoreExcluded(c)
    PROVE  ProfileInv'
<1> USE RefreshAssumption DEF ProfileInv
<1>1. TypeOK'
  BY DEF TypeOK, StoreExcluded
<1>2. RowIsHeldAtWork' /\ OneAtATime'
  BY DEF TypeOK, RowIsHeldAtWork, OneAtATime, AtWork, Asking, StoreExcluded
<1>3. RebuildsAreCurrent'
  BY DEF TypeOK, RowIsHeldAtWork, OneAtATime, RebuildsAreCurrent, AtWork, Due, Asking,
         StoreExcluded
<1>4. RequestsAreCurrent'
  BY DEF TypeOK, RowIsHeldAtWork, OneAtATime, RequestsAreCurrent, CleanMeansCurrent,
         ForgottenStaysForgotten, AtWork, Due, Asking, StoreExcluded
<1>5. CleanMeansCurrent' /\ ForgottenStaysForgotten'
  BY DEF TypeOK, RowIsHeldAtWork, RebuildsAreCurrent, RequestsAreCurrent,
         CleanMeansCurrent, ForgottenStaysForgotten, AtWork, Due, Asking, StoreExcluded
<1> QED BY <1>1, <1>2, <1>3, <1>4, <1>5

LEMMA CommitExcludedKeeps ==
    ASSUME ProfileInv, NEW c \in Client, CommitExcluded(c)
    PROVE  ProfileInv'
<1> USE RefreshAssumption DEF ProfileInv
<1>1. TypeOK'
  BY DEF TypeOK, CommitExcluded, NoRequest
<1>2. RowIsHeldAtWork' /\ OneAtATime'
  BY DEF TypeOK, RowIsHeldAtWork, OneAtATime, AtWork, Asking, CommitExcluded, NoRequest
<1>3. RebuildsAreCurrent'
  BY DEF TypeOK, RowIsHeldAtWork, OneAtATime, RebuildsAreCurrent, AtWork, Due, Asking,
         CommitExcluded, NoRequest
<1>4. RequestsAreCurrent'
  BY DEF TypeOK, RowIsHeldAtWork, OneAtATime, RequestsAreCurrent, CleanMeansCurrent,
         ForgottenStaysForgotten, AtWork, Due, Asking, CommitExcluded, NoRequest
<1>5. CleanMeansCurrent' /\ ForgottenStaysForgotten'
  BY DEF TypeOK, RowIsHeldAtWork, RebuildsAreCurrent, RequestsAreCurrent,
         CleanMeansCurrent, ForgottenStaysForgotten, AtWork, Due, Asking, CommitExcluded,
         NoRequest
<1> QED BY <1>1, <1>2, <1>3, <1>4, <1>5

LEMMA AbortRequestKeeps ==
    ASSUME ProfileInv, NEW c \in Client, AbortRequest(c)
    PROVE  ProfileInv'
<1> USE RefreshAssumption DEF ProfileInv
<1>1. TypeOK'
  BY Budgets DEF TypeOK, AbortRequest, NoRequest
<1>2. RowIsHeldAtWork' /\ OneAtATime'
  BY Budgets DEF TypeOK, RowIsHeldAtWork, OneAtATime, AtWork, Asking, AbortRequest, NoRequest
<1>3. RebuildsAreCurrent'
  BY Budgets
     DEF TypeOK, RowIsHeldAtWork, OneAtATime, RebuildsAreCurrent, AtWork, Due, Asking,
         AbortRequest, NoRequest
<1>4. RequestsAreCurrent'
  BY Budgets
     DEF TypeOK, RowIsHeldAtWork, OneAtATime, RequestsAreCurrent,
         CleanMeansCurrent, ForgottenStaysForgotten, AtWork, Due, Asking, AbortRequest,
         NoRequest
<1>5. CleanMeansCurrent' /\ ForgottenStaysForgotten'
  BY Budgets
     DEF TypeOK, RowIsHeldAtWork, RebuildsAreCurrent, RequestsAreCurrent,
         CleanMeansCurrent, ForgottenStaysForgotten, AtWork, Due, Asking, AbortRequest,
         NoRequest
<1> QED BY <1>1, <1>2, <1>3, <1>4, <1>5


LEMMA Invariance ==
    ProfileInv /\ [Next]_vars => ProfileInv'
<1> SUFFICES ASSUME ProfileInv, [Next]_vars PROVE ProfileInv'
  OBVIOUS
<1>1. CASE UNCHANGED vars
  BY <1>1 DEF vars, ProfileInv, TypeOK, RowIsHeldAtWork, OneAtATime, RebuildsAreCurrent,
              RequestsAreCurrent, CleanMeansCurrent, ForgottenStaysForgotten, AtWork, Due, Asking
<1>2. CASE Next
  BY <1>2, ChangeKeeps, SetGenerationKeeps, RefreshDailyKeeps, BeginKeeps, FilterKeeps,
     StoreKeeps, FinishKeeps, FailKeeps, MarkFailedKeeps, CrashKeeps, BeginClearKeeps,
     EndClearKeeps, BeginExcludeKeeps, StoreExcludedKeeps, CommitExcludedKeeps,
     AbortRequestKeeps DEF Next, Rebuild, Ask, Respond
<1> QED BY <1>1, <1>2

\* A state that is clean has the profile of everything that was committed, and
\* nothing that was cleared or excluded is in it, however changes, marks,
\* rebuilds and requests interleave.
THEOREM ProfileIsKept == Spec => []ProfileInv
<1>1. Init => ProfileInv
  BY RefreshAssumption
     DEF Init, Idle, NoRequest, ProfileInv, TypeOK, RowIsHeldAtWork, OneAtATime,
         RebuildsAreCurrent, RequestsAreCurrent, CleanMeansCurrent, ForgottenStaysForgotten,
         AtWork, Due, Asking
<1> QED BY <1>1, Invariance, PTL DEF Spec

=============================================================================
