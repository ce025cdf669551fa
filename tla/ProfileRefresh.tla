--------------------------- MODULE ProfileRefresh ---------------------------
(***************************************************************************)
(* How a user's time memory profile follows the schedule (time_memory).    *)
(* Every change marks the user's TimeMemoryRefreshState dirty and asks     *)
(* Celery for a rebuild; a rebuild holds that row for its whole            *)
(* transaction, but writes the profile to the LangGraph store, which       *)
(* commits on its own; the user clears the profile or excludes entries of  *)
(* it without that row; once a day everything is rebuilt.                  *)
(*                                                                         *)
(* A profile is the set of the places it lists: Place stands for common    *)
(* places and stable patterns alike.  What the analyzer computes from the  *)
(* rest of the history, and from the previous profile, is left out.        *)
(***************************************************************************)
EXTENDS Naturals, FiniteSets

CONSTANTS
    Place,
    Worker,
    Client,             \* where the user's requests come from
    NoOne,
    MaxWrites,          \* bound: what the user does
    MaxMishaps,         \* bound: what goes wrong
    MaxMessages         \* bound: further copies of the message change nothing

ASSUME RefreshAssumption ==
    /\ NoOne \notin Worker
    /\ MaxWrites \in Nat /\ MaxMishaps \in Nat /\ MaxMessages \in Nat \ {0}

VARIABLES
    facts,              \* the places in the user's history
    forgotten,          \* those of them before TimeMemoryRefreshState.reset_at
    excluded,           \* TimeMemoryExclusion rows
    generation,         \* time_memory_enabled and time_memory_allow_generation
    status,             \* of TimeMemoryRefreshState, as others read it
    row,                \* who holds that row
    messages,           \* rebuild messages on their way
    profile,            \* the profile in the store; {} when there is none
    job,                \* what each worker is doing
    request,            \* what each of the user's requests on the profile is doing
    writes, mishaps,
    calm                \* history: nothing failed and nothing was overtaken

vars == <<facts, forgotten, excluded, generation, status, row, messages,
          profile, job, request, writes, mishaps, calm>>

Idle == [at |-> "rest", on |-> FALSE, made |-> {}]
NoRequest == [at |-> "rest", place |-> {}, made |-> {}]

TypeOK ==
    /\ facts \subseteq Place /\ forgotten \subseteq Place /\ excluded \subseteq Place
    /\ generation \in BOOLEAN
    /\ status \in {"clean", "dirty", "failed"}
    /\ row \in Worker \union {NoOne}
    /\ messages \in 0..MaxMessages
    /\ profile \subseteq Place
    /\ job \in [Worker -> [at : {"rest", "loaded", "filtered", "stored", "failing"},
                           on : BOOLEAN, made : SUBSET Place]]
    /\ request \in [Client -> [at : {"rest", "clear", "exclude", "excluded"},
                               place : SUBSET Place, made : SUBSET Place]]
    /\ writes \in 0..MaxWrites /\ mishaps \in 0..MaxMishaps
    /\ calm \in BOOLEAN

Init ==
    /\ facts = {} /\ forgotten = {} /\ excluded = {}
    /\ generation = TRUE
    /\ status = "clean" /\ row = NoOne
    /\ messages = 0
    /\ profile = {}
    /\ job = [w \in Worker |-> Idle]
    /\ request = [c \in Client |-> NoRequest]
    /\ writes = 0 /\ mishaps = 0
    /\ calm = TRUE

Write == writes < MaxWrites /\ writes' = writes + 1
Mishap == mishaps < MaxMishaps /\ mishaps' = mishaps + 1

\* The requests that are under way.
Asking == {c \in Client : request[c].at # "rest"}
Clearing == {c \in Client : request[c].at = "clear"}

-----------------------------------------------------------------------------
(* Marking the state dirty *)

\* on_commit: the message, unless the broker refuses it, which is logged.
Enqueue ==
    \/ /\ messages' = IF messages < MaxMessages THEN messages + 1 ELSE messages
       /\ UNCHANGED mishaps
       /\ calm' = (calm /\ Clearing = {})
    \/ /\ Mishap
       /\ UNCHANGED messages
       /\ calm' = FALSE

\* Marking without the row, in the middle of a rebuild.
MarkUnlocked ==
    /\ status' = "dirty"
    /\ IF status # "dirty"
       THEN Enqueue
       ELSE UNCHANGED <<messages, mishaps>> /\ calm' = (calm /\ Clearing = {})

\* _mark_dirty_and_enqueue, in the transaction of the change: a dirty row has
\* a message on its way already.
Mark ==
    /\ row = NoOne
    /\ status' = "dirty"
    /\ IF status # "dirty"
       THEN Enqueue
       ELSE UNCHANGED <<messages, mishaps>> /\ calm' = (calm /\ Clearing = {})

\* A change of the schedule that brings a place into the history, or takes
\* it out of it.
Change(p) ==
    /\ Write /\ Mark
    /\ facts' = IF p \in facts THEN facts \ {p} ELSE facts \union {p}
    /\ forgotten' = forgotten \ {p}
    /\ UNCHANGED <<excluded, generation, row, profile, job, request>>

\* A preference among those that mark nothing.
SetGenerationSilently(on) ==
    /\ Write
    /\ generation # on /\ generation' = on
    /\ UNCHANGED <<facts, forgotten, excluded, status, row, messages, profile, job,
                   request, mishaps, calm>>

\* UserPreferenceService.update_for_user
SetGeneration(on) ==
    /\ Write /\ Mark
    /\ generation # on /\ generation' = on
    /\ UNCHANGED <<facts, forgotten, excluded, row, profile, job, request>>

\* Asking for a rebuild of what nobody has marked.
RefreshUnmarked ==
    /\ generation /\ row = NoOne
    /\ Enqueue
    /\ UNCHANGED <<facts, forgotten, excluded, generation, status, row, profile, job,
                   request, writes>>

\* refresh_daily_time_memories, for users whose profile is generated.
RefreshDaily ==
    /\ generation /\ row = NoOne
    /\ status' = "dirty"
    /\ Enqueue
    /\ UNCHANGED <<facts, forgotten, excluded, generation, row, profile, job,
                   request, writes>>

-----------------------------------------------------------------------------
(* rebuild_time_memory and TimeMemoryUpdater.rebuild *)

Step(w, at) == job' = [job EXCEPT ![w].at = at]

\* The row, then preferences, reset_at and the history.  All who change these
\* wait for the row, so that it does not matter when they are read.
Begin(w) ==
    /\ job[w].at = "rest" /\ messages > 0 /\ row = NoOne
    /\ messages' = messages - 1
    /\ IF status # "dirty"
       THEN UNCHANGED <<row, job, calm>>
       ELSE /\ row' = w
            /\ job' = [job EXCEPT ![w] = [at |-> "loaded", on |-> generation,
                                          made |-> facts \ forgotten]]
            /\ calm' = (calm /\ Asking = {})
    /\ UNCHANGED <<facts, forgotten, excluded, generation, status, profile, request,
                   writes, mishaps>>

Filter(w) ==
    /\ job[w].at = "loaded"
    /\ job' = [job EXCEPT ![w] = [at |-> "filtered", on |-> @.on, made |-> @.made \ excluded]]
    /\ UNCHANGED <<facts, forgotten, excluded, generation, status, row, messages,
                   profile, request, writes, mishaps, calm>>

\* TimeMemoryRepository.put, or delete when nothing may be generated.
Store(w) ==
    /\ job[w].at = "filtered"
    /\ profile' = IF job[w].on THEN job[w].made ELSE {}
    /\ Step(w, "stored")
    /\ UNCHANGED <<facts, forgotten, excluded, generation, status, row, messages,
                   request, writes, mishaps, calm>>

\* The row is still as it was when the rebuild began: nobody marked it since.
Finish(w) ==
    /\ job[w].at = "stored"
    /\ status' = "clean" /\ row' = NoOne
    /\ job' = [job EXCEPT ![w] = Idle]
    /\ UNCHANGED <<facts, forgotten, excluded, generation, messages, profile, request,
                   writes, mishaps, calm>>

\* An exception: the transaction is rolled back and with it the row, and
\* mark_failed comes later, whatever has marked the row in between.
Fail(w) ==
    /\ job[w].at \in {"loaded", "filtered", "stored"}
    /\ Mishap
    /\ row' = NoOne
    /\ job' = [job EXCEPT ![w] = [Idle EXCEPT !.at = "failing"]]
    /\ calm' = FALSE
    /\ UNCHANGED <<facts, forgotten, excluded, generation, status, messages, profile,
                   request, writes>>

MarkFailed(w) ==
    /\ job[w].at = "failing" /\ row = NoOne
    /\ status' = "failed"
    /\ job' = [job EXCEPT ![w] = Idle]
    /\ UNCHANGED <<facts, forgotten, excluded, generation, row, messages, profile,
                   request, writes, mishaps, calm>>

\* The worker dies; its message was acknowledged when it began.
Crash(w) ==
    /\ job[w].at # "rest"
    /\ Mishap
    /\ row' = IF row = w THEN NoOne ELSE row
    /\ job' = [job EXCEPT ![w] = Idle]
    /\ calm' = FALSE
    /\ UNCHANGED <<facts, forgotten, excluded, generation, status, messages, profile,
                   request, writes>>

-----------------------------------------------------------------------------
(* TimeMemoryManagementService *)

\* clear_profile: first the store, ...
BeginClear(c) ==
    /\ request[c] = NoRequest
    /\ Write
    /\ profile' = {}
    /\ request' = [request EXCEPT ![c] = [NoRequest EXCEPT !.at = "clear", !.made = facts]]
    /\ calm' = (calm /\ row = NoOne /\ Asking = {})
    /\ UNCHANGED <<facts, forgotten, excluded, generation, status, row, messages, job,
                   mishaps>>

\* ... then the exclusions and the row, with the time taken before it waits
\* for the row.
EndClear(c) ==
    /\ request[c].at = "clear" /\ row = NoOne
    /\ excluded' = {}
    /\ forgotten' = facts \intersect (forgotten \union request[c].made)
    /\ status' = "clean"
    /\ request' = [request EXCEPT ![c] = NoRequest]
    /\ UNCHANGED <<facts, generation, row, messages, profile, job, writes, mishaps, calm>>

\* exclude_place and exclude_pattern: the profile is read, with no lock that
\* another request would wait for, ...
BeginExclude(c, p) ==
    /\ request[c] = NoRequest
    /\ Write
    /\ p \in profile
    /\ request' = [request EXCEPT ![c] = [at |-> "exclude", place |-> {p},
                                         made |-> profile \ {p}]]
    /\ calm' = (calm /\ row = NoOne /\ Asking = {})
    /\ UNCHANGED <<facts, forgotten, excluded, generation, status, row, messages,
                   profile, job, mishaps>>

\* ... written without the place, unless another request is inserting the same
\* exclusion, ...
StoreExcluded(c) ==
    /\ request[c].at = "exclude"
    /\ \A d \in Client : request[d].at = "excluded" => request[d].place # request[c].place
    /\ profile' = request[c].made
    /\ request' = [request EXCEPT ![c].at = "excluded"]
    /\ UNCHANGED <<facts, forgotten, excluded, generation, status, row, messages, job,
                   writes, mishaps, calm>>

\* ... and only then the exclusion is committed.
CommitExcluded(c) ==
    /\ request[c].at = "excluded"
    /\ excluded' = excluded \union request[c].place
    /\ request' = [request EXCEPT ![c] = NoRequest]
    /\ UNCHANGED <<facts, forgotten, generation, status, row, messages, profile, job,
                   writes, mishaps, calm>>

\* The process that serves the request dies.
AbortRequest(c) ==
    /\ request[c].at # "rest"
    /\ Mishap
    /\ request' = [request EXCEPT ![c] = NoRequest]
    /\ calm' = FALSE
    /\ UNCHANGED <<facts, forgotten, excluded, generation, status, row, messages,
                   profile, job, writes>>

-----------------------------------------------------------------------------
Rebuild(w) == Begin(w) \/ Filter(w) \/ Store(w) \/ Finish(w) \/ MarkFailed(w)
Ask(c) == BeginClear(c) \/ (\E p \in Place : BeginExclude(c, p))
Respond(c) == EndClear(c) \/ StoreExcluded(c) \/ CommitExcluded(c)

Next ==
    \/ \E p \in Place : Change(p)
    \/ \E on \in BOOLEAN : SetGeneration(on)
    \/ RefreshDaily
    \/ \E w \in Worker : Rebuild(w) \/ Fail(w) \/ Crash(w)
    \/ \E c \in Client : Ask(c) \/ Respond(c) \/ AbortRequest(c)

Spec == Init /\ [][Next]_vars

\* Beat starts the daily refresh every day, Celery delivers the messages it
\* has, and a process that has not died goes on.  The row is free again and
\* again, and who waits for it gets it.
FairSpec ==
    /\ Spec
    /\ SF_vars(RefreshDaily)
    /\ \A w \in Worker : /\ SF_vars(Begin(w)) /\ SF_vars(MarkFailed(w))
                         /\ WF_vars(Filter(w) \/ Store(w) \/ Finish(w))
    /\ \A c \in Client : /\ SF_vars(EndClear(c))
                         /\ WF_vars(StoreExcluded(c) \/ CommitExcluded(c))

-----------------------------------------------------------------------------
(* Properties *)

\* What the profile ought to list.
Due == IF generation THEN (facts \ forgotten) \ excluded ELSE {}

\* No change is lost: a state that is clean has a profile of everything that
\* was committed, however changes, marks and rebuilds were interleaved, as
\* long as no request on the profile was overtaken by a rebuild or by another.
CleanMeansCurrent ==
    calm /\ status = "clean" /\ Asking = {} => profile = Due

\* What the user cleared or excluded never comes back while it may not, not
\* even when the profile is behind the schedule.
ForgottenStaysForgotten ==
    calm /\ Asking = {} => profile \intersect (forgotten \union excluded) = {}

\* The row is locked by the worker that is rebuilding, and by no other.
AtWork(w) == job[w].at \in {"loaded", "filtered", "stored"}
RowIsHeldAtWork == \A w \in Worker : AtWork(w) <=> row = w

\* As long as all is calm, a request is under way alone.
OneAtATime ==
    calm => /\ row # NoOne => Asking = {}
            /\ \A c, d \in Asking : c = d
            /\ \A w \in Worker : job[w].at # "failing"

\* What a rebuild has read cannot have changed since.
RebuildsAreCurrent ==
    \A w \in Worker : AtWork(w) =>
        /\ status = "dirty"
        /\ calm => /\ job[w].on = generation
                   /\ job[w].made = IF job[w].at = "loaded" THEN facts \ forgotten
                                    ELSE (facts \ forgotten) \ excluded
                   /\ job[w].at = "stored" => profile = Due

\* Nor can what a request has read.
RequestsAreCurrent ==
    calm => \A c \in Client :
        /\ request[c].at = "clear" => profile = {} /\ request[c].made = facts
        /\ request[c].at = "exclude" =>
              /\ request[c].made = profile \ request[c].place
              /\ profile \intersect (forgotten \union excluded) = {}
              /\ status = "clean" => profile = Due
        /\ request[c].at = "excluded" =>
              /\ profile \intersect (forgotten \union excluded \union request[c].place) = {}
              /\ status = "clean" => profile = Due \ request[c].place

\* A profile is what it is to be, or is marked as behind, and never says what
\* it may not, because what rebuilds and requests have read stays as they read it.
ProfileInv ==
    /\ TypeOK
    /\ RowIsHeldAtWork /\ OneAtATime
    /\ RebuildsAreCurrent /\ RequestsAreCurrent
    /\ CleanMeansCurrent /\ ForgottenStaysForgotten

\* "invalid profiles are rebuilt from business facts": whatever failed, was
\* lost or was overtaken, the daily refresh brings the profile of a user who
\* wants one back to what it ought to be.
ProfileGetsRight == <>[](generation => profile = Due)

\* A user who turns generation off is forgotten, which no daily refresh sees
\* to: this needs that nothing went wrong.
TurnedOffIsForgotten ==
    (calm /\ ~generation) ~> (profile = {} \/ generation \/ ~calm)
=============================================================================
