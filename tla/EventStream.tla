----------------------------- MODULE EventStream -----------------------------
(***************************************************************************)
(* How the events of one agent run reach a browser.                        *)
(*                                                                         *)
(* append_event numbers AgentEvent rows under a lock on the run and, after *)
(* the commit, writes a copy to a Redis stream: best effort, and two       *)
(* processes may get there in the other order.  The SSE generator polls    *)
(* the rows (first the run, then its events), and between two polls takes  *)
(* what Redis has, going back to the rows when it sees a gap.  It closes   *)
(* when the run it read is finished or waits for a decision.  The browser  *)
(* reconnects with the number of the last event it got.                    *)
(***************************************************************************)
EXTENDS Naturals, Sequences

CONSTANTS
    NoStream,           \* Redis is off, or failed this connection
    MaxEvents,          \* bound: rows of the run
    MaxReconnects,      \* maxReconnectAttempts
    MaxBreaks,          \* bound: connections that break
    MaxFollows          \* bound: how often the page follows the run

ASSUME EventStreamAssumption ==
    /\ NoStream \notin Nat
    /\ MaxEvents \in Nat /\ MaxReconnects \in Nat
    /\ MaxBreaks \in Nat /\ MaxFollows \in Nat

VARIABLES
    (* database and Redis *)
    status,             \* AgentRun.status, waiting split by execution_task_id
    log,                \* AgentEvent.event_type, by sequence number
    unpublished,        \* committed, on_commit callback still to run
    stream,             \* sequence numbers in the order Redis got them
    trimmed,            \* entries Redis no longer has (maxlen, TTL)
    (* the SSE generator *)
    conn,               \* where it is
    cursor,             \* current_cursor
    position,           \* redis_id: entries it has taken
    seen,               \* run.status of the last poll
    wire,               \* events sent and not yet read by the browser
    (* the browser *)
    client,
    got,                \* events given to onEvent since the page was loaded
    terminal,           \* a terminal event came over this connection
    attempts,           \* reconnectAttempts
    breaks, follows

rowVars == <<status, log, unpublished, stream, trimmed>>
serverVars == <<conn, cursor, position, seen, wire>>
clientVars == <<client, got, terminal, attempts, follows>>
vars == <<rowVars, serverVars, clientVars, breaks>>

Status == {"running", "waiting", "resuming", "finished"}
Type == {"progress", "approval", "end"}
Number == 1..MaxEvents

TypeOK ==
    /\ status \in Status
    /\ log \in Seq(Type) /\ Len(log) <= MaxEvents
    /\ unpublished \subseteq Number
    /\ stream \in Seq(Number)
    /\ trimmed \in 0..Len(stream)
    /\ conn \in {"none", "baseline", "run", "events", "redis", "closed"}
    /\ cursor \in 0..MaxEvents
    /\ position \in 0..Len(stream) \union {NoStream}
    /\ seen \in Status
    /\ wire \in Seq(Number)
    /\ client \in {"idle", "connecting", "open", "returned", "failed"}
    /\ got \in Seq(Number)
    /\ terminal \in BOOLEAN
    /\ attempts \in 0..MaxReconnects
    /\ breaks \in 0..MaxBreaks /\ follows \in 0..MaxFollows

Init ==
    /\ status = "running" /\ log = <<>> /\ unpublished = {}
    /\ stream = <<>> /\ trimmed = 0
    /\ conn = "none" /\ cursor = 0 /\ position = NoStream
    /\ seen = "running" /\ wire = <<>>
    /\ client = "idle" /\ got = <<>> /\ terminal = FALSE /\ attempts = 0
    /\ breaks = 0 /\ follows = 0

-----------------------------------------------------------------------------
(* The run: workers, requests and the stale sweep *)

\* append_event, in the caller's transaction.
AppendEvent(type) ==
    /\ Len(log) < MaxEvents
    /\ log' = Append(log, type)
    /\ unpublished' = unpublished \union {Len(log) + 1}
    /\ UNCHANGED <<stream, trimmed>>

AskedForApproval == log # <<>> /\ log[Len(log)] = "approval"

\* Text, tool and plan events, from the worker and the threads its tools run
\* in; the worker of a cancelled run may write a few more.
Progress ==
    /\ status \in {"running", "finished"}
    /\ ~AskedForApproval
    /\ AppendEvent("progress")
    /\ UNCHANGED <<status, serverVars, clientVars, breaks>>

\* _persist_interrupt, one event for each proposal ...
AskApproval ==
    /\ status = "running"
    /\ AppendEvent("approval")
    /\ UNCHANGED <<status, serverVars, clientVars, breaks>>

\* ... before wait_for_approval.
WaitForApproval ==
    /\ status = "running" /\ AskedForApproval
    /\ status' = "waiting"
    /\ UNCHANGED <<log, unpublished, stream, trimmed, serverVars, clientVars,
                   breaks>>

\* reserve_resume_task and release_resume_task.
ReserveResume ==
    /\ status = "waiting"
    /\ status' = "resuming"
    /\ UNCHANGED <<log, unpublished, stream, trimmed, serverVars, clientVars,
                   breaks>>

ReleaseResume ==
    /\ status = "resuming"
    /\ status' = "waiting"
    /\ UNCHANGED <<log, unpublished, stream, trimmed, serverVars, clientVars,
                   breaks>>

\* claim_for_resume: status and event in one transaction.
Resume ==
    /\ status = "resuming"
    /\ status' = "running"
    /\ AppendEvent("progress")
    /\ UNCHANGED <<serverVars, clientVars, breaks>>

\* complete, fail or cancel writing the event in a transaction of its own.
EndSilently ==
    /\ status # "finished"
    /\ status' = "finished"
    /\ UNCHANGED <<log, unpublished, stream, trimmed, serverVars, clientVars,
                   breaks>>

\* complete, fail or cancel: status and event in one transaction.
End ==
    /\ status # "finished"
    /\ status' = "finished"
    /\ AppendEvent("end")
    /\ UNCHANGED <<serverVars, clientVars, breaks>>

-----------------------------------------------------------------------------
(* Redis, external: XADD, XREVRANGE and XREAD as event_stream.py uses them *)

Publish(n) ==
    /\ n \in unpublished
    /\ unpublished' = unpublished \ {n}
    /\ stream' = Append(stream, n)
    /\ UNCHANGED <<status, log, trimmed, serverVars, clientVars, breaks>>

\* Redis is down, or the process dies after its commit.
PublishFails(n) ==
    /\ n \in unpublished
    /\ unpublished' = unpublished \ {n}
    /\ UNCHANGED <<status, log, stream, trimmed, serverVars, clientVars, breaks>>

Trim ==
    /\ trimmed < Len(stream)
    /\ trimmed' = trimmed + 1
    /\ UNCHANGED <<status, log, unpublished, stream, serverVars, clientVars,
                   breaks>>

-----------------------------------------------------------------------------
(* AgentRunEventStreamView.get and _sse *)

ClosesOn(s) == s \in {"waiting", "finished"}

\* Where Redis is, before the first poll.
Baseline ==
    /\ conn = "baseline"
    /\ position' \in {Len(stream), NoStream}
    /\ conn' = "run"
    /\ UNCHANGED <<cursor, seen, wire, rowVars, clientVars, breaks>>

\* _sse_poll reads the run ...
PollRun ==
    /\ conn = "run"
    /\ seen' = status
    /\ conn' = "events"
    /\ UNCHANGED <<cursor, position, wire, rowVars, clientVars, breaks>>

\* Everything after the cursor, in order.
Missing == [i \in 1..(Len(log) - cursor) |-> cursor + i]

SendMissing ==
    /\ wire' = wire \o Missing
    /\ cursor' = Len(log)

\* ... and then its events; the generator ends if the run it saw was at rest.
PollEvents ==
    /\ conn = "events"
    /\ SendMissing
    /\ conn' = IF ClosesOn(seen) THEN "closed"
               ELSE IF position = NoStream THEN "run" ELSE "redis"
    /\ UNCHANGED <<position, seen, rowVars, clientVars, breaks>>

Readable == {i \in 1..Len(stream) : i > position /\ i > trimmed}

\* _sse trusting the order of the Redis stream.
TakeEntryUnchecked ==
    /\ conn = "redis" /\ position # NoStream
    /\ \E i \in Readable :
          /\ \A j \in Readable : i <= j
          /\ position' = i
          /\ wire' = Append(wire, stream[i])
          /\ cursor' = stream[i]
    /\ UNCHANGED <<conn, seen, rowVars, clientVars, breaks>>

\* The next entry XREAD returned: one the browser has, the next one, or one
\* behind a gap, which is filled from the rows.
TakeEntry ==
    /\ conn = "redis" /\ position # NoStream
    /\ \E i \in Readable :
          /\ \A j \in Readable : i <= j
          /\ position' = i
          /\ \/ stream[i] <= cursor /\ UNCHANGED <<wire, cursor>>
             \/ stream[i] = cursor + 1 /\ wire' = Append(wire, stream[i])
                                       /\ cursor' = stream[i]
             \/ stream[i] > cursor + 1 /\ SendMissing
    /\ UNCHANGED <<conn, seen, rowVars, clientVars, breaks>>

\* _sse waiting for Redis alone.
LeaveRedisNever ==
    /\ conn = "redis"
    /\ position' \in {position, NoStream}
    /\ UNCHANGED <<conn, cursor, seen, wire, rowVars, clientVars, breaks>>

\* The batch is used up, the wait timed out, or Redis failed: poll again.
LeaveRedis ==
    /\ conn = "redis"
    /\ conn' = "run"
    /\ position' \in {position, NoStream}
    /\ UNCHANGED <<cursor, seen, wire, rowVars, clientVars, breaks>>

-----------------------------------------------------------------------------
(* streamAgentRun *)

LastGot == IF got = <<>> THEN 0 ELSE got[Len(got)]

\* The page follows the run: after sending a message or deciding a proposal
\* with what it has got, or from the start when it was loaded anew.
Follow ==
    /\ client \in {"idle", "returned", "failed"}
    /\ follows < MaxFollows
    /\ follows' = follows + 1
    /\ got' \in {got, <<>>}
    /\ client' = "connecting"
    /\ attempts' = 0
    /\ UNCHANGED <<terminal, rowVars, serverVars, breaks>>

Connect ==
    /\ client = "connecting"
    /\ client' = "open"
    /\ conn' = "baseline"
    /\ cursor' = LastGot
    /\ UNCHANGED <<position, seen, wire, got, terminal, attempts, follows,
                   rowVars, breaks>>

Receive ==
    /\ client = "open" /\ wire # <<>>
    /\ got' = Append(got, Head(wire))
    /\ wire' = Tail(wire)
    /\ terminal' = (terminal \/ log[Head(wire)] \in {"approval", "end"})
    /\ UNCHANGED <<client, attempts, follows, conn, cursor, position, seen,
                   rowVars, breaks>>

\* The response is over: give up, return, or reconnect.  An error of the last
\* attempt is thrown without looking at terminal.
ConnectionOver(error) ==
    LET last == attempts >= MaxReconnects IN
    /\ client' = IF last /\ (error \/ ~terminal) THEN "failed"
                 ELSE IF terminal THEN "returned" ELSE "connecting"
    /\ attempts' = IF last \/ terminal THEN attempts ELSE attempts + 1
    /\ terminal' = FALSE
    /\ conn' = "none" /\ cursor' = 0 /\ position' = NoStream
    /\ seen' = "running" /\ wire' = <<>>
    /\ UNCHANGED <<got, follows, rowVars>>

ServerClosed ==
    /\ client = "open" /\ conn = "closed" /\ wire = <<>>
    /\ ConnectionOver(FALSE)
    /\ UNCHANGED breaks

\* The network, the proxy or the web process ends the response.
Break ==
    /\ client = "open"
    /\ breaks < MaxBreaks
    /\ breaks' = breaks + 1
    /\ \E error \in BOOLEAN : ConnectionOver(error)

-----------------------------------------------------------------------------
RunStep ==
    \/ Progress \/ AskApproval \/ WaitForApproval
    \/ ReserveResume \/ ReleaseResume \/ Resume \/ End

RedisStep == Trim \/ \E n \in Number : Publish(n) \/ PublishFails(n)

ServerStep == Baseline \/ PollRun \/ PollEvents \/ LeaveRedis
ClientStep == Connect \/ Receive \/ ServerClosed

Next == RunStep \/ RedisStep \/ ServerStep \/ TakeEntry \/ ClientStep
        \/ Follow \/ Break

\* The generator goes on and the browser reads.  Redis owes nothing.
Fairness == WF_vars(ServerStep) /\ WF_vars(ClientStep)

Spec == Init /\ [][Next]_vars
FairSpec == Spec /\ Fairness

-----------------------------------------------------------------------------
(* Properties *)

\* The browser gets the events of the run in order, none twice, none left out:
\* over catch-up, Redis entries that are late, lost, out of order or trimmed,
\* the fallback to the rows and any number of reconnections.
NoGapNoDuplicate == \A i \in 1..Len(got) : got[i] = i

\* When the server ends a response of its own accord, the browser has been
\* sent what the run ended with, or what it waits for.
ClosedAfterTheLastWord ==
    conn = "closed" =>
        \E n \in 1..cursor :
            log[n] = IF seen = "finished" THEN "end" ELSE "approval"

\* What is on the wire follows what the browser has, and the cursor follows the
\* wire; without a connection there is neither.
WireFollowsBrowser ==
    IF client = "open"
    THEN /\ conn # "none"
         /\ cursor = Len(got) + Len(wire)
         /\ \A i \in 1..Len(wire) : wire[i] = Len(got) + i
    ELSE conn = "none" /\ wire = <<>> /\ cursor = 0

\* Redis, the generator and the browser have committed events only.
OnlyCommitted ==
    /\ unpublished \subseteq 1..Len(log)
    /\ \A i \in 1..Len(stream) : stream[i] \in 1..Len(log)
    /\ cursor <= Len(log) /\ Len(got) <= Len(log)

\* A run at rest, or seen at rest, has written why.
Said(type) == \E n \in 1..Len(log) : log[n] = type
RestIsExplained ==
    /\ status = "finished" \/ seen = "finished" => Said("end")
    /\ status \in {"waiting", "resuming"} \/ seen \in {"waiting", "resuming"}
          => Said("approval")

\* A response that the server ends has said its last word, and no event
\* overtakes another on the way to the browser.
StreamInv ==
    /\ TypeOK
    /\ WireFollowsBrowser
    /\ OnlyCommitted
    /\ RestIsExplained
    /\ NoGapNoDuplicate
    /\ ClosedAfterTheLastWord

\* A browser that is connected sees every event, or the response ends.
EventsArrive ==
    \A n \in Number :
        (client = "open" /\ Len(log) >= n)
            ~> ((\E i \in 1..Len(got) : got[i] = n) \/ client # "open")

\* A response that breaks off while the run goes on is followed by another:
\* streamAgentRun reconnects until the run is finished or asks for approval.
BrokenResponseIsResumed ==
    [][client = "open" /\ client' = "returned" =>
          conn = "closed" \/ status # "running" \/ AskedForApproval]_vars
=============================================================================
