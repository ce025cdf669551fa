-------------------------- MODULE EventStream_proofs --------------------------
(***************************************************************************)
(* The browser gets the events of a run in order, none twice and none left *)
(* out, for any number of events, breaks and reconnections and whatever    *)
(* Redis does: StreamInv is inductive.                                     *)
(*                                                                         *)
(* The cursor of the generator is always what the browser has plus what is *)
(* on the wire.  Each way of sending adds the event after the cursor, or   *)
(* all rows after it, and moves the cursor as far; a new connection begins *)
(* with the number of the last event the browser has.                      *)
(***************************************************************************)
EXTENDS EventStream, TLAPS

-----------------------------------------------------------------------------
(* Sequences *)

LEMMA AppendProperties ==
    ASSUME NEW S, NEW s \in Seq(S), NEW e \in S
    PROVE  /\ Append(s, e) \in Seq(S)
           /\ Len(Append(s, e)) = Len(s) + 1
           /\ \A i \in 1..Len(s) : Append(s, e)[i] = s[i]
           /\ Append(s, e)[Len(s) + 1] = e
OBVIOUS

LEMMA HeadTailProperties ==
    ASSUME NEW S, NEW s \in Seq(S), s # <<>>
    PROVE  /\ Head(s) = s[1] /\ Head(s) \in S
           /\ Tail(s) \in Seq(S)
           /\ Len(s) >= 1 /\ Len(Tail(s)) = Len(s) - 1
           /\ \A i \in 1..Len(Tail(s)) : Tail(s)[i] = s[i + 1]
OBVIOUS

LEMMA ConcatProperties ==
    ASSUME NEW S, NEW s \in Seq(S), NEW t \in Seq(S)
    PROVE  /\ s \o t \in Seq(S)
           /\ Len(s \o t) = Len(s) + Len(t)
           /\ \A i \in 1..Len(s) : (s \o t)[i] = s[i]
           /\ \A i \in 1..Len(t) : (s \o t)[Len(s) + i] = t[i]
OBVIOUS

\* The rows after the cursor, in order.
LEMMA MissingIsTheRest ==
    ASSUME TypeOK, cursor <= Len(log)
    PROVE  /\ Missing \in Seq(Number)
           /\ Len(Missing) = Len(log) - cursor
           /\ \A i \in 1..Len(Missing) : Missing[i] = cursor + i
<1>1. Len(log) \in Nat /\ Len(log) - cursor \in Nat /\ MaxEvents \in Nat
  BY EventStreamAssumption DEF TypeOK, Number
<1>2. \A i \in 1..(Len(log) - cursor) : cursor + i \in Number
  BY <1>1 DEF TypeOK, Number
<1> QED BY <1>1, <1>2 DEF Missing

-----------------------------------------------------------------------------
LEMMA Initially == Init => StreamInv
<1> SUFFICES ASSUME Init PROVE StreamInv
  OBVIOUS
<1> USE EventStreamAssumption DEF Init
<1>1. \A S : <<>> \in Seq(S)
  OBVIOUS
<1>2. Len(log) = 0 /\ Len(stream) = 0 /\ Len(got) = 0
  OBVIOUS
<1>3. log \in Seq(Type) /\ stream \in Seq(Number) /\ wire \in Seq(Number) /\ got \in Seq(Number)
  BY <1>1
<1>4. TypeOK
  <2>1. Len(log) <= MaxEvents /\ trimmed \in 0..Len(stream) /\ cursor \in 0..MaxEvents
    BY <1>2
  <2>2. position \in 0..Len(stream) \union {NoStream} /\ unpublished \subseteq Number
    OBVIOUS
  <2>3. attempts \in 0..MaxReconnects /\ breaks \in 0..MaxBreaks /\ follows \in 0..MaxFollows
    OBVIOUS
  <2> QED BY <1>3, <2>1, <2>2, <2>3 DEF TypeOK, Status
<1>5. WireFollowsBrowser /\ OnlyCommitted /\ NoGapNoDuplicate
  BY <1>2 DEF WireFollowsBrowser, OnlyCommitted, NoGapNoDuplicate
<1>6. RestIsExplained /\ ClosedAfterTheLastWord
  BY DEF RestIsExplained, ClosedAfterTheLastWord
<1> QED BY <1>4, <1>5, <1>6 DEF StreamInv

\* A new event is one more committed row; what was said stays said.
LEMMA AppendKeeps ==
    ASSUME StreamInv, NEW type \in Type, AppendEvent(type),
           UNCHANGED <<serverVars, clientVars, breaks>>,
           status' \in Status,
           status' = "finished" => status = "finished" \/ type = "end",
           status' \in {"waiting", "resuming"} => status = status'
    PROVE  StreamInv'
<1> USE EventStreamAssumption
<1> DEFINE n == Len(log)
<1>1. /\ log' \in Seq(Type) /\ n \in Nat /\ Len(log') = n + 1
      /\ \A i \in 1..n : log'[i] = log[i]
      /\ log'[n + 1] = type
      /\ n < MaxEvents
  BY DEF StreamInv, TypeOK, AppendEvent
<1>2. TypeOK'
  <2>1. /\ UNCHANGED <<stream, trimmed, conn, cursor, position, seen, wire, client, got,
                       terminal, attempts, follows, breaks>>
        /\ unpublished' = unpublished \union {n + 1}
    BY DEF AppendEvent, serverVars, clientVars
  <2>2. unpublished' \subseteq Number
    <3>1. unpublished \subseteq Number
      BY DEF StreamInv, TypeOK
    <3>2. n + 1 \in Number
      BY <1>1 DEF Number
    <3> QED BY <2>1, <3>1, <3>2
  <2> QED BY <1>1, <2>1, <2>2 DEF StreamInv, TypeOK
<1>3. WireFollowsBrowser' /\ NoGapNoDuplicate'
  BY DEF StreamInv, WireFollowsBrowser, NoGapNoDuplicate, serverVars, clientVars
<1>4. OnlyCommitted'
  <2>1. /\ UNCHANGED <<stream, cursor, got>>
        /\ unpublished' = unpublished \union {n + 1}
    BY DEF AppendEvent, serverVars, clientVars
  <2>2. cursor \in Nat /\ Len(got) \in Nat
    BY EventStreamAssumption DEF StreamInv, TypeOK
  <2>3. unpublished' \subseteq 1..(n + 1)
    <3>1. unpublished \subseteq 1..n
      BY DEF StreamInv, OnlyCommitted
    <3>2. 1..n \subseteq 1..(n + 1) /\ n + 1 \in 1..(n + 1)
      BY <1>1
    <3> QED BY <2>1, <3>1, <3>2
  <2> QED BY <1>1, <2>1, <2>2, <2>3 DEF StreamInv, OnlyCommitted
<1>5. \A t \in Type : Said(t) => Said(t)'
  BY <1>1 DEF Said
<1>6. Said(type)'
  BY <1>1 DEF Said
<1>7. RestIsExplained'
  BY <1>5, <1>6 DEF StreamInv, RestIsExplained, Type, serverVars
<1>8. ClosedAfterTheLastWord'
  <2>1. UNCHANGED <<conn, cursor, seen>>
    BY DEF serverVars
  <2>2. \A i \in 1..cursor : i \in 1..n
    BY <1>1, EventStreamAssumption DEF StreamInv, TypeOK, OnlyCommitted
  <2>3. \A i \in 1..cursor : log'[i] = log[i]
    BY <1>1, <2>2
  <2> QED BY <2>1, <2>3 DEF StreamInv, ClosedAfterTheLastWord
<1> QED BY <1>2, <1>3, <1>4, <1>7, <1>8 DEF StreamInv

LEMMA RunKeeps ==
    ASSUME StreamInv, RunStep
    PROVE  StreamInv'
<1>1. CASE Progress
  BY <1>1, AppendKeeps DEF Progress, Type, Status
<1>2. CASE AskApproval
  BY <1>2, AppendKeeps DEF AskApproval, Type, Status
<1>3. CASE Resume
  BY <1>3, AppendKeeps DEF Resume, Type, Status
<1>4. CASE End
  BY <1>4, AppendKeeps DEF End, Type, Status
<1>5. CASE WaitForApproval \/ ReserveResume \/ ReleaseResume
  <2> USE <1>5 DEF WaitForApproval, ReserveResume, ReleaseResume, serverVars, clientVars
  <2>1. TypeOK'
    BY DEF StreamInv, TypeOK, Status
  <2>2. WireFollowsBrowser' /\ NoGapNoDuplicate'
    BY DEF StreamInv, WireFollowsBrowser, NoGapNoDuplicate
  <2>3. OnlyCommitted'
    BY DEF StreamInv, OnlyCommitted
  <2>4. ASSUME WaitForApproval PROVE Said("approval")
    BY <2>4 DEF StreamInv, TypeOK, AskedForApproval, Said
  <2>5. RestIsExplained' /\ ClosedAfterTheLastWord'
    BY <2>4 DEF StreamInv, RestIsExplained, Said, ClosedAfterTheLastWord
  <2> QED BY <2>1, <2>5, <2>2, <2>3 DEF StreamInv
<1> QED BY <1>1, <1>2, <1>3, <1>4, <1>5 DEF RunStep

\* Redis takes up committed events, and forgets.
LEMMA RedisKeeps ==
    ASSUME StreamInv, RedisStep
    PROVE  StreamInv'
<1> USE EventStreamAssumption DEF serverVars, clientVars
<1>1. WireFollowsBrowser' /\ RestIsExplained' /\ NoGapNoDuplicate' /\ ClosedAfterTheLastWord'
  BY DEF RedisStep, Trim, Publish, PublishFails, StreamInv, WireFollowsBrowser,
         RestIsExplained, Said, NoGapNoDuplicate, ClosedAfterTheLastWord
<1>2. CASE Trim
  BY <1>1, <1>2 DEF Trim, StreamInv, TypeOK, OnlyCommitted
<1>3. ASSUME NEW n \in Number, Publish(n) PROVE StreamInv'
  <2>1. /\ stream' \in Seq(Number) /\ Len(stream') = Len(stream) + 1
        /\ \A i \in 1..Len(stream) : stream'[i] = stream[i]
        /\ stream'[Len(stream) + 1] = n
        /\ Len(stream) \in Nat
    BY <1>3 DEF Publish, StreamInv, TypeOK
  <2>2. TypeOK'
    BY <1>3, <2>1 DEF Publish, StreamInv, TypeOK
  <2>3. OnlyCommitted'
    BY <1>3, <2>1 DEF Publish, StreamInv, OnlyCommitted
  <2> QED BY <1>1, <2>2, <2>3 DEF StreamInv
<1>4. ASSUME NEW n \in Number, PublishFails(n) PROVE StreamInv'
  BY <1>1, <1>4 DEF PublishFails, StreamInv, TypeOK, OnlyCommitted
<1> QED BY <1>2, <1>3, <1>4 DEF RedisStep

\* Sending all rows after the cursor, over whichever connection there is.
LEMMA SendMissingKeeps ==
    ASSUME StreamInv, conn # "none", SendMissing, UNCHANGED <<rowVars, clientVars>>
    PROVE  /\ wire' \in Seq(Number) /\ cursor' \in 0..MaxEvents
           /\ conn' # "none" => WireFollowsBrowser'
           /\ OnlyCommitted' /\ NoGapNoDuplicate'
<1> USE EventStreamAssumption DEF rowVars, clientVars
<1>1. /\ TypeOK /\ WireFollowsBrowser /\ OnlyCommitted /\ NoGapNoDuplicate
      /\ client = "open" /\ cursor <= Len(log)
  BY DEF StreamInv, WireFollowsBrowser, OnlyCommitted
<1>2. /\ Missing \in Seq(Number) /\ Len(Missing) = Len(log) - cursor
      /\ \A i \in 1..Len(Missing) : Missing[i] = cursor + i
  BY <1>1, MissingIsTheRest
<1>3. /\ wire' \in Seq(Number)
      /\ Len(wire') = Len(wire) + Len(Missing)
      /\ \A i \in 1..Len(wire) : wire'[i] = wire[i]
      /\ \A i \in 1..Len(Missing) : wire'[Len(wire) + i] = Missing[i]
  <2>1. wire \in Seq(Number)
    BY <1>1 DEF TypeOK
  <2>2. wire' = wire \o Missing
    BY DEF SendMissing
  <2>3. /\ wire \o Missing \in Seq(Number)
        /\ Len(wire \o Missing) = Len(wire) + Len(Missing)
        /\ \A i \in 1..Len(wire) : (wire \o Missing)[i] = wire[i]
        /\ \A i \in 1..Len(Missing) : (wire \o Missing)[Len(wire) + i] = Missing[i]
    BY <1>2, <2>1, ConcatProperties
  <2> QED BY <2>2, <2>3
<1>4. /\ Len(wire) \in Nat /\ Len(got) \in Nat /\ Len(log) \in Nat /\ Len(Missing) \in Nat
      /\ cursor \in Nat
      /\ cursor = Len(got) + Len(wire) /\ cursor' = Len(log)
  BY <1>1, <1>2 DEF TypeOK, WireFollowsBrowser, SendMissing
<1>5. \A i \in 1..Len(wire') : wire'[i] = Len(got) + i
  <2> TAKE i \in 1..Len(wire')
  <2>1. CASE i <= Len(wire)
    <3>1. i \in 1..Len(wire)
      BY <1>3, <1>4, <2>1
    <3>2. wire[i] = Len(got) + i
      BY <1>1, <3>1 DEF WireFollowsBrowser
    <3> QED BY <1>3, <3>1, <3>2
  <2>2. CASE i > Len(wire)
    <3>1. i - Len(wire) \in 1..Len(Missing) /\ i = Len(wire) + (i - Len(wire))
      BY <1>3, <1>4, <2>2
    <3>2. wire'[i] = Missing[i - Len(wire)]
      BY <1>3, <3>1
    <3>3. Missing[i - Len(wire)] = cursor + (i - Len(wire))
      BY <1>2, <3>1
    <3> QED BY <1>4, <3>2, <3>3
  <2> QED BY <1>3, <1>4, <2>1, <2>2
<1>6. conn' # "none" => WireFollowsBrowser'
  BY <1>1, <1>2, <1>3, <1>4, <1>5 DEF WireFollowsBrowser
<1>7. cursor' \in 0..MaxEvents /\ OnlyCommitted' /\ NoGapNoDuplicate'
  BY <1>1, <1>4 DEF TypeOK, OnlyCommitted, NoGapNoDuplicate
<1> QED BY <1>3, <1>6, <1>7

\* A connection only exists while the browser reads it.
LEMMA ConnectedIsOpen ==
    ASSUME StreamInv, conn # "none"
    PROVE  client = "open"
BY DEF StreamInv, WireFollowsBrowser

LEMMA ServerKeeps ==
    ASSUME StreamInv, Baseline \/ PollRun \/ PollEvents \/ LeaveRedis \/ TakeEntry
    PROVE  StreamInv'
<1> USE EventStreamAssumption DEF rowVars, clientVars
<1>1. client = "open" /\ conn # "none"
  BY ConnectedIsOpen DEF Baseline, PollRun, PollEvents, LeaveRedis, TakeEntry
<1>2. CASE Baseline \/ PollRun \/ LeaveRedis
  <2> USE <1>2 DEF Baseline, PollRun, LeaveRedis, StreamInv
  <2>1. TypeOK'
    <3>1. TypeOK /\ UNCHANGED <<cursor, wire, rowVars, clientVars, breaks>>
      OBVIOUS
    <3>2. Len(stream) \in Nat
      BY <3>1 DEF TypeOK
    <3>3. position' \in 0..Len(stream) \union {NoStream}
      BY <3>1, <3>2 DEF TypeOK
    <3>4. conn' \in {"run", "events"} /\ seen' \in Status
      BY <3>1 DEF TypeOK
    <3> HIDE <1>2 DEF Baseline, PollRun, LeaveRedis, StreamInv
    <3> QED BY <3>1, <3>3, <3>4 DEF TypeOK
  <2>2. UNCHANGED <<log, stream, unpublished, cursor, got, wire, client>>
    OBVIOUS
  <2>3. WireFollowsBrowser' /\ OnlyCommitted' /\ NoGapNoDuplicate'
    <3>1. WireFollowsBrowser /\ OnlyCommitted /\ NoGapNoDuplicate /\ conn' # "none"
      BY <1>1
    <3>2. WireFollowsBrowser'
      BY <1>1, <2>2, <3>1 DEF WireFollowsBrowser
    <3> QED BY <2>2, <3>1, <3>2 DEF OnlyCommitted, NoGapNoDuplicate
  <2>4. RestIsExplained' /\ ClosedAfterTheLastWord'
    BY DEF RestIsExplained, Said, ClosedAfterTheLastWord
  <2> QED BY <2>1, <2>3, <2>4
<1>3. CASE PollEvents
  <2>1. SendMissing /\ UNCHANGED <<rowVars, clientVars, position, seen, breaks>>
        /\ conn' \in {"closed", "run", "redis"}
        /\ (conn' = "closed" => ClosesOn(seen))
    BY <1>3 DEF PollEvents
  <2>2. /\ wire' \in Seq(Number) /\ cursor' \in 0..MaxEvents
        /\ WireFollowsBrowser' /\ OnlyCommitted' /\ NoGapNoDuplicate'
    BY <1>1, <2>1, SendMissingKeeps
  <2>3. TypeOK'
    BY <2>1, <2>2 DEF StreamInv, TypeOK
  <2>4. RestIsExplained'
    BY <2>1 DEF StreamInv, RestIsExplained, Said
  <2>5. ClosedAfterTheLastWord'
    BY <2>1 DEF StreamInv, RestIsExplained, Said, ClosedAfterTheLastWord, ClosesOn, SendMissing
  <2> QED BY <2>2, <2>3, <2>4, <2>5 DEF StreamInv
<1>4. CASE TakeEntry
  <2>1. PICK i \in Readable :
          /\ position' = i
          /\ \/ stream[i] <= cursor /\ UNCHANGED <<wire, cursor>>
             \/ stream[i] = cursor + 1 /\ wire' = Append(wire, stream[i])
                                       /\ cursor' = stream[i]
             \/ stream[i] > cursor + 1 /\ SendMissing
    BY <1>4 DEF TakeEntry
  <2>2. UNCHANGED <<conn, seen, rowVars, clientVars, breaks>> /\ conn = "redis"
    BY <1>4 DEF TakeEntry
  <2>3. i \in 1..Len(stream) /\ stream[i] \in 1..Len(log) /\ stream[i] \in Number
    BY DEF Readable, StreamInv, TypeOK, OnlyCommitted
  <2>4. /\ wire' \in Seq(Number) /\ cursor' \in 0..MaxEvents
        /\ WireFollowsBrowser' /\ OnlyCommitted' /\ NoGapNoDuplicate'
    <3>1. CASE stream[i] <= cursor /\ UNCHANGED <<wire, cursor>>
      BY <2>2, <3>1
         DEF StreamInv, TypeOK, WireFollowsBrowser, OnlyCommitted, NoGapNoDuplicate
    <3>2. CASE stream[i] = cursor + 1 /\ wire' = Append(wire, stream[i]) /\ cursor' = stream[i]
      <4>1. /\ wire' \in Seq(Number) /\ Len(wire) \in Nat /\ Len(got) \in Nat
            /\ Len(wire') = Len(wire) + 1
            /\ \A j \in 1..Len(wire) : wire'[j] = wire[j]
            /\ wire'[Len(wire) + 1] = cursor + 1
        BY <2>3, <3>2, AppendProperties DEF StreamInv, TypeOK
      <4>2. WireFollowsBrowser'
        <5>1. client' = "open" /\ conn' # "none" /\ got' = got
          BY <1>1, <2>2
        <5>2. /\ cursor = Len(got) + Len(wire)
              /\ \A j \in 1..Len(wire) : wire[j] = Len(got) + j
          BY <1>1 DEF StreamInv, WireFollowsBrowser
        <5>3. cursor' = Len(got) + Len(wire')
          BY <3>2, <4>1, <5>2
        <5>4. ASSUME NEW j \in 1..Len(wire') PROVE wire'[j] = Len(got) + j
          <6>1. CASE j = Len(wire) + 1
            BY <4>1, <5>2, <6>1
          <6>2. CASE j \in 1..Len(wire)
            BY <4>1, <5>2, <6>2
          <6> QED BY <4>1, <6>1, <6>2
        <5> QED BY <5>1, <5>3, <5>4 DEF WireFollowsBrowser
      <4>3. cursor' \in 0..MaxEvents /\ OnlyCommitted' /\ NoGapNoDuplicate'
        BY <2>2, <2>3, <3>2 DEF StreamInv, TypeOK, OnlyCommitted, NoGapNoDuplicate, Number
      <4> QED BY <4>1, <4>2, <4>3
    <3>3. CASE SendMissing
      BY <1>1, <2>2, <3>3, SendMissingKeeps
    <3> QED BY <2>1, <3>1, <3>2, <3>3
  <2>5. TypeOK'
    BY <2>1, <2>2, <2>3, <2>4 DEF StreamInv, TypeOK
  <2>6. RestIsExplained' /\ ClosedAfterTheLastWord'
    BY <2>2 DEF StreamInv, RestIsExplained, Said, ClosedAfterTheLastWord
  <2> QED BY <2>4, <2>5, <2>6 DEF StreamInv
<1> QED BY <1>2, <1>3, <1>4

\* The browser: it opens a connection with the number of its last event, takes
\* the next one off the wire, or is left without a connection.
LEMMA ClientKeeps ==
    ASSUME StreamInv, ClientStep \/ Follow \/ Break
    PROVE  StreamInv'
<1> USE EventStreamAssumption DEF rowVars
<1>1. CASE Follow
  <2> USE <1>1 DEF Follow, StreamInv, serverVars
  <2>1. TypeOK'
    <3>1. got' \in Seq(Number)
      <4>1. <<>> \in Seq(Number)
        OBVIOUS
      <4>2. got \in Seq(Number) /\ (got' = got \/ got' = <<>>)
        BY DEF TypeOK
      <4> QED BY <4>1, <4>2
    <3>2. follows' \in 0..MaxFollows /\ attempts' \in 0..MaxReconnects
      BY DEF TypeOK
    <3> QED BY <3>1, <3>2 DEF TypeOK
  <2>2. WireFollowsBrowser' /\ OnlyCommitted' /\ NoGapNoDuplicate'
    BY DEF TypeOK, WireFollowsBrowser, OnlyCommitted, NoGapNoDuplicate
  <2>3. RestIsExplained' /\ ClosedAfterTheLastWord'
    BY DEF RestIsExplained, Said, ClosedAfterTheLastWord
  <2> QED BY <2>1, <2>2, <2>3
<1>2. CASE Connect
  <2> USE <1>2 DEF Connect, StreamInv
  <2>1. LastGot = Len(got) /\ Len(got) \in 0..Len(log) /\ wire = <<>>
    BY DEF TypeOK, LastGot, NoGapNoDuplicate, OnlyCommitted, WireFollowsBrowser
  <2>2. TypeOK'
    BY <2>1 DEF TypeOK
  <2>3. WireFollowsBrowser' /\ OnlyCommitted' /\ NoGapNoDuplicate'
    BY <2>1 DEF TypeOK, WireFollowsBrowser, OnlyCommitted, NoGapNoDuplicate
  <2>4. RestIsExplained' /\ ClosedAfterTheLastWord'
    BY DEF RestIsExplained, Said, ClosedAfterTheLastWord
  <2> QED BY <2>2, <2>3, <2>4
<1>3. CASE Receive
  <2>1. /\ client = "open" /\ client' = "open" /\ wire # <<>>
        /\ got' = Append(got, Head(wire)) /\ wire' = Tail(wire)
        /\ UNCHANGED <<attempts, follows, conn, cursor, position, seen, rowVars, breaks>>
    BY <1>3 DEF Receive
  <2>2. /\ Head(wire) = wire[1] /\ Head(wire) \in Number
        /\ wire' \in Seq(Number)
        /\ Len(wire) \in Nat /\ Len(wire) >= 1 /\ Len(wire') = Len(wire) - 1
        /\ \A i \in 1..Len(wire') : wire'[i] = wire[i + 1]
    BY <2>1, HeadTailProperties DEF StreamInv, TypeOK
  <2>3. wire[1] = Len(got) + 1 /\ Len(got) \in Nat
    BY <2>1, <2>2 DEF StreamInv, TypeOK, WireFollowsBrowser
  <2>4. /\ got' \in Seq(Number) /\ Len(got') = Len(got) + 1
        /\ \A i \in 1..Len(got) : got'[i] = got[i]
        /\ got'[Len(got) + 1] = Len(got) + 1
    BY <2>1, <2>2, <2>3, AppendProperties DEF StreamInv, TypeOK
  <2>5. terminal' \in BOOLEAN
    BY <1>3 DEF Receive, StreamInv, TypeOK
  <2>6. TypeOK'
    BY <2>1, <2>2, <2>4, <2>5 DEF StreamInv, TypeOK
  <2>7. WireFollowsBrowser'
    BY <2>1, <2>2, <2>3, <2>4 DEF StreamInv, TypeOK, WireFollowsBrowser
  <2>8. NoGapNoDuplicate'
    BY <2>3, <2>4 DEF StreamInv, NoGapNoDuplicate
  <2>9. OnlyCommitted'
    BY <2>1, <2>2, <2>3, <2>4 DEF StreamInv, TypeOK, WireFollowsBrowser, OnlyCommitted
  <2>10. RestIsExplained' /\ ClosedAfterTheLastWord'
    BY <2>1 DEF StreamInv, RestIsExplained, Said, ClosedAfterTheLastWord
  <2> QED BY <2>6, <2>7, <2>8, <2>9, <2>10 DEF StreamInv
<1>4. ASSUME NEW error \in BOOLEAN, client = "open", ConnectionOver(error),
             breaks' \in 0..MaxBreaks
      PROVE  StreamInv'
  <2> USE <1>4 DEF ConnectionOver, StreamInv
  <2>1. TypeOK'
    <3>1. <<>> \in Seq(Number)
      OBVIOUS
    <3>2. /\ client' \in {"failed", "returned", "connecting"}
          /\ attempts' \in 0..MaxReconnects
      BY DEF TypeOK
    <3>3. position' \in 0..Len(stream') \union {NoStream} /\ cursor' \in 0..MaxEvents
      OBVIOUS
    <3>4. UNCHANGED <<status, log, unpublished, stream, trimmed, got, follows>>
      OBVIOUS
    <3>5. terminal' \in BOOLEAN /\ conn' = "none" /\ seen' = "running" /\ wire' = <<>>
      OBVIOUS
    <3> QED BY <1>4, <3>1, <3>2, <3>3, <3>4, <3>5 DEF TypeOK, Status
  <2>2. WireFollowsBrowser' /\ OnlyCommitted' /\ NoGapNoDuplicate'
    BY DEF TypeOK, WireFollowsBrowser, OnlyCommitted, NoGapNoDuplicate
  <2>3. RestIsExplained' /\ ClosedAfterTheLastWord'
    BY DEF RestIsExplained, Said, ClosedAfterTheLastWord
  <2> QED BY <2>1, <2>2, <2>3
<1>5. CASE ServerClosed
  BY <1>4, <1>5 DEF ServerClosed, StreamInv, TypeOK
<1>6. CASE Break
  BY <1>4, <1>6 DEF Break, StreamInv, TypeOK
<1> QED BY <1>1, <1>2, <1>3, <1>5, <1>6 DEF ClientStep

LEMMA Inductive == StreamInv /\ [Next]_vars => StreamInv'
<1>1. StreamInv /\ UNCHANGED vars => StreamInv'
  BY DEF vars, rowVars, serverVars, clientVars, StreamInv, TypeOK, WireFollowsBrowser,
         OnlyCommitted, RestIsExplained, Said, NoGapNoDuplicate, ClosedAfterTheLastWord
<1> QED BY <1>1, RunKeeps, RedisKeeps, ServerKeeps, ClientKeeps DEF Next, ServerStep

\* Everything the stream of a run keeps to, the last word before it is closed
\* included.
THEOREM StreamIsSound == Spec => []StreamInv
BY Initially, Inductive, PTL DEF Spec

\* No gap and no duplicate: late, lost, reordered and trimmed Redis entries,
\* the fallback to the rows and reconnections do not show in the browser.
THEOREM EventsInOrder == Spec => []NoGapNoDuplicate
<1>1. StreamInv => NoGapNoDuplicate
  BY DEF StreamInv
<1> QED BY <1>1, StreamIsSound, PTL
=============================================================================
