---------------------------- MODULE MCReplanning ----------------------------
EXTENDS Replanning

CONSTANTS t1, t2, r1, w1, w2

\* Two days of six units, four of them hours of work.
Durations == t1 :> 2 @@ t2 :> 1
DueTimes == t1 :> NoTime @@ t2 :> 10
NoBuffers == [t \in Task |-> 0]
Chunks == [t \in Task |-> 1]
Ranks == "priority_deadline" :> (t1 :> 1 @@ t2 :> 2)
Opens == t1 :> Span(2, 4) @@ t2 :> Span(1, 2)
Spans == {Span(1, 3), Span(2, 4)}
=============================================================================
