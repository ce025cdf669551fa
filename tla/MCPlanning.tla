----------------------------- MODULE MCPlanning -----------------------------
EXTENDS Planning

CONSTANTS t1, t2

\* Two days of six units, four of them hours of work.
Durations == t1 :> 2 @@ t2 :> 3
DueTimes == t1 :> 10 @@ t2 :> NoTime
BuffersBefore == t1 :> 0 @@ t2 :> 0
BuffersAfter == t1 :> 1 @@ t2 :> 0
Chunks == t1 :> 2 @@ t2 :> 1
Ranks == "priority_deadline" :> (t1 :> 1 @@ t2 :> 2) @@
         "longest_first" :> (t1 :> 2 @@ t2 :> 1)

Plain == [t \in Task |-> NoDecision]
Decisions == {[Plain EXCEPT ![t2].preds = {t1}],
              [Plain EXCEPT ![t1].preds = {t2}, ![t1].gap = 1, ![t2].preferred = 3],
              [Plain EXCEPT ![t1].exact = 2],
              [Plain EXCEPT ![t1].preds = {t2}, ![t2].preds = {t1}]}  \* refused: a cycle
Ranges == {Span(1, 12)}
Opens == [t \in Task |-> NoSpan]
Spans == {Span(2, 4), Span(7, 10), Span(8, 9)}
=============================================================================
