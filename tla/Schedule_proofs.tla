--------------------------- MODULE Schedule_proofs ---------------------------
(***************************************************************************)
(* What the planner, the plans (Planning) and the repairs (Replanning) of  *)
(* one user's schedule promise, for any tasks, hours of work, increments,  *)
(* limits, orderings, ranges, plans, workers and crashes.                  *)
(*                                                                         *)
(* The planner is recursive throughout: it merges intervals, scans gaps,   *)
(* orders tasks and places them one by one.  Its recursions run over 0..N, *)
(* so that induction over them is the choice of a least counterexample     *)
(* (LeastNumber), that they have a value is RecursionExists, and that what *)
(* each step keeps holds of the result is RecursionStays.                  *)
(***************************************************************************)
EXTENDS Planning, Replanning, FiniteSetTheorems, WellFoundedInduction, TLAPS

-----------------------------------------------------------------------------
(* Recursion over numbers *)

\* Sets of numbers have a least element.
LEMMA LeastNumber ==
    ASSUME NEW T \in SUBSET Nat, T # {}
    PROVE  \E n \in T : \A m \in T : n <= m
<1>1. PICK R : R = OpToRel(<, Nat)
  OBVIOUS
<1>2. IsWellFoundedOn(R, Nat)
  BY <1>1, NatLessThanWellFounded
<1>3. \A x, y \in Nat : <<x, y>> \in R <=> x < y
  BY <1>1 DEF OpToRel
<1>4. PICK n \in T : \A y \in T : ~ (<<y, n>> \in R)
  BY <1>2, WFMin
<1>5. ASSUME NEW m \in T PROVE n <= m
  <2>1. m \in Nat /\ n \in Nat
    OBVIOUS
  <2>2. ~(m < n)
    BY <1>3, <1>4, <2>1
  <2> QED BY <2>1, <2>2
<1> QED BY <1>5

\* So whatever 0 has, and n + 1 if n has it, every number has.
LEMMA SetInduction ==
    ASSUME NEW S, 0 \in S, \A n \in Nat : n \in S => n + 1 \in S
    PROVE  Nat \subseteq S
<1> SUFFICES ASSUME Nat \ S # {} PROVE FALSE
  OBVIOUS
<1>1. PICK n \in Nat \ S : \A m \in Nat \ S : n <= m
  BY LeastNumber
<1>2. n # 0 /\ n - 1 \in Nat
  BY <1>1
<1>3. n - 1 \in S
  BY <1>1, <1>2
<1> QED BY <1>1, <1>2, <1>3

\* The same up to a bound.
LEMMA BoundedInduction ==
    ASSUME NEW N \in Nat, NEW S, 0 \in S, \A n \in 1..N : n - 1 \in S => n \in S
    PROVE  0..N \subseteq S
<1> DEFINE T == {n \in Nat : n \in S \/ n > N}
<1>1. 0 \in T
  OBVIOUS
<1>2. ASSUME NEW n \in Nat, n \in T PROVE n + 1 \in T
  <2>1. CASE n + 1 > N
    BY <2>1
  <2>2. CASE n + 1 <= N
    <3>1. n + 1 \in 1..N /\ (n + 1) - 1 = n /\ n \in S
      BY <1>2, <2>2
    <3>2. n + 1 \in S
      BY <3>1
    <3> QED BY <3>2
  <2> QED BY <2>1, <2>2
<1> HIDE DEF T
<1>3. Nat \subseteq T
  BY <1>1, <1>2, SetInduction
<1> QED BY <1>3 DEF T

\* A function defined by recursion over 0..N, with values in S, exists.
Stepwise(N, S, a, step) ==
    N \in Nat /\ a \in S /\ \A n \in 1..N, x \in S : step[<<n, x>>] \in S

Follows(f, N, S, a, step) ==
    f \in [0..N -> S] /\ f[0] = a /\ \A n \in 1..N : f[n] = step[<<n, f[n - 1]>>]

LEMMA RecursionExists ==
    ASSUME NEW N, NEW S, NEW a, NEW step, Stepwise(N, S, a, step)
    PROVE  \E f : Follows(f, N, S, a, step)
<1> USE DEF Stepwise
<1> DEFINE Upto(n, f) == f[0] = a /\ \A k \in 1..n : f[k] = step[<<k, f[k - 1]>>]
           T == {n \in 0..N : \E f \in [0..n -> S] : Upto(n, f)}
<1>1. 0 \in T
  <2> DEFINE f == [k \in 0..0 |-> a]
  <2>1. f \in [0..0 -> S] /\ f[0] = a
    OBVIOUS
  <2>2. 1..0 = {}
    OBVIOUS
  <2>3. Upto(0, f)
    BY <2>1, <2>2
  <2> HIDE DEF f
  <2> QED BY <2>1, <2>3
<1>2. ASSUME NEW n \in 1..N, n - 1 \in T PROVE n \in T
  <2>1. PICK f \in [0..(n - 1) -> S] : Upto(n - 1, f)
    BY <1>2
  <2> DEFINE g == [k \in 0..n |-> IF k = n THEN step[<<n, f[n - 1]>>] ELSE f[k]]
  <2>2. f[n - 1] \in S
    OBVIOUS
  <2>3. step[<<n, f[n - 1]>>] \in S
    BY <2>2
  <2>4. g \in [0..n -> S]
    BY <2>3
  <2>5. g[0] = a
    BY <2>1
  <2>6. ASSUME NEW k \in 1..n PROVE g[k] = step[<<k, g[k - 1]>>]
    <3>1. g[k - 1] = f[k - 1]
      <4>1. k - 1 \in 0..n /\ k - 1 # n
        OBVIOUS
      <4> QED BY <4>1
    <3>2. CASE k = n
      <4>1. g[k] = step[<<n, f[n - 1]>>]
        BY <3>2
      <4> HIDE DEF g
      <4> QED BY <3>1, <3>2, <4>1
    <3>3. CASE k # n
      <4>1. k \in 1..(n - 1)
        BY <3>3
      <4>2. g[k] = f[k]
        BY <3>3
      <4>3. f[k] = step[<<k, f[k - 1]>>]
        BY <2>1, <4>1
      <4> QED BY <3>1, <4>2, <4>3
    <3> QED BY <3>2, <3>3
  <2>7. Upto(n, g)
    BY <2>5, <2>6
  <2>8. n \in 0..N
    OBVIOUS
  <2> HIDE DEF g, Upto
  <2> QED BY <2>4, <2>7, <2>8
<1> HIDE DEF T
<1>3. 0..N \subseteq T
  BY <1>1, <1>2, BoundedInduction
<1>4. N \in T
  BY <1>3
<1>5. \E f \in [0..N -> S] : Upto(N, f)
  BY <1>4 DEF T
<1> QED BY <1>5 DEF Follows

\* What obeys the recursion as long as it stays in S stays in S.
Obeys(f, N, S, a, step) ==
    f[0] = a /\ \A n \in 1..N : f[n - 1] \in S => f[n] = step[<<n, f[n - 1]>>]

LEMMA RecursionStays ==
    ASSUME NEW N, NEW S, NEW a, NEW step, Stepwise(N, S, a, step),
           NEW f, Obeys(f, N, S, a, step)
    PROVE  \A n \in 0..N : f[n] \in S
<1> DEFINE T == {n \in 0..N : f[n] \in S}
<1>1. N \in Nat /\ a \in S
  BY DEF Stepwise
<1>2. 0 \in T
  BY <1>1 DEF Obeys
<1>3. ASSUME NEW n \in 1..N, n - 1 \in T PROVE n \in T
  <2>1. f[n] \in S
    BY <1>3 DEF Stepwise, Obeys
  <2>2. n \in 0..N
    BY <1>1
  <2> QED BY <2>1, <2>2
<1> HIDE DEF T
<1>4. 0..N \subseteq T
  BY <1>1, <1>2, <1>3, BoundedInduction
<1> QED BY <1>4 DEF T

-----------------------------------------------------------------------------
\* Min and Max of sets of numbers.
LEMMA MinOfNaturals ==
    ASSUME NEW T \in SUBSET Nat, T # {}
    PROVE  Min(T) \in T /\ \A x \in T : Min(T) <= x
<1>1. \E n \in T : \A m \in T : n <= m
  BY LeastNumber
<1> QED BY <1>1 DEF Min

\* Of two numbers.
LEMMA MinOfTwo ==
    ASSUME NEW x \in Int, NEW y \in Int
    PROVE  Min({x, y}) = IF x <= y THEN x ELSE y
<1> DEFINE m == IF x <= y THEN x ELSE y
<1>1. m \in {x, y} /\ \A z \in {x, y} : m <= z
  OBVIOUS
<1>2. \A k \in {x, y} : (\A z \in {x, y} : k <= z) => k = m
  OBVIOUS
<1> QED BY <1>1, <1>2 DEF Min

LEMMA MaxOfTwo ==
    ASSUME NEW x \in Int, NEW y \in Int
    PROVE  Max({x, y}) = IF x >= y THEN x ELSE y
<1> DEFINE m == IF x >= y THEN x ELSE y
<1>1. m \in {x, y} /\ \A z \in {x, y} : m >= z
  OBVIOUS
<1>2. \A k \in {x, y} : (\A z \in {x, y} : k >= z) => k = m
  OBVIOUS
<1> QED BY <1>1, <1>2 DEF Max

-----------------------------------------------------------------------------
(* InOrder *)

StrictOrder(S, R) ==
    /\ \A x \in S : <<x, x>> \notin R
    /\ \A x, y, z \in S : <<x, y>> \in R /\ <<y, z>> \in R => <<x, z>> \in R
    /\ \A x, y \in S : x # y => <<x, y>> \in R \/ <<y, x>> \in R

Below(S, R, x) == {y \in S : <<y, x>> \in R}

\* How many are below an element tells where it is.
LEMMA RankIsPosition ==
    ASSUME NEW S, IsFiniteSet(S), NEW R, StrictOrder(S, R)
    PROVE  /\ Cardinality(S) \in Nat
           /\ \A x \in S : Cardinality(Below(S, R, x)) \in 0..(Cardinality(S) - 1)
           /\ \A x, y \in S : <<x, y>> \in R
                  => Cardinality(Below(S, R, x)) < Cardinality(Below(S, R, y))
           /\ \A k \in 1..Cardinality(S) :
                  \E x \in S : Cardinality(Below(S, R, x)) = k - 1
<1> DEFINE rank == [x \in S |-> Cardinality(Below(S, R, x))]
           N == Cardinality(S)
<1>1. N \in Nat
  BY FS_CardinalityType
<1>2. ASSUME NEW x \in S PROVE rank[x] \in 0..(N - 1)
  <2>1. Below(S, R, x) \in SUBSET S /\ x \notin Below(S, R, x)
    BY DEF Below, StrictOrder
  <2>2. IsFiniteSet(Below(S, R, x)) /\ Cardinality(Below(S, R, x)) <= N
        /\ (N = Cardinality(Below(S, R, x)) => S = Below(S, R, x))
    BY <2>1, FS_Subset
  <2>3. Cardinality(Below(S, R, x)) \in Nat
    BY <2>2, FS_CardinalityType
  <2> QED BY <1>1, <2>1, <2>2, <2>3
<1>3. ASSUME NEW x \in S, NEW y \in S, <<x, y>> \in R PROVE rank[x] < rank[y]
  <2>1. Below(S, R, x) \in SUBSET Below(S, R, y)
    BY <1>3 DEF Below, StrictOrder
  <2>2. x \in Below(S, R, y) /\ x \notin Below(S, R, x)
    BY <1>3 DEF Below, StrictOrder
  <2>3. IsFiniteSet(Below(S, R, y))
    BY FS_Subset DEF Below
  <2>4. /\ Cardinality(Below(S, R, x)) <= Cardinality(Below(S, R, y))
        /\ Cardinality(Below(S, R, y)) = Cardinality(Below(S, R, x))
               => Below(S, R, y) = Below(S, R, x)
    BY <2>1, <2>3, FS_Subset
  <2>5. rank[x] \in Nat /\ rank[y] \in Nat
    BY <1>2
  <2> QED BY <2>2, <2>4, <2>5
<1>4. rank \in Injection(S, 0..(N - 1))
  <2>1. rank \in [S -> 0..(N - 1)]
    BY <1>2
  <2>2. ASSUME NEW x \in S, NEW y \in S, rank[x] = rank[y] PROVE x = y
    <3>1. rank[x] \in Nat /\ rank[y] \in Nat
      BY <1>2
    <3>2. ~(rank[x] < rank[y]) /\ ~(rank[y] < rank[x])
      BY <2>2, <3>1
    <3> HIDE DEF rank
    <3> QED BY <1>3, <3>2 DEF StrictOrder
  <2> HIDE DEF rank
  <2> QED BY <2>1, <2>2 DEF Injection, IsInjective
<1>5. IsFiniteSet(0..(N - 1)) /\ Cardinality(0..(N - 1)) = N
  BY <1>1, FS_Interval
<1>6. rank \in Surjection(S, 0..(N - 1))
  BY <1>4, <1>5, FS_Injection
<1>7. ASSUME NEW k \in 1..N PROVE \E x \in S : Cardinality(Below(S, R, x)) = k - 1
  <2>1. k - 1 \in 0..(N - 1)
    BY <1>1
  <2>2. \E x \in S : rank[x] = k - 1
    BY <1>6, <2>1 DEF Surjection
  <2> QED BY <2>2
<1> QED BY <1>1, <1>2, <1>3, <1>7

\* InOrder is a sequence of all elements in their order.
LEMMA InOrderSorts ==
    ASSUME NEW S, IsFiniteSet(S), NEW R, StrictOrder(S, R)
    PROVE  /\ Cardinality(S) \in Nat
           /\ InOrder(S, R) \in [1..Cardinality(S) -> S]
           /\ \A x \in S : \E k \in 1..Cardinality(S) : InOrder(S, R)[k] = x
           /\ \A i, j \in 1..Cardinality(S) :
                  i < j => <<InOrder(S, R)[i], InOrder(S, R)[j]>> \in R
<1> DEFINE N == Cardinality(S)
           At(k) == CHOOSE x \in S : Cardinality({y \in S : <<y, x>> \in R}) = k - 1
           rank(x) == Cardinality(Below(S, R, x))
<1>1. InOrder(S, R) = [k \in 1..N |-> At(k)]
  BY DEF InOrder
<1>2. N \in Nat
  BY FS_CardinalityType
<1>3. ASSUME NEW k \in 1..N PROVE At(k) \in S /\ rank(At(k)) = k - 1
  <2>1. \E x \in S : Cardinality({y \in S : <<y, x>> \in R}) = k - 1
    BY RankIsPosition DEF Below
  <2> QED BY <2>1 DEF Below
<1>4. ASSUME NEW x \in S, NEW y \in S, rank(x) = rank(y) PROVE x = y
  <2>1. /\ rank(x) \in Nat /\ rank(y) \in Nat
        /\ <<x, y>> \in R => rank(x) < rank(y)
        /\ <<y, x>> \in R => rank(y) < rank(x)
    BY RankIsPosition
  <2> HIDE DEF rank
  <2> QED BY <1>4, <2>1 DEF StrictOrder
<1> HIDE DEF At
<1>5. ASSUME NEW x \in S PROVE \E k \in 1..N : At(k) = x
  <2>1. rank(x) \in 0..(N - 1)
    BY RankIsPosition
  <2> DEFINE k == rank(x) + 1
  <2>2. k \in 1..N /\ k - 1 = rank(x)
    BY <1>2, <2>1
  <2> HIDE DEF k, rank
  <2>3. At(k) \in S /\ rank(At(k)) = rank(x)
    BY <1>3, <2>2
  <2>4. At(k) = x
    BY <1>4, <2>3
  <2> QED BY <2>2, <2>4
<1>6. ASSUME NEW i \in 1..N, NEW j \in 1..N, i < j PROVE <<At(i), At(j)>> \in R
  <2>1. /\ At(i) \in S /\ rank(At(i)) = i - 1
        /\ At(j) \in S /\ rank(At(j)) = j - 1
    BY <1>3
  <2>2. <<At(j), At(i)>> \in R => rank(At(j)) < rank(At(i))
    BY <2>1, RankIsPosition
  <2> HIDE DEF rank
  <2>3. <<At(j), At(i)>> \notin R /\ At(i) # At(j)
    BY <1>2, <1>6, <2>1, <2>2
  <2> QED BY <2>1, <2>3 DEF StrictOrder
<1> QED BY <1>1, <1>2, <1>3, <1>5, <1>6

-----------------------------------------------------------------------------
(* Merged busy intervals *)

\* What Span makes of two times.
LEMMA SpanIsInterval ==
    ASSUME NEW x \in Nat, NEW y \in Nat, x <= y
    PROVE  Span(x, y) \in Interval
<1>1. Span(x, y) \in [start : Nat, end : Nat]
  BY DEF Span
<1>2. Span(x, y).start = x /\ Span(x, y).end = y
  BY DEF Span
<1> QED BY <1>1, <1>2 DEF Interval

\* The order _merge_intervals sorts by is strict and total.
LEMMA ByTimeOrders ==
    ASSUME NEW S \in SUBSET Interval
    PROVE  StrictOrder(S, ByTime(S))
<1>1. \A i \in S : /\ i.start \in Nat /\ i.end \in Nat
                   /\ i = [start |-> i.start, end |-> i.end]
  BY DEF Interval
<1>2. \A x, y \in S : <<x, y>> \in ByTime(S) <=>
          x.start < y.start \/ (x.start = y.start /\ x.end < y.end)
  BY DEF ByTime
<1>3. ASSUME NEW x \in S, NEW y \in S, x # y
      PROVE  <<x, y>> \in ByTime(S) \/ <<y, x>> \in ByTime(S)
  <2>1. x.start # y.start \/ x.end # y.end
    BY <1>1, <1>3
  <2> QED BY <1>1, <1>2, <2>1
<1>4. ASSUME NEW x \in S, NEW y \in S, NEW z \in S,
             <<x, y>> \in ByTime(S), <<y, z>> \in ByTime(S)
      PROVE  <<x, z>> \in ByTime(S)
  BY <1>1, <1>2, <1>4
<1>5. ASSUME NEW x \in S PROVE <<x, x>> \notin ByTime(S)
  BY <1>1, <1>2
<1> QED BY <1>3, <1>4, <1>5 DEF StrictOrder

\* A step of _merge_intervals leaves intervals.
LEMMA JoinedIsSequence ==
    ASSUME NEW merged \in Seq(Interval), NEW i \in Interval
    PROVE  /\ Joined(merged, i) \in Seq(Interval)
           /\ Joined(merged, i) # <<>>
<1>1. CASE merged = <<>> \/ i.start > Last(merged).end
  BY <1>1 DEF Joined
<1>2. CASE ~(merged = <<>> \/ i.start > Last(merged).end)
  <2> DEFINE n == Len(merged)
             new == Span(merged[n].start, Max({merged[n].end, i.end}))
  <2>1. n \in Nat /\ n \in 1..n /\ merged \in [1..n -> Interval] /\ merged[n] \in Interval
    BY <1>2
  <2>2. /\ merged[n].start \in Nat /\ merged[n].end \in Nat /\ i.end \in Nat
        /\ merged[n].start <= merged[n].end
    BY <2>1 DEF Interval
  <2>3. new \in Interval
    <3>1. Max({merged[n].end, i.end}) \in Nat /\ merged[n].end <= Max({merged[n].end, i.end})
      BY <2>2, MaxOfTwo
    <3> QED BY <2>2, <3>1, SpanIsInterval
  <2>4. Joined(merged, i) = [merged EXCEPT ![n] = new]
    BY <1>2 DEF Joined
  <2> HIDE DEF new
  <2>5. [merged EXCEPT ![n] = new] \in [1..n -> Interval]
    BY <2>1, <2>3
  <2>6. [merged EXCEPT ![n] = new] \in Seq(Interval) /\ Len([merged EXCEPT ![n] = new]) = n
    BY <2>1, <2>5
  <2> QED BY <2>1, <2>4, <2>6
<1> QED BY <1>1, <1>2

\* The recursion of _merge_intervals, step by step.
LEMMA MergingSteps ==
    ASSUME NEW S \in SUBSET Interval, IsFiniteSet(S)
    PROVE  /\ Merging(S) \in [0..Cardinality(S) -> Seq(Interval)]
           /\ Merging(S)[0] = <<>>
           /\ \A n \in 1..Cardinality(S) :
                  Merging(S)[n] = Joined(Merging(S)[n - 1], InOrder(S, ByTime(S))[n])
<1> DEFINE N == Cardinality(S)
           in == InOrder(S, ByTime(S))
           step == [p \in (1..N) \X Seq(Interval) |-> Joined(p[2], in[p[1]])]
<1>1. N \in Nat /\ in \in [1..N -> Interval]
  BY ByTimeOrders, InOrderSorts
<1> HIDE DEF in, N
<1>2. ASSUME NEW n \in 1..N, NEW x \in Seq(Interval)
      PROVE  step[<<n, x>>] = Joined(x, in[n]) /\ step[<<n, x>>] \in Seq(Interval)
  BY <1>1, JoinedIsSequence
<1> HIDE DEF step
<1>3. PICK f : Follows(f, N, Seq(Interval), <<>>, step)
  <2>1. <<>> \in Seq(Interval)
    OBVIOUS
  <2>2. Stepwise(N, Seq(Interval), <<>>, step)
    BY <1>1, <1>2, <2>1 DEF Stepwise
  <2> QED BY <2>2, RecursionExists
<1>4. f = [n \in 0..N |-> IF n = 0 THEN <<>> ELSE Joined(f[n - 1], in[n])]
  <2>1. ASSUME NEW n \in 1..N PROVE f[n] = Joined(f[n - 1], in[n])
    <3>1. f[n - 1] \in Seq(Interval) /\ f[n] = step[<<n, f[n - 1]>>]
      BY <1>1, <1>3 DEF Follows
    <3> QED BY <1>2, <3>1
  <2>2. f \in [0..N -> Seq(Interval)] /\ f[0] = <<>>
    BY <1>3 DEF Follows
  <2>3. \A n \in 0..N : f[n] = IF n = 0 THEN <<>> ELSE Joined(f[n - 1], in[n])
    <3>1. \A n \in 0..N : n = 0 \/ n \in 1..N
      BY <1>1
    <3> QED BY <2>1, <2>2, <3>1
  <2> QED BY <2>2, <2>3
<1>5. Merging(S) = [n \in 0..N |-> IF n = 0 THEN <<>> ELSE Joined(Merging(S)[n - 1], in[n])]
  BY <1>4 DEF Merging, in, N
<1>6. Merging(S)[0] = <<>> /\ \A n \in 1..N : Merging(S)[n] = Joined(Merging(S)[n - 1], in[n])
  BY <1>1, <1>5
<1>7. ASSUME NEW n \in 0..N PROVE Merging(S)[n] \in Seq(Interval)
  <2> DEFINE T == {k \in 0..N : Merging(S)[k] \in Seq(Interval)}
  <2>1. 0 \in T
    <3>1. <<>> \in Seq(Interval) /\ 0 \in 0..N
      BY <1>1
    <3> QED BY <1>6, <3>1
  <2>2. ASSUME NEW k \in 1..N, k - 1 \in T PROVE k \in T
    <3>1. Merging(S)[k - 1] \in Seq(Interval) /\ in[k] \in Interval /\ k \in 0..N
      BY <1>1, <2>2
    <3>2. Merging(S)[k] \in Seq(Interval)
      BY <1>6, <3>1, JoinedIsSequence
    <3> QED BY <3>1, <3>2
  <2> HIDE DEF T
  <2>3. 0..N \subseteq T
    BY <1>1, <2>1, <2>2, BoundedInduction
  <2> QED BY <2>3 DEF T
<1>8. Merging(S) \in [0..N -> Seq(Interval)]
  BY <1>5, <1>7
<1> QED BY <1>6, <1>8 DEF in, N

\* What _merge_intervals makes of the intervals in T: intervals in ascending
\* order with a gap between them that cover those of T and, of any stretch that
\* none of them meets, nothing.
Ascending(q) == \A a, b \in 1..Len(q) : a < b => q[a].end < q[b].start

Merges(q, T) ==
    /\ Ascending(q)
    /\ \A i \in T : \E a \in 1..Len(q) : q[a].start <= i.start /\ i.end <= q[a].end
    /\ \A a \in 1..Len(q), s, e \in Int :
          s < e /\ s < q[a].end /\ e > q[a].start
              => \E i \in T : s < i.end /\ e > i.start
    /\ q # <<>> => \E i \in T : q[Len(q)].start <= i.start

\* The elements of a sequence of intervals are intervals.
LEMMA ElementsAreIntervals ==
    ASSUME NEW q \in Seq(Interval), NEW a \in 1..Len(q)
    PROVE  /\ q[a] \in Interval
           /\ q[a].start \in Nat /\ q[a].end \in Nat /\ q[a].start <= q[a].end
BY DEF Interval

\* A step of _merge_intervals that begins another interval.
LEMMA AppendedMerges ==
    ASSUME NEW q \in Seq(Interval), NEW T \in SUBSET Interval, Merges(q, T),
           NEW j \in Interval, q = <<>> \/ j.start > Last(q).end
    PROVE  Merges(Append(q, j), T \union {j})
<1> DEFINE n == Len(q)
           r == Append(q, j)
<1>1. n \in Nat /\ j.start \in Nat /\ j.end \in Nat /\ j.start <= j.end
  BY DEF Interval
<1>2. /\ Len(r) = n + 1 /\ r[n + 1] = j
      /\ \A a \in 1..n : r[a] = q[a]
  OBVIOUS
<1>3. \A a \in 1..n : /\ q[a].start \in Nat /\ q[a].end \in Nat /\ q[a].start <= q[a].end
  BY ElementsAreIntervals
<1>4. \A a \in 1..n : q[a].end < j.start
  <2> SUFFICES ASSUME NEW a \in 1..n PROVE q[a].end < j.start
    OBVIOUS
  <2>1. n \in 1..n /\ q[n].end < j.start
    BY <1>1 DEF Last
  <2>2. CASE a < n
    <3>1. q[a].end < q[n].start
      BY <2>1, <2>2 DEF Merges, Ascending
    <3> QED BY <1>1, <1>3, <2>1, <3>1
  <2> QED BY <2>1, <2>2
<1> HIDE DEF r
<1>5. Ascending(r)
  <2> SUFFICES ASSUME NEW a \in 1..(n + 1), NEW b \in 1..(n + 1), a < b
               PROVE  r[a].end < r[b].start
    BY <1>2 DEF Ascending
  <2>1. a \in 1..n
    BY <1>1
  <2>2. CASE b = n + 1
    BY <1>2, <1>4, <2>1, <2>2
  <2>3. CASE b # n + 1
    <3>1. b \in 1..n
      BY <1>1, <2>3
    <3> QED BY <1>2, <2>1, <3>1 DEF Merges, Ascending
  <2> QED BY <2>2, <2>3
<1>6. ASSUME NEW i \in T \union {j}
      PROVE  \E a \in 1..Len(r) : r[a].start <= i.start /\ i.end <= r[a].end
  <2>1. CASE i = j
    <3>1. n + 1 \in 1..Len(r) /\ r[n + 1].start <= j.start /\ j.end <= r[n + 1].end
      BY <1>1, <1>2
    <3> QED BY <2>1, <3>1
  <2>2. CASE i \in T
    <3>1. PICK a \in 1..n : q[a].start <= i.start /\ i.end <= q[a].end
      BY <2>2 DEF Merges
    <3>2. a \in 1..Len(r)
      BY <1>1, <1>2
    <3> QED BY <1>2, <3>1, <3>2
  <2> QED BY <2>1, <2>2
<1>7. ASSUME NEW a \in 1..Len(r), NEW s \in Int, NEW e \in Int,
             s < e, s < r[a].end, e > r[a].start
      PROVE  \E i \in T \union {j} : s < i.end /\ e > i.start
  <2>1. CASE a = n + 1
    BY <1>2, <1>7, <2>1
  <2>2. CASE a # n + 1
    <3>1. a \in 1..n
      BY <1>1, <1>2, <2>2
    <3> QED BY <1>2, <1>7, <3>1 DEF Merges
  <2> QED BY <2>1, <2>2
<1>8. \E i \in T \union {j} : r[Len(r)].start <= i.start
  BY <1>1, <1>2
<1>9. Merges(r, T \union {j})
  BY <1>5, <1>6, <1>7, <1>8 DEF Merges
<1> QED BY <1>9 DEF r

\* A step of _merge_intervals that extends the last interval.
LEMMA ExtendedMerges ==
    ASSUME NEW q \in Seq(Interval), NEW T \in SUBSET Interval, Merges(q, T),
           NEW j \in Interval, \A i \in T : i.start <= j.start,
           q # <<>>, j.start <= Last(q).end
    PROVE  Merges(Joined(q, j), T \union {j})
<1> DEFINE n == Len(q)
           m == IF q[n].end >= j.end THEN q[n].end ELSE j.end
           r == Joined(q, j)
<1>1. /\ n \in Nat /\ n \in 1..n
      /\ j.start \in Nat /\ j.end \in Nat /\ j.start <= j.end /\ j.start <= q[n].end
  BY DEF Interval, Last
<1>2. \A a \in 1..n : /\ q[a].start \in Nat /\ q[a].end \in Nat /\ q[a].start <= q[a].end
  BY ElementsAreIntervals
<1>3. m \in Nat /\ m >= q[n].end /\ m >= j.end /\ (m = q[n].end \/ m = j.end)
  BY <1>1, <1>2
<1>4. Max({q[n].end, j.end}) = m
  BY <1>1, <1>2, MaxOfTwo
<1> HIDE DEF m
<1>5. r = [q EXCEPT ![n] = Span(q[n].start, m)]
  <2>1. ~(q = <<>> \/ j.start > Last(q).end)
    BY <1>1, <1>2 DEF Last
  <2> QED BY <1>4, <2>1 DEF Joined
<1> HIDE DEF r
<1>6. Len(r) = n /\ \A a \in 1..n : a # n => r[a] = q[a]
  BY <1>1, <1>5
<1>7. r[n] = Span(q[n].start, m)
  BY <1>1, <1>5
<1>8. r[n].start = q[n].start /\ r[n].end = m
  BY <1>7 DEF Span
<1>9. ASSUME NEW a \in 1..n, NEW b \in 1..n, a < b PROVE r[a].end < r[b].start
  <2>1. a # n /\ q[a].end < q[b].start
    BY <1>1, <1>9 DEF Merges, Ascending
  <2> QED BY <1>6, <1>8, <2>1
<1>10. ASSUME NEW i \in T \union {j}
       PROVE  \E a \in 1..Len(r) : r[a].start <= i.start /\ i.end <= r[a].end
  <2>1. CASE i = j
    <3>1. PICK k \in T : q[n].start <= k.start
      BY DEF Merges
    <3>2. k.start \in Nat /\ k.start <= j.start
      BY DEF Interval
    <3>3. r[n].start <= j.start /\ j.end <= r[n].end
      BY <1>1, <1>2, <1>3, <1>8, <3>1, <3>2
    <3> QED BY <1>1, <1>6, <2>1, <3>3
  <2>2. CASE i \in T
    <3>1. PICK a \in 1..n : q[a].start <= i.start /\ i.end <= q[a].end
      BY <2>2 DEF Merges
    <3>2. i.end \in Nat
      BY <2>2 DEF Interval
    <3>3. r[a].start <= i.start /\ i.end <= r[a].end
      BY <1>1, <1>2, <1>3, <1>6, <1>8, <3>1, <3>2
    <3> QED BY <1>6, <3>3
  <2> QED BY <2>1, <2>2
<1>11. ASSUME NEW a \in 1..Len(r), NEW s \in Int, NEW e \in Int,
              s < e, s < r[a].end, e > r[a].start
       PROVE  \E i \in T \union {j} : s < i.end /\ e > i.start
  <2>1. CASE a # n
    BY <1>6, <1>11, <2>1 DEF Merges
  <2>2. CASE a = n /\ s < q[n].end
    BY <1>1, <1>8, <1>11, <2>2 DEF Merges
  <2>3. CASE a = n /\ ~(s < q[n].end)
    <3>1. s < j.end /\ e > j.start
      BY <1>1, <1>2, <1>3, <1>8, <1>11, <2>3
    <3> QED BY <3>1
  <2> QED BY <1>6, <2>1, <2>2, <2>3
<1>12. \E i \in T \union {j} : r[Len(r)].start <= i.start
  BY <1>6, <1>8 DEF Merges
<1>13. Ascending(r)
  BY <1>6, <1>9 DEF Ascending
<1>14. Merges(r, T \union {j})
  BY <1>10, <1>11, <1>12, <1>13 DEF Merges
<1> QED BY <1>14 DEF r

\* _merge_intervals keeps what the intervals occupy, no less and no more.
LEMMA MergeIntervalsMerges ==
    ASSUME NEW S \in SUBSET Interval, IsFiniteSet(S)
    PROVE  MergeIntervals(S) \in Seq(Interval) /\ Merges(MergeIntervals(S), S)
<1> DEFINE N == Cardinality(S)
           in == InOrder(S, ByTime(S))
           Upto(n) == {in[k] : k \in 1..n}
           T == {n \in 0..N : Merges(Merging(S)[n], Upto(n))}
<1>1. /\ N \in Nat /\ in \in [1..N -> S]
      /\ \A x \in S : \E k \in 1..N : in[k] = x
      /\ \A i, j \in 1..N : i < j => <<in[i], in[j]>> \in ByTime(S)
  BY ByTimeOrders, InOrderSorts
<1>2. /\ Merging(S) \in [0..N -> Seq(Interval)] /\ Merging(S)[0] = <<>>
      /\ \A n \in 1..N : Merging(S)[n] = Joined(Merging(S)[n - 1], in[n])
  BY MergingSteps
<1> HIDE DEF in, N
<1>3. 0 \in T
  <2>1. Merges(<<>>, {})
    BY DEF Merges, Ascending
  <2>2. Upto(0) = {}
    OBVIOUS
  <2>3. 0 \in 0..N
    BY <1>1
  <2> HIDE DEF Upto
  <2> QED BY <1>2, <2>1, <2>2, <2>3
<1>4. ASSUME NEW n \in 1..N, n - 1 \in T PROVE n \in T
  <2> DEFINE q == Merging(S)[n - 1]
             j == in[n]
  <2>0. n \in 0..N /\ n - 1 \in 0..N
    BY <1>1
  <2>1. q \in Seq(Interval) /\ Merging(S)[n] = Joined(q, j)
    BY <1>2, <2>0
  <2>2. j \in Interval /\ Upto(n - 1) \in SUBSET Interval
    BY <1>1
  <2>3. Upto(n) = Upto(n - 1) \union {j}
    <3>1. 1..n = 1..(n - 1) \union {n}
      BY <1>1
    <3> QED BY <3>1
  <2>4. ASSUME NEW i \in Upto(n - 1) PROVE i.start <= j.start
    <3>1. PICK k \in 1..(n - 1) : i = in[k]
      OBVIOUS
    <3>2. k \in 1..N /\ k < n
      BY <1>1
    <3>3. <<i, j>> \in ByTime(S)
      BY <1>1, <3>1, <3>2
    <3>4. i.start \in Nat /\ j.start \in Nat
      BY <2>2 DEF Interval
    <3> QED BY <3>3, <3>4 DEF ByTime
  <2>5. Merges(q, Upto(n - 1))
    BY <1>4
  <2> HIDE DEF q, j, Upto
  <2>6. Merges(Joined(q, j), Upto(n - 1) \union {j})
    <3>1. CASE q = <<>> \/ j.start > Last(q).end
      <4>1. Joined(q, j) = Append(q, j)
        BY <3>1 DEF Joined
      <4> QED BY <2>1, <2>2, <2>5, <3>1, <4>1, AppendedMerges
    <3>2. CASE ~(q = <<>> \/ j.start > Last(q).end)
      <4>1. q # <<>> /\ j.start <= Last(q).end
        <5>1. Len(q) \in 1..Len(q)
          BY <2>1, <3>2
        <5>2. Last(q).end \in Nat /\ j.start \in Nat
          BY <2>1, <2>2, <5>1, ElementsAreIntervals DEF Last, Interval
        <5> QED BY <3>2, <5>2
      <4> QED BY <2>1, <2>2, <2>4, <2>5, <4>1, ExtendedMerges
    <3> QED BY <3>1, <3>2
  <2> QED BY <2>0, <2>1, <2>3, <2>6
<1> HIDE DEF T
<1>5. 0..N \subseteq T
  BY <1>1, <1>3, <1>4, BoundedInduction
<1>6. N \in T
  BY <1>1, <1>5
<1>7. Upto(N) = S
  BY <1>1
<1>8. MergeIntervals(S) = Merging(S)[N]
  BY DEF MergeIntervals, N
<1>9. Merging(S)[N] \in Seq(Interval)
  BY <1>1, <1>2
<1> QED BY <1>6, <1>7, <1>8, <1>9 DEF T

-----------------------------------------------------------------------------
(* Free slots *)

\* _append_gap_slots stays in its gap and begins at its beginning.
LEMMA GapSlotsFill ==
    ASSUME NEW from \in Nat, NEW to \in Int, NEW length \in Nat \ {0}
    PROVE  /\ GapSlots(from, to, length) \in SUBSET Nat
           /\ \A s \in GapSlots(from, to, length) : from <= s /\ s + length <= to
           /\ from + length <= to => from \in GapSlots(from, to, length)
<1>1. ASSUME NEW s \in GapSlots(from, to, length)
      PROVE  s \in Nat /\ from <= s /\ s + length <= to
  BY DEF GapSlots
<1>2. ASSUME from + length <= to PROVE from \in GapSlots(from, to, length)
  <2>1. (from - from) % Increment = 0
    BY PlannerAssumption
  <2>2. from \in from..(to - length)
    BY <1>2
  <2> QED BY <2>1, <2>2 DEF GapSlots
<1> QED BY <1>1, <1>2

Scan == [cursor : Nat, slots : SUBSET Nat]

\* A slot that none of the busy intervals meets.
Fits(s, length, busy) ==
    \A k \in 1..Len(busy) : s >= busy[k].end \/ s + length <= busy[k].start

\* What the scan knows once it is past n busy intervals: its slots fit, and
\* before its cursor none that fits is earlier than all of them.
ScannedTo(scan, n, from, to, busy, length) ==
    /\ scan.cursor >= from
    /\ \A k \in 1..n : busy[k].end <= scan.cursor \/ busy[k].start >= to
    /\ \A s \in scan.slots : from <= s /\ s + length <= to /\ Fits(s, length, busy)
    /\ \A s \in Nat :
          from <= s /\ s < scan.cursor /\ s + length <= to /\ Fits(s, length, busy)
              => \E x \in scan.slots : x <= s

\* A step of _append_window_slots leaves a cursor and slots.
LEMMA PassedIsScan ==
    ASSUME NEW scan \in Scan, NEW i \in Interval, NEW to \in Int, NEW length \in Nat \ {0}
    PROVE  Passed(scan, i, to, length) \in Scan
<1>1. scan.cursor \in Nat /\ scan.slots \in SUBSET Nat /\ i.start \in Nat /\ i.end \in Nat
  BY DEF Scan, Interval
<1>2. Max({scan.cursor, i.end}) \in Nat
  BY <1>1, MaxOfTwo
<1>3. Min({i.start, to}) \in Int
  BY <1>1, MinOfTwo
<1>4. GapSlots(scan.cursor, Min({i.start, to}), length) \in SUBSET Nat
  BY <1>1, <1>3, GapSlotsFill
<1> QED BY <1>1, <1>2, <1>4 DEF Passed, Scan

\* A step of _append_window_slots past one more busy interval.
LEMMA PassedScans ==
    ASSUME NEW busy \in Seq(Interval), Ascending(busy), NEW n \in 1..Len(busy),
           NEW from \in Nat, NEW to \in Int, NEW length \in Nat \ {0},
           NEW scan \in Scan, ScannedTo(scan, n - 1, from, to, busy, length)
    PROVE  ScannedTo(Passed(scan, busy[n], to, length), n, from, to, busy, length)
<1> DEFINE i == busy[n]
           c == scan.cursor
           new == Passed(scan, i, to, length)
<1>1. /\ i.start \in Nat /\ i.end \in Nat /\ i.start <= i.end
      /\ c \in Nat /\ scan.slots \in SUBSET Nat
  BY ElementsAreIntervals DEF Scan
<1>2. \A k \in 1..n : k = n \/ k \in 1..(n - 1)
  OBVIOUS
<1>3. CASE i.end <= c \/ i.start >= to
  <2>1. new = scan
    BY <1>3 DEF Passed
  <2> QED BY <1>2, <1>3, <2>1 DEF ScannedTo
<1>4. CASE ~(i.end <= c \/ i.start >= to)
  <2>1. Max({c, i.end}) = i.end /\ Min({i.start, to}) = i.start /\ c < i.end /\ i.start < to
    BY <1>1, <1>4, MaxOfTwo, MinOfTwo
  <2> DEFINE gap == GapSlots(c, i.start, length)
  <2>2. new = [cursor |-> i.end, slots |-> scan.slots \union gap]
    BY <1>4, <2>1 DEF Passed
  <2>3. /\ gap \in SUBSET Nat
        /\ \A s \in gap : c <= s /\ s + length <= i.start
        /\ c + length <= i.start => c \in gap
    BY <1>1, GapSlotsFill
  <2> HIDE DEF gap, new
  <2>4. new.cursor = i.end /\ new.slots = scan.slots \union gap
    BY <2>2
  <2>5. c >= from
    BY DEF ScannedTo
  <2>6. new.cursor >= from
    BY <1>1, <2>1, <2>4, <2>5
  <2>7. ASSUME NEW k \in 1..n PROVE busy[k].end <= new.cursor \/ busy[k].start >= to
    <3>1. CASE k = n
      BY <1>1, <2>4, <3>1
    <3>2. CASE k \in 1..(n - 1)
      <4>1. busy[k].end <= c \/ busy[k].start >= to
        BY <3>2 DEF ScannedTo
      <4>2. busy[k].end \in Nat
        BY ElementsAreIntervals
      <4> QED BY <1>1, <2>1, <2>4, <4>1, <4>2
    <3> QED BY <1>2, <3>1, <3>2
  <2>8. ASSUME NEW s \in gap PROVE from <= s /\ s + length <= to /\ Fits(s, length, busy)
    <3>1. s \in Nat /\ c <= s /\ s + length <= i.start
      BY <2>3
    <3>2. ASSUME NEW k \in 1..Len(busy) PROVE s >= busy[k].end \/ s + length <= busy[k].start
      <4>1. busy[k].start \in Nat /\ busy[k].end \in Nat
        BY ElementsAreIntervals
      <4>2. CASE k < n
        <5>1. busy[k].end <= c \/ busy[k].start >= to
          BY <4>2 DEF ScannedTo
        <5> QED BY <1>1, <2>1, <3>1, <4>1, <5>1
      <4>3. CASE k = n
        BY <3>1, <4>3
      <4>4. CASE n < k
        <5>1. i.end < busy[k].start
          BY <4>4 DEF Ascending
        <5> QED BY <1>1, <3>1, <4>1, <5>1
      <4> QED BY <4>2, <4>3, <4>4
    <3> QED BY <1>1, <2>1, <2>5, <3>1, <3>2 DEF Fits
  <2>9. ASSUME NEW s \in new.slots PROVE from <= s /\ s + length <= to /\ Fits(s, length, busy)
    BY <2>4, <2>8 DEF ScannedTo
  <2>10. ASSUME NEW s \in Nat, from <= s, s < new.cursor, s + length <= to,
                Fits(s, length, busy)
         PROVE  \E x \in new.slots : x <= s
    <3>1. CASE s < c
      BY <2>4, <2>10, <3>1 DEF ScannedTo
    <3>2. CASE ~(s < c)
      <4>1. s + length <= i.start
        BY <1>1, <2>4, <2>10 DEF Fits
      <4>2. c + length <= i.start /\ c <= s
        BY <1>1, <3>2, <4>1
      <4> QED BY <2>3, <2>4, <4>2
    <3> QED BY <3>1, <3>2
  <2>11. ScannedTo(new, n, from, to, busy, length)
    BY <2>6, <2>7, <2>9, <2>10 DEF ScannedTo
  <2> QED BY <2>11 DEF new
<1> QED BY <1>3, <1>4

\* _append_window_slots is a recursion over the busy intervals.
LEMMA ScanningSteps ==
    ASSUME NEW busy \in Seq(Interval),
           NEW from \in Nat, NEW to \in Int, NEW length \in Nat \ {0}
    PROVE  /\ Scanning(from, to, busy, length) \in [0..Len(busy) -> Scan]
           /\ Scanning(from, to, busy, length)[0] = [cursor |-> from, slots |-> {}]
           /\ \A n \in 1..Len(busy) :
                  Scanning(from, to, busy, length)[n] =
                      Passed(Scanning(from, to, busy, length)[n - 1], busy[n], to, length)
<1> DEFINE N == Len(busy)
           S == Scanning(from, to, busy, length)
           begin == [cursor |-> from, slots |-> {}]
           step == [p \in (1..N) \X Scan |-> Passed(p[2], busy[p[1]], to, length)]
<1>1. N \in Nat /\ \A n \in 1..N : busy[n] \in Interval
  OBVIOUS
<1>2. begin \in Scan
  BY DEF Scan
<1> HIDE DEF N, begin
<1>3. ASSUME NEW n \in 1..N, NEW x \in Scan
      PROVE  step[<<n, x>>] = Passed(x, busy[n], to, length) /\ step[<<n, x>>] \in Scan
  BY <1>1, PassedIsScan
<1> HIDE DEF step
<1>4. PICK f : Follows(f, N, Scan, begin, step)
  <2>1. Stepwise(N, Scan, begin, step)
    BY <1>1, <1>2, <1>3 DEF Stepwise
  <2> QED BY <2>1, RecursionExists
<1>5. f = [n \in 0..N |-> IF n = 0 THEN begin ELSE Passed(f[n - 1], busy[n], to, length)]
  <2>1. ASSUME NEW n \in 1..N PROVE f[n] = Passed(f[n - 1], busy[n], to, length)
    <3>1. f[n - 1] \in Scan /\ f[n] = step[<<n, f[n - 1]>>]
      BY <1>1, <1>4 DEF Follows
    <3> QED BY <1>3, <3>1
  <2> QED BY <1>1, <1>4, <2>1 DEF Follows
<1>6. S = [n \in 0..N |-> IF n = 0 THEN begin ELSE Passed(S[n - 1], busy[n], to, length)]
  BY <1>5 DEF Scanning, begin, N
<1> HIDE DEF S
<1>7. S[0] = begin /\ \A n \in 1..N : S[n] = Passed(S[n - 1], busy[n], to, length)
  BY <1>1, <1>6
<1>8. ASSUME NEW n \in 0..N PROVE S[n] \in Scan
  <2> DEFINE T == {k \in 0..N : S[k] \in Scan}
  <2>1. 0 \in T
    BY <1>1, <1>2, <1>7
  <2>2. ASSUME NEW k \in 1..N, k - 1 \in T PROVE k \in T
    <3>1. S[k - 1] \in Scan /\ k \in 0..N /\ busy[k] \in Interval
      BY <1>1, <2>2
    <3>2. S[k] \in Scan
      BY <1>7, <3>1, PassedIsScan
    <3> QED BY <3>1, <3>2
  <2> HIDE DEF T
  <2>3. 0..N \subseteq T
    BY <1>1, <2>1, <2>2, BoundedInduction
  <2> QED BY <2>3 DEF T
<1>9. S \in [0..N -> Scan]
  BY <1>6, <1>8
<1> QED BY <1>7, <1>9 DEF S, N, begin

\* _append_window_slots offers only what fits, and something as early as
\* anything that fits.
LEMMA WindowSlotsFit ==
    ASSUME NEW busy \in Seq(Interval), Ascending(busy),
           NEW from \in Nat, NEW to \in Int, NEW length \in Nat \ {0}
    PROVE  /\ WindowSlots(from, to, busy, length) \in SUBSET Nat
           /\ \A s \in WindowSlots(from, to, busy, length) :
                  from <= s /\ s + length <= to /\ Fits(s, length, busy)
           /\ \A s \in Nat :
                  from <= s /\ s + length <= to /\ Fits(s, length, busy)
                      => \E x \in WindowSlots(from, to, busy, length) : x <= s
<1> DEFINE N == Len(busy)
           S == Scanning(from, to, busy, length)
           T == {n \in 0..N : ScannedTo(S[n], n, from, to, busy, length)}
<1>1. N \in Nat
  OBVIOUS
<1>2. /\ S \in [0..N -> Scan] /\ S[0] = [cursor |-> from, slots |-> {}]
      /\ \A n \in 1..N : S[n] = Passed(S[n - 1], busy[n], to, length)
  BY ScanningSteps
<1> HIDE DEF S
<1>3. 0 \in T
  <2>1. S[0].cursor = from /\ S[0].slots = {} /\ 1..0 = {}
    BY <1>2
  <2>2. ScannedTo(S[0], 0, from, to, busy, length)
    BY <2>1 DEF ScannedTo
  <2> QED BY <1>1, <2>2
<1>4. ASSUME NEW n \in 1..N, n - 1 \in T PROVE n \in T
  <2>1. S[n - 1] \in Scan /\ S[n] = Passed(S[n - 1], busy[n], to, length) /\ n \in 0..N
    BY <1>1, <1>2, <1>4
  <2>2. ScannedTo(S[n - 1], n - 1, from, to, busy, length)
    BY <1>4
  <2>3. ScannedTo(S[n], n, from, to, busy, length)
    BY <2>1, <2>2, PassedScans
  <2> QED BY <2>1, <2>3
<1> HIDE DEF T
<1>5. N \in T
  <2>1. 0..N \subseteq T
    BY <1>1, <1>3, <1>4, BoundedInduction
  <2> QED BY <1>1, <2>1
<1> DEFINE last == S[N]
           gap == GapSlots(last.cursor, to, length)
<1>6. last.cursor \in Nat /\ last.slots \in SUBSET Nat
  BY <1>1, <1>2 DEF Scan
<1>7. ScannedTo(last, N, from, to, busy, length)
  BY <1>5 DEF T
<1>8. WindowSlots(from, to, busy, length) = last.slots \union gap
  BY DEF WindowSlots, S
<1> HIDE DEF last
<1>9. /\ gap \in SUBSET Nat
      /\ \A s \in gap : last.cursor <= s /\ s + length <= to
      /\ last.cursor + length <= to => last.cursor \in gap
  BY <1>6, GapSlotsFill
<1> HIDE DEF gap
<1>10. ASSUME NEW s \in gap PROVE from <= s /\ s + length <= to /\ Fits(s, length, busy)
  <2>1. s \in Nat /\ last.cursor <= s /\ s + length <= to /\ from <= last.cursor
    BY <1>7, <1>9 DEF ScannedTo
  <2>2. ASSUME NEW k \in 1..Len(busy) PROVE s >= busy[k].end \/ s + length <= busy[k].start
    <3>1. busy[k].start \in Nat /\ busy[k].end \in Nat
      BY ElementsAreIntervals
    <3>2. busy[k].end <= last.cursor \/ busy[k].start >= to
      BY <1>7 DEF ScannedTo
    <3> QED BY <1>6, <2>1, <3>1, <3>2
  <2> QED BY <1>6, <2>1, <2>2 DEF Fits
<1>11. ASSUME NEW s \in last.slots
       PROVE  from <= s /\ s + length <= to /\ Fits(s, length, busy)
  BY <1>7 DEF ScannedTo
<1>12. ASSUME NEW s \in Nat, from <= s, s + length <= to, Fits(s, length, busy)
       PROVE  \E x \in last.slots \union gap : x <= s
  <2>1. CASE s < last.cursor
    BY <1>7, <1>12, <2>1 DEF ScannedTo
  <2>2. CASE ~(s < last.cursor)
    <3>1. last.cursor + length <= to /\ last.cursor <= s
      BY <1>6, <1>12, <2>2
    <3> QED BY <1>9, <3>1
  <2> QED BY <2>1, <2>2
<1> QED BY <1>6, <1>8, <1>9, <1>10, <1>11, <1>12

-----------------------------------------------------------------------------
(* Days *)

\* Multiplying keeps the order.
LEMMA LargerProduct ==
    ASSUME NEW x \in Int, NEW y \in Int, NEW n \in Nat, x <= y
    PROVE  x * n <= y * n
<1>1. (y - x) * n \in Nat
  OBVIOUS
<1>2. (y - x) * n = y * n - x * n
  OBVIOUS
<1> QED BY <1>1, <1>2

\* A time lies within its day.
LEMMA DayBounds ==
    ASSUME NEW s \in Int
    PROVE  /\ Day(s) \in Int
           /\ Day(s) * DayLength <= s
           /\ s < Day(s) * DayLength + DayLength
<1>1. DayLength \in Nat /\ DayLength > 0
  BY PlannerAssumption
<1> QED BY <1>1 DEF Day

\* And within no other.
LEMMA DayIsUnique ==
    ASSUME NEW s \in Int, NEW d \in Int, d * DayLength <= s, s < d * DayLength + DayLength
    PROVE  Day(s) = d
<1>1. DayLength \in Nat /\ DayLength > 0
  BY PlannerAssumption
<1>2. /\ Day(s) \in Int /\ Day(s) * DayLength <= s
      /\ s < Day(s) * DayLength + DayLength
  BY DayBounds
<1> DEFINE q == Day(s)
<1> HIDE DEF q
<1>3. CASE d < q
  <2>1. (d + 1) * DayLength <= q * DayLength
    BY <1>1, <1>2, <1>3, LargerProduct DEF q
  <2>2. (d + 1) * DayLength = d * DayLength + DayLength
    BY <1>1
  <2> DEFINE a == d * DayLength
             b == q * DayLength
  <2>3. a \in Int /\ b \in Int /\ b <= s /\ a + DayLength <= b
    BY <1>1, <1>2, <2>1, <2>2 DEF q
  <2>4. s < a + DayLength
    OBVIOUS
  <2> HIDE DEF a, b
  <2> QED BY <1>1, <2>3, <2>4
<1>4. CASE q < d
  <2>1. (q + 1) * DayLength <= d * DayLength
    BY <1>1, <1>2, <1>4, LargerProduct DEF q
  <2>2. (q + 1) * DayLength = q * DayLength + DayLength
    BY <1>1, <1>2 DEF q
  <2> DEFINE a == d * DayLength
             b == q * DayLength
  <2>3. a \in Int /\ b \in Int /\ s < b + DayLength /\ b + DayLength <= a
    BY <1>1, <1>2, <2>1, <2>2 DEF q
  <2>4. a <= s
    OBVIOUS
  <2> HIDE DEF a, b
  <2> QED BY <1>1, <2>3, <2>4
<1> QED BY <1>2, <1>3, <1>4 DEF q

\* What is later is on the same day or on a later one.
LEMMA LaterDay ==
    ASSUME NEW s \in Int, NEW t \in Int, s <= t
    PROVE  Day(s) <= Day(t)
<1>1. DayLength \in Nat /\ DayLength > 0
  BY PlannerAssumption
<1> DEFINE p == Day(s)
           q == Day(t)
<1>2. p \in Int /\ p * DayLength <= s /\ s < p * DayLength + DayLength
  BY DayBounds
<1>3. q \in Int /\ q * DayLength <= t /\ t < q * DayLength + DayLength
  BY DayBounds
<1> HIDE DEF p, q
<1>4. ASSUME q < p PROVE FALSE
  <2>1. (q + 1) * DayLength <= p * DayLength
    BY <1>1, <1>2, <1>3, <1>4, LargerProduct
  <2>2. (q + 1) * DayLength = q * DayLength + DayLength
    BY <1>1, <1>3
  <2> DEFINE a == p * DayLength
             b == q * DayLength
  <2>3. a \in Int /\ b \in Int /\ a <= s /\ t < b + DayLength /\ b + DayLength <= a
    BY <1>1, <1>2, <1>3, <2>1, <2>2
  <2> HIDE DEF a, b
  <2> QED BY <1>1, <2>3
<1>5. p <= q
  BY <1>2, <1>3, <1>4
<1> QED BY <1>5 DEF p, q

-----------------------------------------------------------------------------
(* find_free_slots *)

\* A slot is room when it is within the range and the hours of work, and no
\* busy interval meets it.
IsRoom(s, busy, range, length) ==
    /\ range.start <= s /\ s + length <= range.end
    /\ InWorkHours(Span(s, s + length))
    /\ Clear(Span(s, s + length), busy)

\* What fits between the merged intervals near the range meets no interval.
LEMMA FitsIsClear ==
    ASSUME NEW busy \in SUBSET Interval, IsFiniteSet(busy),
           NEW from \in Int, NEW to \in Int,
           NEW s \in Nat, NEW length \in Nat \ {0}, from <= s, s + length <= to
    PROVE  LET near == {i \in busy : Overlap(i, Span(from, to))}
           IN Fits(s, length, MergeIntervals(near)) <=> Clear(Span(s, s + length), busy)
<1> DEFINE near == {i \in busy : Overlap(i, Span(from, to))}
           q == MergeIntervals(near)
<1>1. near \in SUBSET Interval /\ IsFiniteSet(near)
  BY FS_Subset
<1>2. q \in Seq(Interval) /\ Merges(q, near)
  BY <1>1, MergeIntervalsMerges
<1>3. \A i \in busy : i.start \in Nat /\ i.end \in Nat
  BY DEF Interval
<1>4. Clear(Span(s, s + length), busy) <=>
          \A i \in busy : ~(s < i.end /\ s + length > i.start)
  BY DEF Clear, Overlap, Span
<1>5. \A i \in busy : i \in near <=> i.start < to /\ i.end > from
  BY DEF Overlap, Span
<1> HIDE DEF near, q
<1>6. ASSUME Clear(Span(s, s + length), busy) PROVE Fits(s, length, q)
  <2> SUFFICES ASSUME NEW k \in 1..Len(q)
               PROVE  s >= q[k].end \/ s + length <= q[k].start
    BY DEF Fits
  <2>1. q[k].start \in Nat /\ q[k].end \in Nat
    BY <1>2, ElementsAreIntervals
  <2>2. ASSUME s < q[k].end, s + length > q[k].start PROVE FALSE
    <3> DEFINE e == s + length
    <3>1. e \in Int /\ s \in Int /\ s < e /\ s < q[k].end /\ e > q[k].start
      BY <2>2
    <3> HIDE DEF e
    <3>2. \E i \in near : s < i.end /\ e > i.start
      BY <1>2, <3>1 DEF Merges
    <3>3. near \subseteq busy
      BY DEF near
    <3> QED BY <1>4, <1>6, <3>2, <3>3 DEF e
  <2> QED BY <2>1, <2>2
<1>7. ASSUME Fits(s, length, q) PROVE Clear(Span(s, s + length), busy)
  <2> SUFFICES ASSUME NEW i \in busy, s < i.end, s + length > i.start PROVE FALSE
    BY <1>4
  <2>1. i \in near
    BY <1>3, <1>5
  <2>2. PICK a \in 1..Len(q) : q[a].start <= i.start /\ i.end <= q[a].end
    BY <1>2, <2>1 DEF Merges
  <2>3. q[a].start \in Nat /\ q[a].end \in Nat
    BY <1>2, ElementsAreIntervals
  <2>4. s >= q[a].end \/ s + length <= q[a].start
    BY <1>7 DEF Fits
  <2> QED BY <1>3, <2>2, <2>3, <2>4
<1> QED BY <1>6, <1>7 DEF near, q

\* A slot within the window of a day is within the range and the hours of work
\* of that day, and the other way round.
LEMMA DailyWindowIsWorkHours ==
    ASSUME NEW d \in WorkDays, NEW range, range.start \in Int, range.end \in Int,
           NEW s \in Nat, NEW length \in Nat \ {0}
    PROVE  /\ DailyWindow(d, range).start \in Nat
           /\ DailyWindow(d, range).end \in Int
           /\ DailyWindow(d, range).start <= s /\ s + length <= DailyWindow(d, range).end
                  => /\ range.start <= s /\ s + length <= range.end
                     /\ Day(s) = d /\ InWorkHours(Span(s, s + length))
           /\ range.start <= s /\ s + length <= range.end
              /\ Day(s) = d /\ InWorkHours(Span(s, s + length))
                  => DailyWindow(d, range).start <= s
                     /\ s + length <= DailyWindow(d, range).end
<1> DEFINE a == d * DayLength
           b == DailyWindow(d, range)
<1>1. /\ DayLength \in Nat /\ WorkStart \in Nat /\ WorkEnd \in Nat
      /\ WorkStart <= WorkEnd /\ WorkEnd <= DayLength /\ d \in Nat
  BY PlannerAssumption
<1>2. a \in Nat
  BY <1>1
<1>3. /\ b.start = IF a + WorkStart >= range.start THEN a + WorkStart ELSE range.start
      /\ b.end = IF a + WorkEnd <= range.end THEN a + WorkEnd ELSE range.end
  <2>1. b.start = Max({a + WorkStart, range.start}) /\ b.end = Min({a + WorkEnd, range.end})
    BY DEF DailyWindow, Span
  <2> HIDE DEF a, b
  <2>2. a + WorkStart \in Int /\ a + WorkEnd \in Int
    BY <1>1, <1>2
  <2> QED BY <2>1, <2>2, MaxOfTwo, MinOfTwo
<1>4. InWorkHours(Span(s, s + length)) <=>
          /\ Day(s) \in WorkDays
          /\ s >= Day(s) * DayLength + WorkStart
          /\ s + length <= Day(s) * DayLength + WorkEnd
  BY DEF InWorkHours, Span
<1>5. ASSUME Day(s) = d
      PROVE  InWorkHours(Span(s, s + length)) <=> s >= a + WorkStart /\ s + length <= a + WorkEnd
  BY <1>4, <1>5
<1>6. ASSUME b.start <= s, s + length <= b.end PROVE Day(s) = d
  <2>1. a <= s /\ s < a + DayLength
    <3> HIDE DEF a, b
    <3> QED BY <1>1, <1>2, <1>3, <1>6
  <2> QED BY <1>1, <2>1, DayIsUnique
<1> HIDE DEF a
<1>7. ASSUME b.start <= s, s + length <= b.end
      PROVE  /\ range.start <= s /\ s + length <= range.end
             /\ Day(s) = d /\ InWorkHours(Span(s, s + length))
  <2> HIDE DEF b
  <2>1. range.start <= s /\ s + length <= range.end
    BY <1>1, <1>2, <1>3, <1>7
  <2>2. s >= a + WorkStart /\ s + length <= a + WorkEnd
    BY <1>1, <1>2, <1>3, <1>7
  <2> QED BY <1>5, <1>6, <1>7, <2>1, <2>2
<1>8. ASSUME range.start <= s, s + length <= range.end,
             Day(s) = d, InWorkHours(Span(s, s + length))
      PROVE  b.start <= s /\ s + length <= b.end
  <2> HIDE DEF b
  <2> QED BY <1>1, <1>2, <1>3, <1>5, <1>8
<1>9. b.start \in Nat /\ b.end \in Int
  <2> HIDE DEF b
  <2> QED BY <1>1, <1>2, <1>3
<1> QED BY <1>7, <1>8, <1>9 DEF b

\* find_free_slots offers nothing but room, and something as early as any room.
LEMMA FreeSlotsAreRoom ==
    ASSUME NEW busy \in SUBSET Interval, IsFiniteSet(busy),
           NEW from \in Int, NEW to \in Int, NEW length \in Nat \ {0}
    PROVE  /\ FreeSlots(busy, Span(from, to), length) \in SUBSET Nat
           /\ \A s \in FreeSlots(busy, Span(from, to), length) :
                  IsRoom(s, busy, Span(from, to), length)
           /\ \A s \in Nat :
                  IsRoom(s, busy, Span(from, to), length)
                      => \E x \in FreeSlots(busy, Span(from, to), length) : x <= s
<1> DEFINE range == Span(from, to)
           near == {i \in busy : Overlap(i, range)}
           q == MergeIntervals(near)
           days == WorkDays \intersect Day(range.start)..Day(range.end)
           At(d) == WindowSlots(DailyWindow(d, range).start, DailyWindow(d, range).end,
                                q, length)
<1>1. near \in SUBSET Interval /\ IsFiniteSet(near)
  BY FS_Subset
<1>2. q \in Seq(Interval) /\ Ascending(q)
  BY <1>1, MergeIntervalsMerges DEF Merges
<1>3. range.start = from /\ range.end = to
  BY DEF Span
<1>4. FreeSlots(busy, range, length) = UNION {At(d) : d \in days}
  BY DEF FreeSlots
<1>5. ASSUME NEW s \in Nat, from <= s, s + length <= to
      PROVE  Fits(s, length, q) <=> Clear(Span(s, s + length), busy)
  BY <1>5, FitsIsClear
<1> HIDE DEF range, near, q
<1>6. ASSUME NEW d \in days PROVE d \in WorkDays
  OBVIOUS
<1>7. ASSUME NEW d \in days
      PROVE  /\ At(d) \in SUBSET Nat
             /\ \A s \in At(d) : DailyWindow(d, range).start <= s
                                 /\ s + length <= DailyWindow(d, range).end
                                 /\ Fits(s, length, q)
             /\ \A s \in Nat : DailyWindow(d, range).start <= s
                               /\ s + length <= DailyWindow(d, range).end
                               /\ Fits(s, length, q)
                                   => \E x \in At(d) : x <= s
  <2>1. DailyWindow(d, range).start \in Nat /\ DailyWindow(d, range).end \in Int
    BY <1>3, <1>6, DailyWindowIsWorkHours
  <2> QED BY <1>2, <2>1, WindowSlotsFit
<1> HIDE DEF At
<1>8. ASSUME NEW d \in days, NEW s \in At(d) PROVE s \in Nat /\ IsRoom(s, busy, range, length)
  <2>1. s \in Nat /\ DailyWindow(d, range).start <= s
        /\ s + length <= DailyWindow(d, range).end /\ Fits(s, length, q)
    BY <1>7
  <2>2. /\ range.start <= s /\ s + length <= range.end
        /\ InWorkHours(Span(s, s + length))
    BY <1>3, <1>6, <2>1, DailyWindowIsWorkHours
  <2>3. Clear(Span(s, s + length), busy)
    BY <1>3, <1>5, <2>1, <2>2
  <2> QED BY <2>1, <2>2, <2>3 DEF IsRoom
<1>9. ASSUME NEW s \in Nat, IsRoom(s, busy, range, length)
      PROVE  \E d \in days : \E x \in At(d) : x <= s
  <2>1. /\ range.start <= s /\ s + length <= range.end
        /\ InWorkHours(Span(s, s + length)) /\ Clear(Span(s, s + length), busy)
    BY <1>9 DEF IsRoom
  <2>2. Day(s) \in WorkDays
    BY <2>1 DEF InWorkHours, Span
  <2>3. Day(range.start) <= Day(s) /\ Day(s) <= Day(range.end)
    <3>1. s <= range.end
      BY <1>3, <2>1
    <3> QED BY <1>3, <2>1, <3>1, LaterDay
  <2>4. Day(s) \in Int /\ Day(range.start) \in Int /\ Day(range.end) \in Int
    BY <1>3, DayBounds
  <2>5. Day(s) \in days
    BY <2>2, <2>3, <2>4
  <2>6. DailyWindow(Day(s), range).start <= s /\ s + length <= DailyWindow(Day(s), range).end
    BY <1>3, <2>1, <2>2, DailyWindowIsWorkHours
  <2>7. Fits(s, length, q)
    BY <1>3, <1>5, <2>1
  <2> HIDE DEF days
  <2>8. \E x \in At(Day(s)) : x <= s
    BY <1>7, <2>5, <2>6, <2>7
  <2> QED BY <2>5, <2>8
<1> HIDE DEF days
<1>10. FreeSlots(busy, range, length) \in SUBSET Nat
  BY <1>4, <1>8
<1>11. \A s \in FreeSlots(busy, range, length) : IsRoom(s, busy, range, length)
  BY <1>4, <1>8
<1>12. \A s \in Nat : IsRoom(s, busy, range, length)
           => \E x \in FreeSlots(busy, range, length) : x <= s
  BY <1>4, <1>9
<1> QED BY <1>10, <1>11, <1>12 DEF range

-----------------------------------------------------------------------------
(* The schedule *)

\* The values of a function on a finite set.
LEMMA ValuesAreFinite ==
    ASSUME NEW S, IsFiniteSet(S), NEW f
    PROVE  IsFiniteSet({f[x] : x \in S})
<1> DEFINE T == {f[x] : x \in S}
           g == [x \in S |-> f[x]]
<1>1. g \in Surjection(S, T)
  BY DEF Surjection
<1> HIDE DEF g
<1> QED BY <1>1, FS_Surjection

\* What is busy are finitely many intervals.
LEMMA BusyIsFinite ==
    ASSUME ScheduleOK, NEW ts
    PROVE  Busy(ts) \in SUBSET Interval /\ IsFiniteSet(Busy(ts))
<1> DEFINE own == {u \in Task \ ts : tasks[u].state = "active" /\ tasks[u].slot # NoSpan}
           At == [e \in events |-> e.at]
           SlotOf == [t \in Task |-> tasks[t].slot]
<1>1. EventSpans \in SUBSET Interval
  BY DEF ScheduleOK, Event, EventSpans
<1>2. PlannedBut(tasks, ts) \in SUBSET Interval
  BY DEF ScheduleOK, TaskRow, PlannedBut
<1>3. IsFiniteSet(EventSpans)
  <2>1. EventSpans = {At[e] : e \in events}
    BY DEF EventSpans
  <2>2. IsFiniteSet(events)
    BY DEF ScheduleOK
  <2> HIDE DEF At
  <2> QED BY <2>1, <2>2, ValuesAreFinite
<1>4. IsFiniteSet(PlannedBut(tasks, ts))
  <2>1. PlannedBut(tasks, ts) = {SlotOf[t] : t \in own}
    BY DEF PlannedBut
  <2>2. IsFiniteSet(own)
    BY PlannerAssumption, FS_Subset
  <2> HIDE DEF SlotOf, own
  <2> QED BY <2>1, <2>2, ValuesAreFinite
<1>5. IsFiniteSet(EventSpans \union PlannedBut(tasks, ts))
  BY <1>3, <1>4, FS_Union
<1> QED BY <1>1, <1>2, <1>5 DEF Busy

\* What starts at a number overlaps no interval that is not there.
LEMMA NothingIsThere ==
    ASSUME NEW i \in Interval
    PROVE  ~Overlap(i, NoSpan)
BY DEF Interval, Overlap, NoSpan, Span

\* A slot of Busy is free of events and of the tasks that are not left out.
LEMMA ClearOfBusy ==
    ASSUME ScheduleOK, NEW ts, NEW i \in Interval, Clear(i, Busy(ts))
    PROVE  /\ Clear(i, EventSpans)
           /\ \A t \in Task \ ts : tasks[t].state = "active" => ~Overlap(i, tasks[t].slot)
<1>1. Clear(i, EventSpans) /\ Clear(i, PlannedBut(tasks, ts))
  BY DEF Busy, Clear
<1>2. ASSUME NEW t \in Task \ ts, tasks[t].state = "active" PROVE ~Overlap(i, tasks[t].slot)
  <2>1. CASE tasks[t].slot = NoSpan
    BY <2>1, NothingIsThere
  <2>2. CASE tasks[t].slot # NoSpan
    <3>1. tasks[t].slot \in PlannedBut(tasks, ts)
      BY <1>2, <2>2 DEF PlannedBut
    <3> QED BY <1>1, <3>1 DEF Clear
  <2> QED BY <2>1, <2>2
<1> QED BY <1>1, <1>2

\* find_free_slots offers room, and as early as there is some.
LEMMA SlotsAreRoom ==
    ASSUME ScheduleOK
    PROVE  SlotsAreTheRoom
<1> SUFFICES ASSUME NEW range \in RangeChoices, NEW length \in 1..(WorkEnd - WorkStart)
             PROVE  LET room == {s \in range.start..range.end :
                                    /\ s + length <= range.end
                                    /\ InWorkHours(Span(s, s + length))
                                    /\ Clear(Span(s, s + length), Busy({}))}
                        slots == FreeSlots(Busy({}), range, length)
                    IN /\ slots \subseteq room
                       /\ room # {} => slots # {} /\ Min(slots) = Min(room)
  BY DEF SlotsAreTheRoom
<1> DEFINE room == {s \in range.start..range.end :
                       /\ s + length <= range.end
                       /\ InWorkHours(Span(s, s + length))
                       /\ Clear(Span(s, s + length), Busy({}))}
           slots == FreeSlots(Busy({}), range, length)
<1>1. /\ range.start \in Nat /\ range.end \in Nat /\ range = Span(range.start, range.end)
      /\ length \in Nat \ {0}
  <2>1. range \in Interval
    BY PlanningAssumption
  <2>2. WorkEnd \in Nat /\ WorkStart \in Nat
    BY PlannerAssumption
  <2> QED BY <2>1, <2>2 DEF Interval, Span
<1>2. Busy({}) \in SUBSET Interval /\ IsFiniteSet(Busy({}))
  BY BusyIsFinite
<1>3. /\ slots \in SUBSET Nat
      /\ \A s \in slots : IsRoom(s, Busy({}), range, length)
      /\ \A s \in Nat : IsRoom(s, Busy({}), range, length) => \E x \in slots : x <= s
  BY <1>1, <1>2, FreeSlotsAreRoom
<1>4. ASSUME NEW s \in Nat PROVE s \in room <=> IsRoom(s, Busy({}), range, length)
  BY <1>1 DEF IsRoom
<1>5. room \in SUBSET Nat
  BY <1>1
<1> HIDE DEF room, slots
<1>6. slots \subseteq room
  BY <1>3, <1>4
<1>7. ASSUME room # {} PROVE slots # {} /\ Min(slots) = Min(room)
  <2>1. Min(room) \in room /\ \A x \in room : Min(room) <= x
    BY <1>5, <1>7, MinOfNaturals
  <2>2. PICK x \in slots : x <= Min(room)
    BY <1>3, <1>4, <1>5, <2>1
  <2>3. Min(slots) \in slots /\ \A y \in slots : Min(slots) <= y
    BY <1>3, <2>2, MinOfNaturals
  <2>4. Min(slots) <= x /\ Min(room) <= Min(slots)
    BY <1>6, <2>1, <2>2, <2>3
  <2>5. Min(room) \in Nat /\ Min(slots) \in Nat /\ x \in Nat
    BY <1>3, <1>5, <2>1, <2>2, <2>3
  <2> QED BY <2>2, <2>4, <2>5
<1> QED BY <1>6, <1>7 DEF room, slots

-----------------------------------------------------------------------------
(* Items of plans *)

\* A finite set of numbers has a largest element.
LEMMA MaxOfFinite ==
    ASSUME NEW T \in SUBSET Int, IsFiniteSet(T), T # {}
    PROVE  Max(T) \in T /\ \A x \in T : x <= Max(T)
<1> DEFINE Above(x) == {y \in T : y > x}
           counts == {Cardinality(Above(x)) : x \in T}
<1>1. ASSUME NEW x \in T PROVE IsFiniteSet(Above(x)) /\ Cardinality(Above(x)) \in Nat
  <2>1. IsFiniteSet(Above(x))
    BY FS_Subset
  <2> QED BY <2>1, FS_CardinalityType
<1>2. counts \in SUBSET Nat /\ counts # {}
  BY <1>1
<1>3. PICK c \in counts : \A k \in counts : c <= k
  <2> HIDE DEF counts
  <2> QED BY <1>2, LeastNumber
<1>4. PICK m \in T : \A x \in T : Cardinality(Above(m)) <= Cardinality(Above(x))
  BY <1>3
<1>5. ASSUME NEW x \in T, x > m PROVE FALSE
  <2>1. Above(x) \in SUBSET Above(m) /\ x \in Above(m) /\ x \notin Above(x)
    <3>1. m \in Int /\ x \in Int /\ x > m
      BY <1>5
    <3>2. ASSUME NEW y \in T, y > x PROVE y > m
      <4>1. y \in Int
        OBVIOUS
      <4> QED BY <3>1, <3>2, <4>1
    <3>3. Above(x) \in SUBSET Above(m)
      BY <3>2
    <3>4. x \in Above(m)
      BY <3>1
    <3>5. x \notin Above(x)
      BY <3>1
    <3> QED BY <3>3, <3>4, <3>5
  <2> HIDE DEF Above
  <2>2. /\ Cardinality(Above(x)) <= Cardinality(Above(m))
        /\ Cardinality(Above(m)) = Cardinality(Above(x)) => Above(m) = Above(x)
    BY <1>1, <2>1, FS_Subset
  <2>3. Cardinality(Above(m)) <= Cardinality(Above(x))
    BY <1>4
  <2>4. Cardinality(Above(m)) \in Nat /\ Cardinality(Above(x)) \in Nat
    BY <1>1
  <2> QED BY <2>1, <2>2, <2>3, <2>4
<1>6. \A x \in T : m >= x
  BY <1>5
<1>7. \E k \in T : \A x \in T : k >= x
  BY <1>6
<1>8. Max(T) \in T /\ \A x \in T : Max(T) >= x
  BY <1>7 DEF Max
<1> QED BY <1>8

\* _choose_slot takes one of the slots.
LEMMA ChooseIsSlot ==
    ASSUME NEW slots \in SUBSET Nat, slots # {}, NEW preferred \in Nat \union {NoTime}
    PROVE  Choose(slots, preferred) \in slots
<1> DEFINE Distance(s) == IF s < preferred THEN preferred - s ELSE s - preferred
           distances == {Distance(s) : s \in slots}
           nearest == {s \in slots : \A o \in slots : Distance(s) <= Distance(o)}
<1>1. CASE preferred = NoTime
  <2>1. Choose(slots, preferred) = Min(slots)
    BY <1>1 DEF Choose
  <2> QED BY <2>1, MinOfNaturals
<1>2. CASE preferred # NoTime
  <2>1. preferred \in Nat
    BY <1>2
  <2>2. distances \in SUBSET Nat /\ distances # {}
    BY <2>1
  <2>3. PICK n \in distances : \A k \in distances : n <= k
    <3> HIDE DEF distances
    <3> QED BY <2>2, LeastNumber
  <2>4. nearest \in SUBSET Nat /\ nearest # {}
    <3>1. PICK s \in slots : n = Distance(s)
      OBVIOUS
    <3>2. \A o \in slots : Distance(o) \in distances
      OBVIOUS
    <3> HIDE DEF Distance, distances
    <3>3. \A o \in slots : Distance(s) <= Distance(o)
      BY <2>3, <3>1, <3>2
    <3>4. s \in nearest
      BY <3>3
    <3> QED BY <3>4
  <2>5. Choose(slots, preferred) = Min(nearest)
    BY <1>2 DEF Choose
  <2>6. nearest \subseteq slots
    OBVIOUS
  <2> HIDE DEF nearest
  <2>7. Min(nearest) \in nearest
    BY <2>4, MinOfNaturals
  <2> QED BY <2>5, <2>6, <2>7
<1> QED BY <1>1, <1>2

UnitsOfItem(i) == {<<i, m>> : m \in i.at.start..(i.at.end - 1)}

\* An item takes as many minutes as its interval is long.
LEMMA UnitsOfOne ==
    ASSUME NEW i \in Item
    PROVE  /\ IsFiniteSet(UnitsOfItem(i))
           /\ Cardinality(UnitsOfItem(i)) = i.at.end - i.at.start
<1> DEFINE a == i.at.start
           b == i.at.end
           f == [m \in a..(b - 1) |-> <<i, m>>]
<1>1. a \in Nat /\ b \in Nat /\ a <= b
  BY DEF Item, Interval
<1> HIDE DEF a, b
<1>2. IsFiniteSet(a..(b - 1)) /\ Cardinality(a..(b - 1)) = b - a
  <2>1. IsFiniteSet(a..(b - 1)) /\ Cardinality(a..(b - 1))
            = IF a > b - 1 THEN 0 ELSE (b - 1) - a + 1
    BY <1>1, FS_Interval
  <2> QED BY <1>1, <2>1
<1>3. f \in Bijection(a..(b - 1), UnitsOfItem(i))
  BY DEF Bijection, Injection, IsInjective, Surjection, UnitsOfItem, a, b
<1> HIDE DEF f
<1>4. IsFiniteSet(UnitsOfItem(i)) /\ Cardinality(UnitsOfItem(i)) = Cardinality(a..(b - 1))
  <2>1. ExistsBijection(a..(b - 1), UnitsOfItem(i))
    BY <1>3 DEF ExistsBijection
  <2> QED BY <1>2, <2>1, FS_Bijection
<1> QED BY <1>2, <1>4 DEF a, b

\* The minutes of finitely many items.
LEMMA UnitsAreFinite ==
    ASSUME NEW items \in SUBSET Item, IsFiniteSet(items)
    PROVE  IsFiniteSet(UnitsOf(items)) /\ Minutes(items) \in Nat
<1> DEFINE units == [i \in items |-> UnitsOfItem(i)]
<1>1. IsFiniteSet({units[i] : i \in items})
  <2> HIDE DEF units
  <2> QED BY ValuesAreFinite
<1>2. \A S \in {units[i] : i \in items} : IsFiniteSet(S)
  BY UnitsOfOne
<1>3. UnitsOf(items) = UNION {units[i] : i \in items}
  BY DEF UnitsOf, UnitsOfItem
<1> HIDE DEF units
<1>4. IsFiniteSet(UnitsOf(items))
  BY <1>1, <1>2, <1>3, FS_UNION
<1> QED BY <1>4, FS_CardinalityType DEF Minutes

\* The minutes of one item.
LEMMA MinutesOfOne ==
    ASSUME NEW i \in Item
    PROVE  Minutes({i}) = i.at.end - i.at.start
<1>1. UnitsOf({i}) = UnitsOfItem(i)
  BY DEF UnitsOf, UnitsOfItem
<1> QED BY <1>1, UnitsOfOne DEF Minutes

\* An item adds at most the minutes it takes.
LEMMA MinutesAdd ==
    ASSUME NEW items \in SUBSET Item, IsFiniteSet(items), NEW i \in Item
    PROVE  Minutes(items \union {i}) <= Minutes(items) + (i.at.end - i.at.start)
<1> DEFINE A == UnitsOf(items)
           B == UnitsOfItem(i)
<1>1. UnitsOf(items \union {i}) = A \union B
  BY DEF UnitsOf, UnitsOfItem
<1>2. IsFiniteSet(A) /\ IsFiniteSet(B) /\ Cardinality(B) = i.at.end - i.at.start
  BY UnitsAreFinite, UnitsOfOne
<1> HIDE DEF A, B
<1>3. Cardinality(A \union B) = Cardinality(A) + Cardinality(B) - Cardinality(A \cap B)
  BY <1>2, FS_Union
<1>4. IsFiniteSet(A \cap B)
  BY <1>2, FS_Subset
<1>5. Cardinality(A \cap B) \in Nat /\ Cardinality(A) \in Nat /\ Cardinality(B) \in Nat
  BY <1>2, <1>4, FS_CardinalityType
<1>6. Cardinality(A \union B) <= Cardinality(A) + Cardinality(B)
  BY <1>3, <1>5
<1> QED BY <1>1, <1>2, <1>6 DEF Minutes, A

\* An item without an interval changes nothing of what makes a plan feasible.
LEMMA UnplacedIsFeasible ==
    ASSUME NEW items, Feasible(items), NEW i, i.state = "unplaced"
    PROVE  Feasible(items \union {i})
<1>1. PlacedOf(items \union {i}) = PlacedOf(items)
  BY DEF PlacedOf
<1> QED BY <1>1 DEF Feasible, WithinDailyLimit, DaysOf, MinutesOn, PlacedOn, Reserved,
                    ItemsAreApart

\* _build_plan_items makes items, with their buffers around them.
LEMMA PlacedIsItem ==
    ASSUME NEW t \in Task, NEW version \in Nat, NEW s \in Nat, NEW minutes \in Nat
    PROVE  LET i == Placed(t, version, s, minutes)
           IN /\ i \in Item /\ i.state = "placed" /\ i.task = t /\ i.version = version
              /\ i.at = Span(s + Before[t], s + Before[t] + minutes)
              /\ i.reserved = Span(s, s + Length(t, minutes))
              /\ s + Length(t, minutes) = s + Before[t] + minutes + After[t]
<1> DEFINE i == Placed(t, version, s, minutes)
           a == s + Before[t]
<1>1. Before[t] \in Nat /\ After[t] \in Nat /\ a \in Nat /\ s <= a
  BY PlannerAssumption
<1>2. s + Length(t, minutes) = a + minutes + After[t]
  BY <1>1 DEF Length
<1>3. /\ i.task = t /\ i.version = version /\ i.state = "placed" /\ i.locked = FALSE
      /\ i.at = Span(a, a + minutes) /\ i.reserved = Span(s, a + minutes + After[t])
      /\ i \in [task : Task, version : Nat, state : {"placed", "unplaced"},
                locked : BOOLEAN, at : {i.at}, reserved : {i.reserved}]
  BY DEF Placed
<1> HIDE DEF i, a
<1>4. i.at \in Interval /\ i.reserved \in Interval
  <2>1. a + minutes \in Nat /\ a <= a + minutes
        /\ a + minutes + After[t] \in Nat /\ s <= a + minutes + After[t]
    BY <1>1
  <2> QED BY <1>1, <1>3, <2>1, SpanIsInterval
<1>5. i.reserved.start <= i.at.start /\ i.at.end <= i.reserved.end
  BY <1>1, <1>3 DEF Span
<1>6. i \in Item
  BY <1>3, <1>4, <1>5 DEF Item
<1> QED BY <1>2, <1>3, <1>6 DEF i, a

\* An item that is placed on an available slot within the hours of work.
LEMMA PlacedIsFeasible ==
    ASSUME NEW items \in SUBSET Item, IsFiniteSet(items), Feasible(items),
           NEW t \in Task, NEW version \in Nat, NEW s \in Nat, NEW minutes \in Nat \ {0},
           Clear(Span(s, s + Length(t, minutes)), Reserved(items)),
           InWorkHours(Span(s, s + Length(t, minutes))),
           MinutesOn(items, Day(s)) + minutes <= DailyLimit
    PROVE  Feasible(items \union {Placed(t, version, s, minutes)})
<1> DEFINE i == Placed(t, version, s, minutes)
           all == items \union {i}
           end == s + Length(t, minutes)
<1>1. /\ i \in Item /\ i.state = "placed"
      /\ i.at = Span(s + Before[t], s + Before[t] + minutes)
      /\ i.reserved = Span(s, end) /\ end = s + Before[t] + minutes + After[t]
  BY PlacedIsItem
<1>2. Before[t] \in Nat /\ After[t] \in Nat /\ DailyLimit \in Nat
  BY PlannerAssumption
<1> HIDE DEF i, end
<1>3. PlacedOf(all) = PlacedOf(items) \union {i}
  BY <1>1 DEF PlacedOf
<1>4. ItemsAreApart(all)
  <2>1. ASSUME NEW j \in PlacedOf(items) PROVE ~Overlap(i.reserved, j.reserved)
    BY <1>1 DEF Clear, Reserved, end
  <2>2. ASSUME NEW j \in PlacedOf(items) PROVE ~Overlap(j.reserved, i.reserved)
    <3>1. j.reserved \in Interval /\ i.reserved \in Interval
      BY <1>1 DEF PlacedOf, Item
    <3> QED BY <2>1, <3>1 DEF Overlap, Interval
  <2>3. ItemsAreApart(items)
    BY DEF Feasible
  <2> QED BY <1>3, <2>1, <2>2, <2>3 DEF ItemsAreApart
<1>5. \A r \in Reserved(all) : InWorkHours(r)
  <2>1. \A r \in Reserved(items) : InWorkHours(r)
    BY DEF Feasible
  <2>2. InWorkHours(i.reserved)
    BY <1>1 DEF end
  <2> QED BY <1>3, <2>1, <2>2 DEF Reserved
<1>6. Day(i.at.start) = Day(s)
  <2> DEFINE d == Day(s) * DayLength
  <2>1. i.at.start = s + Before[t]
    BY <1>1 DEF Span
  <2>2. end <= d + WorkEnd /\ d <= s
    BY DayBounds DEF InWorkHours, Span, end
  <2>3. Day(s) \in Int /\ d \in Int /\ WorkEnd \in Nat /\ WorkEnd <= DayLength /\ DayLength \in Nat
    <3>1. WorkEnd \in Nat /\ WorkEnd <= DayLength /\ DayLength \in Nat
      BY PlannerAssumption
    <3> QED BY <3>1, DayBounds
  <2>4. d <= s + Before[t] /\ s + Before[t] < d + DayLength
    <3> HIDE DEF d
    <3> QED BY <1>1, <1>2, <2>2, <2>3
  <2> QED BY <1>2, <2>1, <2>3, <2>4, DayIsUnique
<1>7. WithinDailyLimit(all)
  <2> SUFFICES ASSUME NEW d \in DaysOf(all) PROVE MinutesOn(all, d) <= DailyLimit
    BY DEF WithinDailyLimit
  <2>1. CASE d = Day(s)
    <3>1. PlacedOn(all, d) = PlacedOn(items, d) \union {i}
      BY <1>3, <1>6, <2>1 DEF PlacedOn
    <3>2. PlacedOn(items, d) \in SUBSET Item /\ IsFiniteSet(PlacedOn(items, d))
      <4>1. PlacedOn(items, d) \in SUBSET items
        BY DEF PlacedOn, PlacedOf
      <4> QED BY <4>1, FS_Subset
    <3>3. Minutes(PlacedOn(all, d))
              <= Minutes(PlacedOn(items, d)) + (i.at.end - i.at.start)
      BY <1>1, <3>1, <3>2, MinutesAdd
    <3>4. i.at.end - i.at.start = minutes
      BY <1>1, <1>2 DEF Span
    <3>5. Minutes(PlacedOn(items, d)) \in Nat
      BY <3>2, UnitsAreFinite
    <3>6. IsFiniteSet(PlacedOn(all, d)) /\ PlacedOn(all, d) \in SUBSET Item
      <4>1. IsFiniteSet(PlacedOn(items, d) \union {i})
        BY <3>2, FS_AddElement
      <4>2. PlacedOn(items, d) \union {i} \in SUBSET Item
        BY <1>1, <3>2
      <4> QED BY <3>1, <4>1, <4>2
    <3>7. Minutes(PlacedOn(all, d)) \in Nat
      BY <3>6, UnitsAreFinite
    <3> QED BY <1>2, <2>1, <3>3, <3>4, <3>5, <3>7 DEF MinutesOn
  <2>2. CASE d # Day(s)
    <3>1. PlacedOn(all, d) = PlacedOn(items, d)
      BY <1>3, <1>6, <2>2 DEF PlacedOn
    <3>2. d \in DaysOf(items)
      BY <1>3, <1>6, <2>2 DEF DaysOf
    <3> QED BY <3>1, <3>2 DEF MinutesOn, Feasible, WithinDailyLimit
  <2> QED BY <2>1, <2>2
<1> QED BY <1>4, <1>5, <1>7 DEF Feasible, i

\* What a draft is built from: items that are feasible together.
Sound(items) == items \in SUBSET Item /\ IsFiniteSet(items) /\ Feasible(items)

\* Slots that are room for a task, of which all or a part is to be placed.
Usable(slots, t, minutes, busy, from, to) ==
    /\ slots \in SUBSET Nat
    /\ \A s \in slots : IsRoom(s, busy, Span(from, to), Length(t, minutes))

\* An item that is placed, with its buffers, where there is room.
InWindow(i, busy, from, to) ==
    /\ i.state = "placed" /\ i.at.start < i.at.end
    /\ from <= i.reserved.start /\ i.reserved.end <= to
    /\ Clear(i.reserved, busy)

\* An item of a task that takes so many minutes and goes with the items before it.
GoesWith(i, t, version, minutes, items, busy, from, to) ==
    /\ i \in Item /\ i.task = t /\ i.version = version /\ Minutes({i}) = minutes
    /\ Sound(items \union {i})
    /\ InWindow(i, busy, from, to)

\* A task on a slot that is available goes with the items before it.
LEMMA AvailableIsSound ==
    ASSUME NEW items, Sound(items), NEW t \in Task, NEW version \in Nat,
           NEW minutes \in Nat \ {0}, NEW busy, NEW from, NEW to,
           NEW slots, Usable(slots, t, minutes, busy, from, to),
           NEW s \in Available(slots, Length(t, minutes), minutes, items)
    PROVE  GoesWith(Placed(t, version, s, minutes), t, version, minutes, items, busy, from, to)
<1> DEFINE i == Placed(t, version, s, minutes)
           end == s + Length(t, minutes)
<1>1. /\ s \in Nat /\ InWorkHours(Span(s, end))
      /\ from <= s /\ end <= to /\ Clear(Span(s, end), busy)
  BY DEF Available, Usable, IsRoom, Span
<1>2. /\ Clear(Span(s, end), Reserved(items))
      /\ MinutesOn(items, Day(s)) + minutes <= DailyLimit
  BY DEF Available
<1>3. /\ i \in Item /\ i.state = "placed" /\ i.task = t /\ i.version = version
      /\ i.at = Span(s + Before[t], s + Before[t] + minutes) /\ i.reserved = Span(s, end)
  BY <1>1, PlacedIsItem
<1>4. Feasible(items \union {i})
  BY <1>1, <1>2, PlacedIsFeasible DEF Sound
<1> HIDE DEF i, end
<1>5. IsFiniteSet(items \union {i})
  BY FS_AddElement DEF Sound
<1>6. InWindow(i, busy, from, to)
  <2>1. Before[t] \in Nat
    BY PlannerAssumption
  <2>2. i.at.start < i.at.end
    BY <1>1, <1>3, <2>1 DEF Span
  <2>3. i.reserved.start = s /\ i.reserved.end = end
    BY <1>3 DEF Span
  <2> QED BY <1>1, <1>3, <2>2, <2>3 DEF InWindow
<1>7. Minutes({i}) = minutes
  <2>1. Before[t] \in Nat
    BY PlannerAssumption
  <2>2. i.at.end - i.at.start = minutes
    BY <1>1, <1>3, <2>1 DEF Span
  <2> QED BY <1>3, <2>2, MinutesOfOne
<1>8. Sound(items \union {i})
  BY <1>3, <1>4, <1>5 DEF Sound
<1>9. GoesWith(i, t, version, minutes, items, busy, from, to)
  BY <1>3, <1>6, <1>7, <1>8 DEF GoesWith
<1> QED BY <1>9 DEF i

\* A task takes some time, with its buffers.
LEMMA LengthIsPositive ==
    ASSUME NEW t \in Task, NEW minutes \in Nat \ {0}
    PROVE  Length(t, minutes) \in Nat \ {0}
<1>1. Before[t] \in Nat /\ After[t] \in Nat
  BY PlannerAssumption
<1> QED BY <1>1 DEF Length

\* The slots of find_free_slots are room.
LEMMA FreeSlotsAreUsable ==
    ASSUME NEW busy \in SUBSET Interval, IsFiniteSet(busy), NEW from \in Int, NEW to \in Int,
           NEW t \in Task, NEW minutes \in Nat \ {0}
    PROVE  Usable(FreeSlots(busy, Span(from, to), Length(t, minutes)), t, minutes,
                  busy, from, to)
BY LengthIsPositive, FreeSlotsAreRoom DEF Usable

\* The items of a task, which go with the items before it.
SegmentsOf(made, t, version, items) ==
    /\ made \in SUBSET Item /\ IsFiniteSet(made)
    /\ \A i \in made : i.task = t /\ i.version = version
    /\ Sound(items \union made)

\* The segments of a task that are made so far.
SegmentsIn(made, t, version, items, busy, from, to) ==
    /\ SegmentsOf(made, t, version, items)
    /\ \A i \in made : InWindow(i, busy, from, to)

\* Another segment goes with those made so far.
LEMMA NextSegmentIsSound ==
    ASSUME NEW t \in Task, NEW version \in Nat,
           NEW busy \in SUBSET Interval, IsFiniteSet(busy), NEW from \in Int, NEW to \in Int,
           NEW preferred \in Nat \union {NoTime}, NEW items, NEW made,
           SegmentsIn(made, t, version, items, busy, from, to)
    PROVE  SegmentsIn(NextSegment(t, version, busy, Span(from, to), preferred, items, made),
                      t, version, items, busy, from, to)
<1> DEFINE left == Duration[t] - Minutes(made)
           least == Min({Duration[t], MinChunk[t]})
           SlotsFor(s) == ChunkSlots(t, s, busy, Span(from, to), items \union made)
           sizes == {s \in ChunkSizes(t, left) : SlotsFor(s) # {}}
           size == Max(sizes)
           slots == SlotsFor(size)
           wanted == IF made = {} THEN preferred ELSE NoTime
           new == Placed(t, version, Choose(slots, wanted), size)
<1>1. Minutes(made) \in Nat /\ left \in Int /\ least \in Nat \ {0}
  <2>1. Duration[t] \in Nat \ {0} /\ MinChunk[t] \in Nat \ {0}
    BY PlannerAssumption
  <2>2. Minutes(made) \in Nat
    BY UnitsAreFinite DEF SegmentsIn, SegmentsOf
  <2>3. Min({Duration[t], MinChunk[t]}) \in Nat \ {0}
    <3>1. Min({Duration[t], MinChunk[t]})
              = IF Duration[t] <= MinChunk[t] THEN Duration[t] ELSE MinChunk[t]
      BY <2>1, MinOfTwo
    <3> QED BY <2>1, <3>1
  <2> QED BY <2>1, <2>2, <2>3
<1>2. CASE Minutes(made) = Duration[t] \/ sizes = {}
  BY <1>2 DEF NextSegment
<1>3. CASE ~(Minutes(made) = Duration[t] \/ sizes = {})
  <2>1. NextSegment(t, version, busy, Span(from, to), preferred, items, made)
            = made \union {new}
    BY <1>3 DEF NextSegment
  <2>2. sizes \in SUBSET (least..left)
    BY DEF ChunkSizes
  <2>3. \A s \in sizes : SlotsFor(s) # {}
    OBVIOUS
  <2> HIDE DEF left, least, SlotsFor, sizes
  <2>4. IsFiniteSet(sizes) /\ sizes \in SUBSET Int
    <3>1. IsFiniteSet(least..left)
      BY <1>1, FS_Interval
    <3>2. IsFiniteSet(sizes)
      BY <2>2, <3>1, FS_Subset
    <3> QED BY <2>2, <3>2
  <2>5. size \in sizes
    BY <1>3, <2>4, MaxOfFinite
  <2>6. size \in Nat \ {0} /\ slots # {}
    <3>1. size \in least..left /\ SlotsFor(size) # {}
      BY <2>2, <2>3, <2>5
    <3> HIDE DEF size
    <3> QED BY <1>1, <3>1
  <2> HIDE DEF size
  <2> DEFINE free == FreeSlots(busy, Span(from, to), Length(t, size))
  <2>7. slots = Available(free, Length(t, size), size, items \union made)
    BY DEF SlotsFor, ChunkSlots
  <2>8. Usable(free, t, size, busy, from, to)
    BY <2>6, FreeSlotsAreUsable
  <2> HIDE DEF free, slots
  <2>9. slots \in SUBSET Nat
    BY <2>7, <2>8 DEF Available, Usable
  <2>10. Choose(slots, wanted) \in slots
    <3>1. wanted \in Nat \union {NoTime}
      OBVIOUS
    <3> HIDE DEF wanted
    <3> QED BY <2>6, <2>9, <3>1, ChooseIsSlot
  <2> DEFINE s == Choose(slots, wanted)
  <2>11. s \in Available(free, Length(t, size), size, items \union made)
    BY <2>7, <2>10
  <2> HIDE DEF s
  <2>12. Sound(items \union made)
    BY DEF SegmentsIn, SegmentsOf
  <2>13. PICK before : before = items \union made
    OBVIOUS
  <2>14. GoesWith(Placed(t, version, s, size), t, version, size, before, busy, from, to)
    BY <2>6, <2>8, <2>11, <2>12, <2>13, AvailableIsSound
  <2>15. /\ new \in Item /\ new.task = t /\ new.version = version
         /\ Sound((items \union made) \union {new}) /\ InWindow(new, busy, from, to)
    BY <2>13, <2>14 DEF GoesWith, s
  <2> HIDE DEF new
  <2>16. IsFiniteSet(made \union {new})
    BY FS_AddElement DEF SegmentsIn, SegmentsOf
  <2>17. (items \union made) \union {new} = items \union (made \union {new})
    OBVIOUS
  <2>18. Sound(items \union (made \union {new}))
    BY <2>15, <2>17
  <2>19. made \union {new} \in SUBSET Item
    BY <2>15 DEF SegmentsIn, SegmentsOf
  <2>20. \A i \in made \union {new} : i.task = t /\ i.version = version
    BY <2>15 DEF SegmentsIn, SegmentsOf
  <2>21. SegmentsOf(made \union {new}, t, version, items)
    BY <2>16, <2>18, <2>19, <2>20 DEF SegmentsOf
  <2>22. \A i \in made \union {new} : InWindow(i, busy, from, to)
    BY <2>15 DEF SegmentsIn
  <2> QED BY <2>1, <2>21, <2>22 DEF SegmentsIn
<1> QED BY <1>2, <1>3

\* All that _build_split_items makes of a task.
LEMMA SegmentsAreSound ==
    ASSUME NEW t \in Task, NEW version \in Nat,
           NEW busy \in SUBSET Interval, IsFiniteSet(busy), NEW from \in Int, NEW to \in Int,
           NEW preferred \in Nat \union {NoTime}, NEW items, Sound(items)
    PROVE  SegmentsIn(SplitItems(t, version, busy, Span(from, to), preferred, items),
                      t, version, items, busy, from, to)
<1> DEFINE N == Duration[t]
           Made == {made \in SUBSET Item : SegmentsIn(made, t, version, items, busy, from, to)}
           Grown(x) == NextSegment(t, version, busy, Span(from, to), preferred, items, x)
           step == [p \in (1..N) \X Made |-> Grown(p[2])]
<1>1. N \in Nat
  BY PlannerAssumption
<1>2. ASSUME NEW x \in Made PROVE Grown(x) \in Made
  <2>1. SegmentsIn(x, t, version, items, busy, from, to)
    OBVIOUS
  <2>2. SegmentsIn(Grown(x), t, version, items, busy, from, to)
    BY <2>1, NextSegmentIsSound
  <2> HIDE DEF Grown
  <2> QED BY <2>2 DEF SegmentsIn, SegmentsOf
<1>3. SegmentsIn({}, t, version, items, busy, from, to)
  <2>1. items \union {} = items
    OBVIOUS
  <2> QED BY <2>1, FS_EmptySet DEF SegmentsIn, SegmentsOf
<1>4. {} \in Made
  BY <1>3
<1> HIDE DEF N, Made, Grown
<1>5. \A n \in 1..N, x \in Made : step[<<n, x>>] = Grown(x)
  OBVIOUS
<1> HIDE DEF step
<1>6. Stepwise(N, Made, {}, step)
  BY <1>1, <1>2, <1>4, <1>5 DEF Stepwise
<1>7. PICK f : Follows(f, N, Made, {}, step)
  BY <1>6, RecursionExists
<1>8. f = [n \in 0..N |-> IF n = 0 THEN {} ELSE Grown(f[n - 1])]
  <2>1. ASSUME NEW n \in 1..N PROVE f[n] = Grown(f[n - 1])
    <3>1. f[n - 1] \in Made /\ f[n] = step[<<n, f[n - 1]>>]
      BY <1>1, <1>7 DEF Follows
    <3> QED BY <1>5, <3>1
  <2> QED BY <1>1, <1>7, <2>1 DEF Follows
<1> PICK F : F = Segments(t, version, busy, Span(from, to), preferred, items)
  OBVIOUS
<1>9. F = [n \in 0..N |-> IF n = 0 THEN {} ELSE Grown(F[n - 1])]
  BY <1>8 DEF Segments, N, Grown
<1>10. Obeys(F, N, Made, {}, step)
  <2>1. 0 \in 0..N /\ \A n \in 1..N : n \in 0..N /\ n # 0
    BY <1>1
  <2>2. F[0] = {}
    BY <1>9, <2>1
  <2>3. \A n \in 1..N : F[n] = Grown(F[n - 1])
    BY <1>9, <2>1
  <2> QED BY <1>5, <2>2, <2>3 DEF Obeys
<1>11. F[N] \in Made
  <2>1. \A n \in 0..N : F[n] \in Made
    BY <1>6, <1>10, RecursionStays
  <2> QED BY <1>1, <2>1
<1>12. SegmentsIn(F[N], t, version, items, busy, from, to)
  BY <1>11 DEF Made
<1> QED BY <1>3, <1>12 DEF SplitItems, N

\* What a plan asks of a task, and what of it bounds the task's interval.
LEMMA EndsAreTimes ==
    ASSUME NEW items \in SUBSET Item, IsFiniteSet(items), NEW t \in Task
    PROVE  EndOf(items, t) \in Int
<1> DEFINE own == ItemsOf(items, {t})
           ends == {i.at.end : i \in own}
           EndAt == [i \in items |-> i.at.end]
<1>1. own \in SUBSET items /\ own \in SUBSET Item
  BY DEF ItemsOf
<1>2. IsFiniteSet(own)
  BY <1>1, FS_Subset
<1>3. ends = {EndAt[i] : i \in own}
  BY <1>1
<1>4. IsFiniteSet({EndAt[i] : i \in own})
  <2> HIDE DEF EndAt, own
  <2> QED BY <1>2, ValuesAreFinite
<1>5. ends \in SUBSET Int
  <2>1. ASSUME NEW i \in own PROVE i.at.end \in Int
    <3>1. i \in Item
      BY <1>1
    <3> QED BY <3>1 DEF Item, Interval
  <2> QED BY <2>1
<1>6. own # {} => ends # {}
  OBVIOUS
<1>7. own # {} => Max(ends) \in Int
  <2> HIDE DEF ends, EndAt, own
  <2>1. ASSUME own # {} PROVE Max(ends) \in ends
    BY <1>3, <1>4, <1>5, <1>6, <2>1, MaxOfFinite
  <2> QED BY <1>5, <2>1
<1>8. EndOf(items, t) = NoTime \/ (own # {} /\ EndOf(items, t) = Max(ends))
  BY DEF EndOf
<1> HIDE DEF ends, own
<1> QED BY <1>7, <1>8 DEF NoTime

\* An item keeps to the decision about its task, given the items before it.
AsDecided(i, d, busy, notBefore, items) ==
    /\ i.at.start < i.at.end /\ notBefore <= i.reserved.start
    /\ Clear(i.reserved, busy)
    /\ Due[i.task] # NoTime => i.at.end <= Due[i.task]
    /\ d.exact # NoTime => i.at.start = d.exact
    /\ d.earliest # NoTime => i.at.start >= d.earliest
    /\ d.latest # NoTime => i.at.end <= d.latest
    /\ \A p \in d.preds : /\ EndOf(items, p) # NoTime
                          /\ i.at.start >= EndOf(items, p) + d.gap * DayLength

\* What becomes of a task: all of it is placed, or one item says that it is not.
AllOrNothing(own, t) ==
    /\ own # {}
    /\ \A i \in own : i.state = "placed" \/ own = {i}
    /\ PlacedOf(own) # {} => Minutes(own) = Duration[t]

\* It goes with the items before it and is as decided.
FitsAsDecided(own, t, version, d, busy, notBefore, items) ==
    /\ SegmentsOf(own, t, version, items) /\ AllOrNothing(own, t)
    /\ \A i \in PlacedOf(own) : AsDecided(i, d, busy, notBefore, items)
    /\ d.exact # NoTime => \E i \in Item : own = {i}

\* One task of _build_plan_items.
LEMMA TaskItemsAreSound ==
    ASSUME NEW t \in Task, NEW version \in Nat, NEW d \in Decision,
           NEW busy \in SUBSET Interval, IsFiniteSet(busy), NEW range \in Interval,
           NEW notBefore \in Nat, NEW strategy, NEW items, Sound(items)
    PROVE  FitsAsDecided(TaskItems(t, version, d, busy, range, notBefore, strategy, items),
                         t, version, d, busy, notBefore, items)
<1> DEFINE length == Length(t, Duration[t])
           after == [p \in d.preds |-> EndOf(items, p) + d.gap * DayLength]
           starts == {range.start, notBefore} \union Given({d.earliest})
                     \union {EndOf(items, p) + d.gap * DayLength : p \in d.preds}
           ends == {range.end} \union Given({Due[t], d.latest})
           window == Span(Max(starts), Min(ends))
           exactly == Span(d.exact - Before[t], d.exact - Before[t] + length)
           slots == IF d.exact # NoTime
                    THEN {exactly.start} \intersect FreeSlots(busy, exactly, length)
                    ELSE FreeSlots(busy, window, length)
           free == Available(slots, length, Duration[t], items)
           new == Placed(t, version, Choose(free, d.preferred), Duration[t])
           split == SplitItems(t, version, busy, window, d.preferred, items)
           left == Unplaced(t, version)
<1>1. /\ Duration[t] \in Nat \ {0} /\ Before[t] \in Nat /\ DayLength \in Nat
      /\ Due[t] \in Nat \union {NoTime} /\ IsFiniteSet(Task)
  BY PlannerAssumption
<1>2. /\ d.exact \in Nat \union {NoTime} /\ d.earliest \in Nat \union {NoTime}
      /\ d.latest \in Nat \union {NoTime} /\ d.preferred \in Nat \union {NoTime}
      /\ d.preds \in SUBSET Task /\ d.gap \in Nat
  BY DEF Decision
<1>3. range.start \in Nat /\ range.end \in Nat
  BY DEF Interval
<1>4. length \in Nat \ {0}
  BY <1>1, LengthIsPositive
<1>5. items \in SUBSET Item /\ IsFiniteSet(items)
  BY DEF Sound
<1>6. Max(starts) \in Int /\ \A x \in starts : x <= Max(starts)
  <2>1. \A p \in d.preds : EndOf(items, p) + d.gap * DayLength \in Int
    <3> SUFFICES ASSUME NEW p \in d.preds PROVE EndOf(items, p) + d.gap * DayLength \in Int
      OBVIOUS
    <3>1. EndOf(items, p) \in Int
      BY <1>2, <1>5, EndsAreTimes
    <3>2. d.gap * DayLength \in Int
      BY <1>1, <1>2
    <3> QED BY <3>1, <3>2
  <2>2. IsFiniteSet({after[p] : p \in d.preds})
    <3>1. IsFiniteSet(d.preds)
      BY <1>1, <1>2, FS_Subset
    <3> HIDE DEF after
    <3> QED BY <3>1, ValuesAreFinite
  <2>3. starts = ({range.start, notBefore} \union Given({d.earliest}))
                 \union {after[p] : p \in d.preds}
    OBVIOUS
  <2>4. IsFiniteSet({range.start, notBefore} \union Given({d.earliest}))
    <3>1. IsFiniteSet({range.start, notBefore})
      <4>1. IsFiniteSet({range.start} \union {notBefore})
        BY FS_Singleton, FS_AddElement
      <4>2. {range.start, notBefore} = {range.start} \union {notBefore}
        OBVIOUS
      <4> QED BY <4>1, <4>2
    <3>2. IsFiniteSet({d.earliest}) /\ Given({d.earliest}) \in SUBSET {d.earliest}
      BY FS_Singleton DEF Given
    <3>3. IsFiniteSet(Given({d.earliest}))
      BY <3>2, FS_Subset
    <3> QED BY <3>1, <3>3, FS_Union
  <2>5. IsFiniteSet(starts)
    <3> HIDE DEF starts, after
    <3> QED BY <2>2, <2>3, <2>4, FS_Union
  <2>6. starts \in SUBSET Int /\ starts # {}
    BY <1>2, <1>3, <2>1 DEF Given
  <2> HIDE DEF starts
  <2>7. Max(starts) \in starts /\ \A x \in starts : x <= Max(starts)
    BY <2>5, <2>6, MaxOfFinite
  <2> QED BY <2>6, <2>7
<1>7. Min(ends) \in Int /\ \A x \in ends : Min(ends) <= x
  <2>1. ends \in SUBSET Nat /\ ends # {}
    BY <1>1, <1>2, <1>3 DEF Given
  <2> HIDE DEF ends
  <2>2. Min(ends) \in ends /\ \A x \in ends : Min(ends) <= x
    BY <2>1, MinOfNaturals
  <2>3. Min(ends) \in Nat
    BY <2>1, <2>2
  <2> QED BY <2>2, <2>3
<1> DEFINE from == Max(starts)
           to == Min(ends)
           own == TaskItems(t, version, d, busy, range, notBefore, strategy, items)
           may == /\ \A p \in d.preds : EndOf(items, p) # NoTime
                  /\ d.exact # NoTime => from <= exactly.start /\ exactly.end <= to
           Good(x) == FitsAsDecided(x, t, version, d, busy, notBefore, items)
<1>8. \/ own = {left}
      \/ may /\ free # {} /\ own = {new}
      \/ may /\ d.exact = NoTime /\ own = split /\ split # {}
  <2> HIDE DEF free, split, starts, ends
  <2>1. window.start = from /\ window.end = to
    BY DEF Span
  <2>2. exactly.start \in Int /\ exactly.end \in Int
    BY <1>1, <1>2, <1>4 DEF Span, NoTime
  <2> HIDE DEF exactly, window, new, left
  <2>3. own = IF \/ t \in PlanningLocked
                 \/ \E p \in d.preds : EndOf(items, p) = NoTime
                 \/ window.end <= window.start
                 \/ d.exact # NoTime /\ (exactly.start < window.start \/ exactly.end > window.end)
              THEN {left}
              ELSE IF free # {} THEN {new}
              ELSE IF d.exact = NoTime
                      /\ (IF strategy = "create_linked_event_blocks" /\ t \in Splittable
                          THEN split ELSE {}) # {}
                   THEN (IF strategy = "create_linked_event_blocks" /\ t \in Splittable
                         THEN split ELSE {})
              ELSE {left}
    BY DEF TaskItems, free, split, starts, ends, exactly, window, new, left
  <2> HIDE DEF own
  <2> QED BY <1>6, <1>7, <2>1, <2>2, <2>3
<1>9. ASSUME may PROVE Usable(slots, t, Duration[t], busy, from, to)
  <2>1. Usable(FreeSlots(busy, window, length), t, Duration[t], busy, from, to)
    <3> HIDE DEF starts, ends
    <3> QED BY <1>1, <1>6, <1>7, FreeSlotsAreUsable
  <2>2. CASE d.exact = NoTime
    <3> HIDE DEF window, length
    <3> QED BY <2>1, <2>2
  <2>3. CASE d.exact # NoTime
    <3> DEFINE x == d.exact - Before[t]
    <3>1. x \in Int /\ x + length \in Int
      BY <1>1, <1>2, <1>4 DEF NoTime
    <3>2. from <= x /\ x + length <= to
      BY <1>9, <2>3 DEF Span
    <3>3. slots = {x} \intersect FreeSlots(busy, Span(x, x + length), length)
      BY <2>3 DEF Span
    <3> HIDE DEF x, slots
    <3>4. Usable(FreeSlots(busy, Span(x, x + length), Length(t, Duration[t])), t, Duration[t],
                 busy, x, x + length)
      <4> HIDE DEF length
      <4> QED BY <1>1, <3>1, FreeSlotsAreUsable
    <3> HIDE DEF from, to
    <3>5. ASSUME NEW s \in slots PROVE s \in Nat /\ IsRoom(s, busy, Span(from, to), length)
      <4>1. s = x /\ s \in Nat /\ IsRoom(s, busy, Span(x, x + length), length)
        BY <3>3, <3>4 DEF Usable
      <4> QED BY <3>2, <4>1 DEF IsRoom, Span
    <3> QED BY <3>5 DEF Usable
  <2> QED BY <2>2, <2>3
<1>10. SegmentsIn(split, t, version, items, busy, from, to)
  <2> HIDE DEF starts, ends
  <2> QED BY <1>2, <1>6, <1>7, SegmentsAreSound
<1>11. ASSUME may, NEW i \in Item, i.task = t, InWindow(i, busy, from, to),
              d.exact # NoTime => i.at.start = d.exact
       PROVE  AsDecided(i, d, busy, notBefore, items)
  <2>1. /\ i.at.start \in Nat /\ i.at.end \in Nat
        /\ i.reserved.start \in Nat /\ i.reserved.end \in Nat
        /\ i.reserved.start <= i.at.start /\ i.at.end <= i.reserved.end
    BY DEF Item, Interval
  <2>2. from \in Int /\ to \in Int /\ from <= i.reserved.start /\ i.reserved.end <= to
    BY <1>6, <1>7, <1>11 DEF InWindow
  <2>3. from <= i.at.start /\ i.at.end <= to
    <3> HIDE DEF from, to
    <3> QED BY <2>1, <2>2
  <2>4. ASSUME NEW x \in Int, x \in starts PROVE x <= i.reserved.start /\ x <= i.at.start
    <3>1. x <= from
      BY <1>6, <2>4
    <3> HIDE DEF from
    <3> QED BY <2>1, <2>2, <2>3, <3>1
  <2>5. ASSUME NEW x \in Int, x \in ends PROVE i.at.end <= x
    <3>1. to <= x
      BY <1>7, <2>5
    <3> HIDE DEF to
    <3> QED BY <2>1, <2>2, <2>3, <3>1
  <2>6. notBefore <= i.reserved.start
    BY <2>4
  <2>7. d.earliest # NoTime => i.at.start >= d.earliest
    <3>1. d.earliest # NoTime => d.earliest \in Int /\ d.earliest \in starts
      BY <1>2 DEF Given
    <3> HIDE DEF starts
    <3> QED BY <2>1, <2>4, <3>1
  <2>8. Due[t] # NoTime => i.at.end <= Due[t]
    <3>1. Due[t] # NoTime => Due[t] \in Int /\ Due[t] \in ends
      BY <1>1 DEF Given
    <3> QED BY <2>5, <3>1
  <2>9. d.latest # NoTime => i.at.end <= d.latest
    <3>1. d.latest # NoTime => d.latest \in Int /\ d.latest \in ends
      BY <1>2 DEF Given
    <3> QED BY <2>5, <3>1
  <2>10. ASSUME NEW p \in d.preds
         PROVE  EndOf(items, p) # NoTime /\ i.at.start >= EndOf(items, p) + d.gap * DayLength
    <3> DEFINE x == EndOf(items, p) + d.gap * DayLength
    <3>1. x \in Int
      <4>1. EndOf(items, p) \in Int
        BY <1>2, <1>5, EndsAreTimes
      <4>2. d.gap * DayLength \in Int
        BY <1>1, <1>2
      <4> QED BY <4>1, <4>2
    <3>2. x \in starts
      OBVIOUS
    <3> HIDE DEF x, starts
    <3>3. x <= i.at.start
      BY <2>4, <3>1, <3>2
    <3>4. i.at.start >= x
      BY <2>1, <3>1, <3>3
    <3>5. EndOf(items, p) # NoTime
      BY <1>11
    <3> QED BY <3>4, <3>5 DEF x
  <2>11. i.at.start < i.at.end /\ Clear(i.reserved, busy)
    BY <1>11 DEF InWindow
  <2> QED BY <1>11, <2>6, <2>7, <2>8, <2>9, <2>10, <2>11 DEF AsDecided
<1>12. ASSUME may, free # {} PROVE Good({new})
  <2> DEFINE s == Choose(free, d.preferred)
             minutes == Duration[t]
  <2>1. Usable(slots, t, minutes, busy, from, to) /\ slots \in SUBSET Nat
    <3> HIDE DEF from, to, slots
    <3> QED BY <1>9, <1>12 DEF Usable
  <2>2. free \in SUBSET slots
    BY DEF Available
  <2>3. d.exact # NoTime => \A x \in slots : x = d.exact - Before[t]
    BY DEF Span
  <2>4. free = Available(slots, Length(t, minutes), minutes, items)
    OBVIOUS
  <2>5. new = Placed(t, version, s, minutes)
    OBVIOUS
  <2> HIDE DEF free, slots, from, to, new, may
  <2>6. s \in free
    BY <1>2, <1>12, <2>1, <2>2, ChooseIsSlot
  <2> HIDE DEF s
  <2>7. minutes \in Nat \ {0} /\ s \in Nat /\ s \in slots
        /\ s \in Available(slots, Length(t, minutes), minutes, items)
    BY <1>1, <2>1, <2>2, <2>4, <2>6
  <2> HIDE DEF minutes
  <2>8. GoesWith(Placed(t, version, s, minutes), t, version, minutes, items, busy, from, to)
    BY <2>1, <2>7, AvailableIsSound
  <2>9. new.at.start = s + Before[t]
    BY <2>5, <2>7 DEF Placed, Span
  <2>10. /\ new \in Item /\ new.task = t /\ new.version = version
         /\ Sound(items \union {new}) /\ InWindow(new, busy, from, to)
         /\ Minutes({new}) = minutes
    BY <2>5, <2>8 DEF GoesWith
  <2>11. d.exact # NoTime => new.at.start = d.exact
    <3>1. d.exact # NoTime => s = d.exact - Before[t]
      BY <2>3, <2>7
    <3> QED BY <1>1, <1>2, <2>9, <3>1
  <2>12. AsDecided(new, d, busy, notBefore, items)
    BY <1>11, <1>12, <2>10, <2>11
  <2>13. SegmentsOf({new}, t, version, items)
    BY <2>10, FS_Singleton DEF SegmentsOf
  <2>14. AllOrNothing({new}, t)
    BY <2>10 DEF AllOrNothing, minutes
  <2> QED BY <2>10, <2>12, <2>13, <2>14 DEF FitsAsDecided, PlacedOf
<1>13. Good({left})
  <2>1. NoSpan \in Interval
    BY SpanIsInterval DEF NoSpan
  <2>2. left \in Item /\ left.task = t /\ left.version = version /\ left.state = "unplaced"
    BY <2>1 DEF Unplaced, Item, NoSpan, Span
  <2> HIDE DEF left
  <2>3. Feasible(items \union {left})
    BY <2>2, UnplacedIsFeasible DEF Sound
  <2>4. IsFiniteSet(items \union {left}) /\ IsFiniteSet({left})
    BY <1>5, FS_AddElement, FS_Singleton
  <2>5. SegmentsOf({left}, t, version, items)
    BY <1>5, <2>2, <2>3, <2>4 DEF SegmentsOf, Sound
  <2>6. AllOrNothing({left}, t)
    BY <2>2 DEF AllOrNothing, PlacedOf
  <2> QED BY <2>2, <2>5, <2>6 DEF FitsAsDecided, PlacedOf
<1>14. ASSUME may, d.exact = NoTime, split # {} PROVE Good(split)
  <2>0. Minutes(split) = Duration[t]
    BY <1>14 DEF SplitItems
  <2> HIDE DEF split, from, to, may
  <2>1. /\ SegmentsOf(split, t, version, items)
        /\ \A i \in split : i \in Item /\ i.task = t /\ InWindow(i, busy, from, to)
    BY <1>10 DEF SegmentsIn, SegmentsOf
  <2>2. ASSUME NEW i \in split PROVE AsDecided(i, d, busy, notBefore, items)
    BY <1>11, <1>14, <2>1
  <2>3. AllOrNothing(split, t)
    BY <1>14, <2>0, <2>1 DEF AllOrNothing, InWindow
  <2> QED BY <1>14, <2>1, <2>2, <2>3 DEF FitsAsDecided, PlacedOf
<1> HIDE DEF may, free, new, left, split, own, Good
<1>15. Good(own)
  BY <1>8, <1>12, <1>13, <1>14
<1> QED BY <1>15 DEF own, Good

-----------------------------------------------------------------------------
(* The order of the tasks, and the plan that is built in it *)

\* The order of the tasks is strict and total.
LEMMA ByRankOrders ==
    ASSUME NEW ts \in SUBSET Task, NEW ordering \in Ordering
    PROVE  StrictOrder(ts, ByRank(ts, ordering))
<1>1. \A t, u \in Task : /\ Rank[ordering][t] \in Nat
                         /\ Rank[ordering][t] = Rank[ordering][u] => t = u
  BY PlannerAssumption DEF Ordering
<1>2. \A t, u \in ts : <<t, u>> \in ByRank(ts, ordering) <=> Rank[ordering][t] < Rank[ordering][u]
  BY DEF ByRank
<1>3. ASSUME NEW t \in ts PROVE <<t, t>> \notin ByRank(ts, ordering)
  BY <1>1, <1>2
<1>4. ASSUME NEW t \in ts, NEW u \in ts, NEW v \in ts,
             <<t, u>> \in ByRank(ts, ordering), <<u, v>> \in ByRank(ts, ordering)
      PROVE  <<t, v>> \in ByRank(ts, ordering)
  BY <1>1, <1>2, <1>4
<1>5. ASSUME NEW t \in ts, NEW u \in ts, t # u
      PROVE  <<t, u>> \in ByRank(ts, ordering) \/ <<u, t>> \in ByRank(ts, ordering)
  BY <1>1, <1>2, <1>5
<1> QED BY <1>3, <1>4, <1>5 DEF StrictOrder

\* A sequence that names nothing twice.
Distinct(q) == \A j, k \in 1..Len(q) : j # k => q[j] # q[k]

LEMMA AppendedStaysDistinct ==
    ASSUME NEW S, NEW q \in Seq(S), NEW r \in Seq(S), Distinct(q), Distinct(r),
           \A j \in 1..Len(q), k \in 1..Len(r) : q[j] # r[k]
    PROVE  /\ Distinct(q \o r)
           /\ \A k \in 1..Len(q \o r) :
                 \/ \E j \in 1..Len(q) : (q \o r)[k] = q[j]
                 \/ \E j \in 1..Len(r) : (q \o r)[k] = r[j]
<1> DEFINE m == Len(q)
           n == Len(r)
           c == q \o r
<1>1. m \in Nat /\ n \in Nat /\ Len(c) = m + n
  OBVIOUS
<1>2. \A k \in 1..(m + n) : c[k] = IF k <= m THEN q[k] ELSE r[k - m]
  OBVIOUS
<1> HIDE DEF m, n, c
<1>3. ASSUME NEW k \in 1..(m + n)
      PROVE  \/ k \in 1..m /\ c[k] = q[k]
             \/ k - m \in 1..n /\ c[k] = r[k - m]
  BY <1>1, <1>2
<1>4. ASSUME NEW j \in 1..(m + n), NEW k \in 1..(m + n), j # k PROVE c[j] # c[k]
  <2>1. CASE j \in 1..m /\ c[j] = q[j] /\ k \in 1..m /\ c[k] = q[k]
    BY <1>4, <2>1 DEF Distinct, m
  <2>2. CASE j \in 1..m /\ c[j] = q[j] /\ k - m \in 1..n /\ c[k] = r[k - m]
    BY <2>2 DEF m, n
  <2>3. CASE j - m \in 1..n /\ c[j] = r[j - m] /\ k \in 1..m /\ c[k] = q[k]
    BY <2>3 DEF m, n
  <2>4. CASE j - m \in 1..n /\ c[j] = r[j - m] /\ k - m \in 1..n /\ c[k] = r[k - m]
    <3>1. j - m # k - m
      BY <1>1, <1>4
    <3> QED BY <2>4, <3>1 DEF Distinct, n
  <2> QED BY <1>3, <2>1, <2>2, <2>3, <2>4
<1>5. Distinct(c)
  BY <1>1, <1>4 DEF Distinct
<1>6. ASSUME NEW k \in 1..Len(c)
      PROVE  (\E j \in 1..m : c[k] = q[j]) \/ (\E j \in 1..n : c[k] = r[j])
  BY <1>1, <1>3
<1> QED BY <1>5, <1>6 DEF c, m, n

\* Tasks each of which waits for another of them, and decisions without such tasks.
Knot(some, decisions) ==
    some # {} /\ \A t \in some : decisions[t].preds \intersect some # {}
Knotless(ts, decisions) == \A some \in SUBSET ts : ~Knot(some, decisions)

\* What _ordered_tasks has at any time: each task is placed once or pending, and
\* those of a knot are pending.
IsRound(r, ts, decisions) ==
    /\ r \in [placed : Seq(ts), pending : SUBSET ts]
    /\ Distinct(r.placed)
    /\ \A k \in 1..Len(r.placed) : r.placed[k] \notin r.pending
    /\ \A t \in ts : t \in r.pending \/ \E k \in 1..Len(r.placed) : r.placed[k] = t
    /\ \A some \in SUBSET ts : Knot(some, decisions) => some \subseteq r.pending

\* Round after round, those that are ready are placed.
GoesInRounds(round, ts, decisions) ==
    /\ round[0].pending = ts
    /\ \A n \in 0..Cardinality(ts) : IsRound(round[n], ts, decisions)
    /\ \A n \in 1..Cardinality(ts) :
          round[n].pending = round[n - 1].pending \ Ready(round[n - 1].pending, decisions)

\* The loop of _ordered_tasks.
LEMMA RoundSteps ==
    ASSUME NEW ts \in SUBSET Task, NEW ordering \in Ordering, NEW decisions
    PROVE  GoesInRounds(Rounds(ts, ordering, decisions), ts, decisions)
<1> DEFINE N == Cardinality(ts)
           Round == {r \in [placed : Seq(ts), pending : SUBSET ts] : IsRound(r, ts, decisions)}
           In(x) == InOrder(Ready(x, decisions), ByRank(Ready(x, decisions), ordering))
           Later(r) == [placed |-> r.placed \o In(r.pending),
                        pending |-> r.pending \ Ready(r.pending, decisions)]
           first == [placed |-> <<>>, pending |-> ts]
           step == [p \in (1..N) \X Round |-> Later(p[2])]
<1>1. N \in Nat /\ IsFiniteSet(ts)
  <2>1. IsFiniteSet(ts)
    BY PlannerAssumption, FS_Subset
  <2> QED BY <2>1, FS_CardinalityType
<1>2. ASSUME NEW x \in SUBSET ts
      PROVE  /\ In(x) \in Seq(ts) /\ Distinct(In(x))
             /\ \A k \in 1..Len(In(x)) : In(x)[k] \in Ready(x, decisions)
             /\ \A t \in Ready(x, decisions) : \E k \in 1..Len(In(x)) : In(x)[k] = t
  <2> DEFINE ready == Ready(x, decisions)
             R == ByRank(ready, ordering)
  <2>1. ready \in SUBSET ts
    BY DEF Ready
  <2> HIDE DEF ready
  <2>2. IsFiniteSet(ready) /\ ready \in SUBSET Task
    BY <1>1, <2>1, FS_Subset
  <2>3. StrictOrder(ready, R)
    BY <2>2, ByRankOrders
  <2> HIDE DEF R
  <2>4. /\ Cardinality(ready) \in Nat
        /\ InOrder(ready, R) \in [1..Cardinality(ready) -> ready]
        /\ \A t \in ready : \E k \in 1..Cardinality(ready) : InOrder(ready, R)[k] = t
        /\ \A j, k \in 1..Cardinality(ready) :
              j < k => <<InOrder(ready, R)[j], InOrder(ready, R)[k]>> \in R
    BY <2>2, <2>3, InOrderSorts
  <2> DEFINE q == InOrder(ready, R)
             n == Cardinality(ready)
  <2>5. n \in Nat /\ q \in [1..n -> ready]
        /\ (\A j, k \in 1..n : j < k => <<q[j], q[k]>> \in R)
        /\ \A t \in ready : \E k \in 1..n : q[k] = t
    BY <2>4
  <2> HIDE DEF q, n
  <2>6. q \in Seq(ts) /\ Len(q) = n
    BY <2>1, <2>5
  <2>7. ASSUME NEW j \in 1..n, NEW k \in 1..n, j < k PROVE q[j] # q[k]
    <3>1. q[j] \in ready /\ q[k] \in ready
      BY <2>5
    <3>2. <<q[j], q[k]>> \in R
      BY <2>5, <2>7
    <3> QED BY <2>3, <3>1, <3>2 DEF StrictOrder
  <2>8. ASSUME NEW j \in 1..n, NEW k \in 1..n, j # k PROVE q[j] # q[k]
    <3>1. j < k \/ k < j
      BY <2>5, <2>8
    <3> QED BY <2>7, <3>1
  <2>9. Distinct(q) /\ \A k \in 1..Len(q) : q[k] \in ready
    BY <2>5, <2>6, <2>8 DEF Distinct
  <2>10. In(x) = q
    BY DEF q, R, ready
  <2> HIDE DEF In
  <2> QED BY <2>5, <2>6, <2>9, <2>10 DEF ready
<1> HIDE DEF In
<1>3. ASSUME NEW r \in Round PROVE Later(r) \in Round
  <2> DEFINE q == r.placed
             x == r.pending
             new == In(x)
             rest == x \ Ready(x, decisions)
  <2>1. /\ q \in Seq(ts) /\ x \in SUBSET ts /\ Distinct(q)
        /\ \A k \in 1..Len(q) : q[k] \notin x
        /\ \A t \in ts : t \in x \/ \E k \in 1..Len(q) : q[k] = t
        /\ \A some \in SUBSET ts : Knot(some, decisions) => some \subseteq x
    BY DEF IsRound
  <2>2. Later(r) = [placed |-> q \o new, pending |-> rest]
    OBVIOUS
  <2> HIDE DEF q, x, Round, Later
  <2>3. /\ new \in Seq(ts) /\ Distinct(new)
        /\ \A k \in 1..Len(new) : new[k] \in Ready(x, decisions)
        /\ \A t \in Ready(x, decisions) : \E k \in 1..Len(new) : new[k] = t
    BY <1>2, <2>1
  <2>4. Ready(x, decisions) \in SUBSET x
    BY DEF Ready
  <2> HIDE DEF new
  <2>5. \A j \in 1..Len(q), k \in 1..Len(new) : q[j] # new[k]
    BY <2>1, <2>3, <2>4
  <2>6. /\ Distinct(q \o new)
        /\ \A k \in 1..Len(q \o new) :
              \/ \E j \in 1..Len(q) : (q \o new)[k] = q[j]
              \/ \E j \in 1..Len(new) : (q \o new)[k] = new[j]
    <3>1. q \in Seq(ts) /\ new \in Seq(ts) /\ Distinct(q) /\ Distinct(new)
      BY <2>1, <2>3
    <3> QED BY <2>5, <3>1, AppendedStaysDistinct
  <2>7. \A k \in 1..Len(q \o new) : (q \o new)[k] \notin rest
    BY <2>1, <2>3, <2>6
  <2>8. q \o new \in Seq(ts) /\ rest \in SUBSET ts
    BY <2>1, <2>3
  <2>9. ASSUME NEW t \in ts, t \notin rest PROVE \E k \in 1..Len(q \o new) : (q \o new)[k] = t
    <3>1. (\E k \in 1..Len(q) : q[k] = t) \/ (\E k \in 1..Len(new) : new[k] = t)
      BY <2>1, <2>3, <2>9
    <3>2. /\ Len(q) \in Nat /\ Len(new) \in Nat /\ Len(q \o new) = Len(q) + Len(new)
          /\ \A k \in 1..Len(q) : k \in 1..Len(q \o new) /\ (q \o new)[k] = q[k]
      BY <2>1, <2>3
    <3>3. \A k \in 1..Len(new) : /\ Len(q) + k \in 1..Len(q \o new)
                                 /\ (q \o new)[Len(q) + k] = new[k]
      BY <2>1, <2>3
    <3> QED BY <3>1, <3>2, <3>3
  <2>10. ASSUME NEW some \in SUBSET ts, Knot(some, decisions) PROVE some \subseteq rest
    <3> SUFFICES ASSUME NEW t \in some PROVE t \notin Ready(x, decisions)
      BY <2>1, <2>10
    <3>1. decisions[t].preds \intersect some # {} /\ some \subseteq x
      BY <2>1, <2>10 DEF Knot
    <3> QED BY <3>1 DEF Ready
  <2> DEFINE all == q \o new
  <2>11. /\ all \in Seq(ts) /\ rest \in SUBSET ts /\ Distinct(all)
         /\ \A k \in 1..Len(all) : all[k] \notin rest
         /\ \A t \in ts : t \in rest \/ \E k \in 1..Len(all) : all[k] = t
         /\ \A some \in SUBSET ts : Knot(some, decisions) => some \subseteq rest
         /\ Later(r) = [placed |-> all, pending |-> rest]
    BY <2>2, <2>6, <2>7, <2>8, <2>9, <2>10
  <2> HIDE DEF rest, all
  <2> DEFINE l == Later(r)
  <2>12. l.placed = all /\ l.pending = rest /\ l \in [placed : Seq(ts), pending : SUBSET ts]
    BY <2>11
  <2> HIDE DEF l
  <2>13. IsRound(l, ts, decisions)
    BY <2>11, <2>12 DEF IsRound
  <2> QED BY <2>12, <2>13 DEF Round, l
<1>4. first \in Round /\ first.pending = ts
  <2>1. <<>> \in Seq(ts) /\ Len(<<>>) = 0 /\ 1..0 = {}
    OBVIOUS
  <2>2. IsRound(first, ts, decisions)
    BY <2>1 DEF IsRound, Distinct
  <2> QED BY <2>1, <2>2
<1> HIDE DEF N, Round, first
<1>5. \A n \in 1..N, r \in Round : step[<<n, r>>] = Later(r)
  OBVIOUS
<1> HIDE DEF Later, step
<1>6. Stepwise(N, Round, first, step)
  BY <1>1, <1>3, <1>4, <1>5 DEF Stepwise
<1>7. PICK f : Follows(f, N, Round, first, step)
  BY <1>6, RecursionExists
<1>8. f = [n \in 0..N |-> IF n = 0 THEN first ELSE Later(f[n - 1])]
  <2>1. ASSUME NEW n \in 1..N PROVE f[n] = Later(f[n - 1])
    <3>1. f[n - 1] \in Round /\ f[n] = step[<<n, f[n - 1]>>]
      BY <1>1, <1>7 DEF Follows
    <3> QED BY <1>5, <3>1
  <2> QED BY <1>1, <1>7, <2>1 DEF Follows
<1> PICK F : F = Rounds(ts, ordering, decisions)
  OBVIOUS
<1>9. F = [n \in 0..N |-> IF n = 0 THEN first ELSE Later(F[n - 1])]
  BY <1>8 DEF Rounds, N, Later, In, first
<1>10. F[0] = first /\ \A n \in 1..N : F[n] = Later(F[n - 1])
  <2>1. 0 \in 0..N /\ \A n \in 1..N : n \in 0..N /\ n # 0
    BY <1>1
  <2>2. F[0] = first
    BY <1>9, <2>1
  <2>3. \A n \in 1..N : F[n] = Later(F[n - 1])
    BY <1>9, <2>1
  <2> QED BY <2>2, <2>3
<1>11. Obeys(F, N, Round, first, step)
  BY <1>5, <1>10 DEF Obeys
<1>12. \A n \in 0..N : F[n] \in Round
  BY <1>6, <1>11, RecursionStays
<1>13. \A n \in 0..N : IsRound(F[n], ts, decisions)
  BY <1>12 DEF Round
<1>14. \A n \in 1..N : F[n].pending = F[n - 1].pending \ Ready(F[n - 1].pending, decisions)
  <2> SUFFICES ASSUME NEW n \in 1..N
               PROVE  F[n].pending = F[n - 1].pending \ Ready(F[n - 1].pending, decisions)
    OBVIOUS
  <2> DEFINE x == F[n - 1].pending
             q == F[n - 1].placed \o In(x)
  <2>1. F[n] = [placed |-> q, pending |-> x \ Ready(x, decisions)]
    BY <1>10 DEF Later
  <2> HIDE DEF x, q
  <2>2. F[n].pending = x \ Ready(x, decisions)
    BY <2>1
  <2> QED BY <2>2 DEF x
<1> QED BY <1>4, <1>10, <1>13, <1>14 DEF GoesInRounds, N

\* _ordered_tasks returns tasks it was given, none of them twice.
LEMMA OrderedAreTasks ==
    ASSUME NEW ts \in SUBSET Task, NEW ordering \in Ordering, NEW decisions
    PROVE  /\ OrderedTasks(ts, ordering, decisions) \in Seq(ts)
           /\ Distinct(OrderedTasks(ts, ordering, decisions))
<1>1. PICK F : F = Rounds(ts, ordering, decisions)
  OBVIOUS
<1>2. GoesInRounds(F, ts, decisions)
  BY <1>1, RoundSteps
<1>3. Cardinality(ts) \in 0..Cardinality(ts)
  <2>1. IsFiniteSet(ts)
    BY PlannerAssumption, FS_Subset
  <2>2. Cardinality(ts) \in Nat
    BY <2>1, FS_CardinalityType
  <2> QED BY <2>2
<1>4. IsRound(F[Cardinality(ts)], ts, decisions)
  BY <1>2, <1>3 DEF GoesInRounds
<1> QED BY <1>1, <1>4 DEF IsRound, OrderedTasks, LastRound

\* Decisions that pass the test for cycles have no knots.
LEMMA AcyclicIsKnotless ==
    ASSUME NEW ts \in SUBSET Task, NEW decisions, Acyclic(ts, decisions)
    PROVE  Knotless(ts, decisions)
<1>1. PICK ordering \in Ordering : ordering = CHOOSE o \in Ordering : TRUE
  BY PlannerAssumption DEF Ordering
<1>2. PICK F : F = Rounds(ts, ordering, decisions)
  OBVIOUS
<1>3. GoesInRounds(F, ts, decisions)
  BY <1>2, RoundSteps
<1>4. Cardinality(ts) \in 0..Cardinality(ts)
  <2>1. IsFiniteSet(ts)
    BY PlannerAssumption, FS_Subset
  <2>2. Cardinality(ts) \in Nat
    BY <2>1, FS_CardinalityType
  <2> QED BY <2>2
<1>5. IsRound(F[Cardinality(ts)], ts, decisions)
  BY <1>3, <1>4 DEF GoesInRounds
<1>6. F[Cardinality(ts)].pending = {}
  BY <1>1, <1>2 DEF Acyclic, LastRound
<1>7. \A some \in SUBSET ts : Knot(some, decisions) => some \subseteq {}
  BY <1>5, <1>6 DEF IsRound
<1> QED BY <1>7 DEF Knotless, Knot

\* Without knots _ordered_tasks leaves no task out: in each round some are ready.
LEMMA NoneIsLeft ==
    ASSUME NEW ts \in SUBSET Task, NEW ordering \in Ordering, NEW decisions,
           Knotless(ts, decisions)
    PROVE  LastRound(ts, ordering, decisions).pending = {}
<1>1. PICK F : F = Rounds(ts, ordering, decisions)
  OBVIOUS
<1> DEFINE N == Cardinality(ts)
           left(n) == F[n].pending
           T == {n \in 0..N : Cardinality(left(n)) <= N - n}
<1>2. /\ left(0) = ts /\ \A n \in 0..N : IsRound(F[n], ts, decisions)
      /\ \A n \in 1..N : left(n) = left(n - 1) \ Ready(left(n - 1), decisions)
  <2>1. GoesInRounds(F, ts, decisions)
    BY <1>1, RoundSteps
  <2> QED BY <2>1 DEF GoesInRounds
<1>3. IsFiniteSet(ts) /\ N \in Nat
  <2>1. IsFiniteSet(ts)
    BY PlannerAssumption, FS_Subset
  <2> QED BY <2>1, FS_CardinalityType
<1>4. ASSUME NEW n \in 0..N
      PROVE  left(n) \in SUBSET ts /\ IsFiniteSet(left(n)) /\ Cardinality(left(n)) \in Nat
  <2>1. left(n) \in SUBSET ts
    BY <1>2 DEF IsRound
  <2> HIDE DEF left
  <2>2. IsFiniteSet(left(n))
    BY <1>3, <2>1, FS_Subset
  <2> QED BY <2>1, <2>2, FS_CardinalityType
<1> HIDE DEF N, left
<1>5. 0 \in T
  BY <1>2, <1>3 DEF N
<1>6. ASSUME NEW n \in 1..N, n - 1 \in T PROVE n \in T
  <2> DEFINE x == left(n - 1)
             y == left(n)
             ready == Ready(x, decisions)
  <2>1. n - 1 \in 0..N /\ n \in 0..N /\ Cardinality(x) <= N - (n - 1)
    BY <1>3, <1>6
  <2>2. /\ x \in SUBSET ts /\ IsFiniteSet(x) /\ Cardinality(x) \in Nat
        /\ IsFiniteSet(y) /\ Cardinality(y) \in Nat /\ y = x \ ready
    BY <1>2, <1>4, <2>1
  <2>3. n \in Nat /\ n <= N
    BY <1>3
  <2> HIDE DEF x, y
  <2>4. CASE x = {}
    <3>1. y = {}
      BY <2>2, <2>4
    <3>2. Cardinality(y) = 0
      BY <3>1, FS_EmptySet
    <3> QED BY <1>3, <2>1, <2>3, <3>2 DEF y
  <2>5. CASE x # {}
    <3>1. ~Knot(x, decisions)
      BY <2>2 DEF Knotless
    <3>2. PICK t \in x : t \in ready
      BY <2>5, <3>1 DEF Knot, Ready
    <3> HIDE DEF ready
    <3>3. y \in SUBSET (x \ {t})
      BY <2>2, <3>2
    <3>4. IsFiniteSet(x \ {t}) /\ Cardinality(x \ {t}) = Cardinality(x) - 1
      BY <2>2, <3>2, FS_RemoveElement
    <3>5. Cardinality(y) <= Cardinality(x) - 1
      BY <3>3, <3>4, FS_Subset
    <3>6. Cardinality(y) <= N - n
      BY <1>3, <2>1, <2>2, <2>3, <3>5
    <3> QED BY <2>1, <3>6 DEF y
  <2> QED BY <2>4, <2>5
<1> HIDE DEF T
<1>7. 0..N \subseteq T
  BY <1>3, <1>5, <1>6, BoundedInduction
<1>8. N \in 0..N
  BY <1>3
<1>9. Cardinality(left(N)) = 0
  <2>1. Cardinality(left(N)) <= N - N
    BY <1>7, <1>8 DEF T
  <2> QED BY <1>3, <1>4, <1>8, <2>1
<1>10. F[N].pending = {}
  BY <1>4, <1>8, <1>9, FS_EmptySet DEF left
<1> QED BY <1>1, <1>10 DEF LastRound, N

LEMMA OrderedAreAll ==
    ASSUME NEW ts \in SUBSET Task, NEW ordering \in Ordering, NEW decisions,
           Knotless(ts, decisions)
    PROVE  \A t \in ts : \E k \in 1..Len(OrderedTasks(ts, ordering, decisions)) :
              OrderedTasks(ts, ordering, decisions)[k] = t
<1>1. PICK F : F = Rounds(ts, ordering, decisions)
  OBVIOUS
<1>2. GoesInRounds(F, ts, decisions)
  BY <1>1, RoundSteps
<1>3. Cardinality(ts) \in 0..Cardinality(ts)
  <2>1. IsFiniteSet(ts)
    BY PlannerAssumption, FS_Subset
  <2>2. Cardinality(ts) \in Nat
    BY <2>1, FS_CardinalityType
  <2> QED BY <2>2
<1>4. IsRound(F[Cardinality(ts)], ts, decisions)
  BY <1>2, <1>3 DEF GoesInRounds
<1>5. F[Cardinality(ts)].pending = {}
  BY <1>1, NoneIsLeft DEF LastRound
<1>6. \A t \in ts : \E k \in 1..Len(F[Cardinality(ts)].placed) :
         F[Cardinality(ts)].placed[k] = t
  BY <1>4, <1>5 DEF IsRound
<1> QED BY <1>1, <1>6 DEF OrderedTasks, LastRound

\* The test of _ordered_tasks for cycles is exact: it refuses the decisions in which
\* some tasks wait for each other, and no others.
THEOREM CyclesAreFound ==
    ASSUME NEW ts \in SUBSET Task, NEW decisions
    PROVE  Acyclic(ts, decisions) <=> Knotless(ts, decisions)
<1>1. Acyclic(ts, decisions) => Knotless(ts, decisions)
  BY AcyclicIsKnotless
<1>2. ASSUME Knotless(ts, decisions) PROVE Acyclic(ts, decisions)
  <2>1. PICK ordering \in Ordering : ordering = CHOOSE o \in Ordering : TRUE
    BY PlannerAssumption DEF Ordering
  <2>2. LastRound(ts, ordering, decisions).pending = {}
    BY <1>2, NoneIsLeft
  <2> QED BY <2>1, <2>2 DEF Acyclic
<1> QED BY <1>1, <1>2

\* A plan begins without items.
LEMMA NothingIsSound == Sound({})
<1>1. PlacedOf({}) = {}
  BY DEF PlacedOf
<1>2. IsFiniteSet({})
  BY FS_EmptySet
<1> QED BY <1>1, <1>2 DEF Sound, Feasible, WithinDailyLimit, DaysOf, Reserved, ItemsAreApart

\* Items that go together, the retained ones and those of the tasks placed.
BuiltFrom(items, ts, version, retained) ==
    /\ Sound(items)
    /\ \A i \in items : i \in retained \/ (i.task \in ts /\ i.version = version[i.task])

\* What is built of retained items and the tasks up to each in their order.
PlacedInTurn(built, ts, order, version, decisions, busy, range, notBefore, strategy, retained) ==
    /\ built[0] = retained
    /\ \A n \in 0..Len(order) : BuiltFrom(built[n], ts, version, retained)
    /\ \A n \in 1..Len(order) :
          built[n] = built[n - 1] \union
              TaskItems(order[n], version[order[n]], decisions[order[n]], busy,
                        range, notBefore, strategy, built[n - 1])

\* _build_plan_items is a recursion over the tasks, in their order.
LEMMA PlacingSteps ==
    ASSUME NEW ts \in SUBSET Task, NEW order \in Seq(ts), NEW version \in [Task -> Nat],
           NEW decisions \in [Task -> Decision],
           NEW busy \in SUBSET Interval, IsFiniteSet(busy), NEW range \in Interval,
           NEW notBefore \in Nat, NEW strategy, NEW retained, Sound(retained)
    PROVE  PlacedInTurn(Placing(order, version, decisions, busy, range, notBefore, strategy,
                                retained),
                        ts, order, version, decisions, busy, range, notBefore, strategy, retained)
<1> DEFINE N == Len(order)
           Built == {x \in SUBSET Item : BuiltFrom(x, ts, version, retained)}
           Own(n, x) == TaskItems(order[n], version[order[n]], decisions[order[n]], busy,
                                  range, notBefore, strategy, x)
           step == [p \in (1..N) \X Built |-> p[2] \union Own(p[1], p[2])]
<1>1. N \in Nat /\ \A n \in 1..N : order[n] \in ts
  OBVIOUS
<1> HIDE DEF N
<1>2. ASSUME NEW n \in 1..N, NEW x \in Built PROVE x \union Own(n, x) \in Built
  <2> DEFINE t == order[n]
  <2>1. t \in ts /\ t \in Task /\ version[t] \in Nat /\ decisions[t] \in Decision
    BY <1>1
  <2>2. Sound(x) /\ \A i \in x : i \in retained \/ (i.task \in ts /\ i.version = version[i.task])
    BY DEF BuiltFrom
  <2> HIDE DEF Built, t
  <2>3. FitsAsDecided(TaskItems(t, version[t], decisions[t], busy, range, notBefore, strategy, x),
                      t, version[t], decisions[t], busy, notBefore, x)
    BY <2>1, <2>2, TaskItemsAreSound
  <2>4. SegmentsOf(Own(n, x), t, version[t], x)
    BY <2>3 DEF t, FitsAsDecided
  <2> HIDE DEF Own
  <2>5. Sound(x \union Own(n, x))
    BY <2>4 DEF SegmentsOf
  <2>6. \A i \in Own(n, x) : i.task \in ts /\ i.version = version[i.task]
    BY <2>1, <2>4 DEF SegmentsOf
  <2>7. BuiltFrom(x \union Own(n, x), ts, version, retained)
    BY <2>2, <2>5, <2>6 DEF BuiltFrom
  <2> QED BY <2>5, <2>7 DEF Built, Sound
<1>3. retained \in Built
  BY DEF BuiltFrom, Sound
<1> HIDE DEF Built, Own
<1>4. \A n \in 1..N, x \in Built : step[<<n, x>>] = x \union Own(n, x)
  OBVIOUS
<1> HIDE DEF step
<1>5. Stepwise(N, Built, retained, step)
  BY <1>1, <1>2, <1>3, <1>4 DEF Stepwise
<1>6. PICK f : Follows(f, N, Built, retained, step)
  BY <1>5, RecursionExists
<1>7. f = [n \in 0..N |-> IF n = 0 THEN retained ELSE f[n - 1] \union Own(n, f[n - 1])]
  <2>1. ASSUME NEW n \in 1..N PROVE f[n] = f[n - 1] \union Own(n, f[n - 1])
    <3>1. f[n - 1] \in Built /\ f[n] = step[<<n, f[n - 1]>>]
      BY <1>1, <1>6 DEF Follows
    <3> QED BY <1>4, <3>1
  <2> QED BY <1>1, <1>6, <2>1 DEF Follows
<1> PICK F : F = Placing(order, version, decisions, busy, range, notBefore, strategy, retained)
  OBVIOUS
<1>8. F = [n \in 0..N |-> IF n = 0 THEN retained ELSE F[n - 1] \union Own(n, F[n - 1])]
  BY <1>7 DEF Placing, N, Own
<1>9. F[0] = retained /\ \A n \in 1..N : F[n] = F[n - 1] \union Own(n, F[n - 1])
  <2>1. 0 \in 0..N /\ \A n \in 1..N : n \in 0..N /\ n # 0
    BY <1>1
  <2>2. F[0] = retained
    BY <1>8, <2>1
  <2>3. \A n \in 1..N : F[n] = F[n - 1] \union Own(n, F[n - 1])
    BY <1>8, <2>1
  <2> QED BY <2>2, <2>3
<1>10. Obeys(F, N, Built, retained, step)
  BY <1>4, <1>9 DEF Obeys
<1>11. \A n \in 0..N : F[n] \in Built
  BY <1>5, <1>10, RecursionStays
<1>12. \A n \in 0..N : BuiltFrom(F[n], ts, version, retained)
  BY <1>11 DEF Built
<1> QED BY <1>9, <1>12 DEF N, Own, PlacedInTurn

\* All of _build_plan_items.
LEMMA BuiltPlansAreSound ==
    ASSUME NEW ts \in SUBSET Task, NEW order \in Seq(ts), NEW version \in [Task -> Nat],
           NEW decisions \in [Task -> Decision],
           NEW busy \in SUBSET Interval, IsFiniteSet(busy), NEW range \in Interval,
           NEW notBefore \in Nat, NEW strategy, NEW retained, Sound(retained)
    PROVE  BuiltFrom(BuildPlanItems(order, version, decisions, busy, range, notBefore,
                                    strategy, retained), ts, version, retained)
<1>1. Len(order) \in 0..Len(order)
  OBVIOUS
<1>2. \A n \in 0..Len(order) :
         BuiltFrom(Placing(order, version, decisions, busy, range, notBefore, strategy,
                           retained)[n], ts, version, retained)
  BY PlacingSteps DEF PlacedInTurn
<1> QED BY <1>1, <1>2 DEF BuildPlanItems

\* All items of a plan keep to the decisions about their tasks.
KeepsDecisions(items, decisions, busy, notBefore) ==
    \A i \in PlacedOf(items) :
        /\ AsDecided(i, decisions[i.task], busy, notBefore, items)
        /\ decisions[i.task].exact # NoTime => ItemsOf(items, {i.task}) = {i}

\* Another task among those that are placed changes nothing of the others.
LEMMA AnotherTask ==
    ASSUME NEW items, NEW t, NEW version, NEW decisions, NEW busy, NEW notBefore, NEW own,
           KeepsDecisions(items, decisions, busy, notBefore),
           \A i \in items : i.task # t,
           FitsAsDecided(own, t, version, decisions[t], busy, notBefore, items)
    PROVE  KeepsDecisions(items \union own, decisions, busy, notBefore)
<1> DEFINE all == items \union own
<1>1. \A i \in own : i.task = t
  BY DEF FitsAsDecided, SegmentsOf
<1>2. ASSUME NEW u, u # t PROVE ItemsOf(all, {u}) = ItemsOf(items, {u})
  BY <1>1, <1>2 DEF ItemsOf
<1>3. ASSUME NEW u, EndOf(items, u) # NoTime PROVE EndOf(all, u) = EndOf(items, u)
  <2>1. ItemsOf(items, {u}) # {}
    BY <1>3 DEF EndOf
  <2>2. u # t
    BY <2>1 DEF ItemsOf
  <2>3. ItemsOf(all, {u}) = ItemsOf(items, {u})
    BY <1>2, <2>2
  <2> HIDE DEF all
  <2> QED BY <2>3 DEF EndOf
<1>4. ASSUME NEW i, NEW d, AsDecided(i, d, busy, notBefore, items)
      PROVE  AsDecided(i, d, busy, notBefore, all)
  <2>1. ASSUME NEW q \in d.preds
        PROVE  EndOf(all, q) # NoTime /\ i.at.start >= EndOf(all, q) + d.gap * DayLength
    <3>1. EndOf(items, q) # NoTime /\ i.at.start >= EndOf(items, q) + d.gap * DayLength
      BY <1>4 DEF AsDecided
    <3>2. EndOf(all, q) = EndOf(items, q)
      BY <1>3, <3>1
    <3> HIDE DEF all
    <3> QED BY <3>1, <3>2
  <2> HIDE DEF all
  <2> QED BY <1>4, <2>1 DEF AsDecided
<1>5. ASSUME NEW i \in PlacedOf(all)
      PROVE  /\ AsDecided(i, decisions[i.task], busy, notBefore, all)
             /\ decisions[i.task].exact # NoTime => ItemsOf(all, {i.task}) = {i}
  <2>1. i \in PlacedOf(items) \/ i \in PlacedOf(own)
    BY DEF PlacedOf
  <2>2. CASE i \in PlacedOf(items)
    <3>1. i.task # t
      BY <2>2 DEF PlacedOf
    <3>2. ItemsOf(all, {i.task}) = ItemsOf(items, {i.task})
      BY <1>2, <3>1
    <3> HIDE DEF all
    <3> QED BY <1>4, <2>2, <3>2 DEF KeepsDecisions
  <2>3. CASE i \in PlacedOf(own)
    <3>1. i \in own /\ i.task = t
      BY <1>1, <2>3 DEF PlacedOf
    <3>2. AsDecided(i, decisions[i.task], busy, notBefore, items)
      BY <2>3, <3>1 DEF FitsAsDecided
    <3>3. ItemsOf(all, {t}) = own
      BY <1>1 DEF ItemsOf
    <3>4. decisions[t].exact # NoTime => own = {i}
      BY <3>1 DEF FitsAsDecided
    <3> HIDE DEF all
    <3> QED BY <1>4, <3>1, <3>2, <3>3, <3>4
  <2> QED BY <2>1, <2>2, <2>3
<1> HIDE DEF all
<1>6. KeepsDecisions(all, decisions, busy, notBefore)
  BY <1>5 DEF KeepsDecisions
<1> QED BY <1>6 DEF all

\* A plan that is built from nothing keeps to the decisions: when a task is
\* placed, those before it stay where they are.
LEMMA BuiltPlansAreDecided ==
    ASSUME NEW ts \in SUBSET Task, NEW order \in Seq(ts), Distinct(order),
           NEW version \in [Task -> Nat], NEW decisions \in [Task -> Decision],
           NEW busy \in SUBSET Interval, IsFiniteSet(busy), NEW range \in Interval,
           NEW notBefore \in Nat, NEW strategy
    PROVE  KeepsDecisions(BuildPlanItems(order, version, decisions, busy, range, notBefore,
                                         strategy, {}), decisions, busy, notBefore)
<1>0. PICK retained : retained = {}
  OBVIOUS
<1>1. PICK F : F = Placing(order, version, decisions, busy, range, notBefore, strategy, retained)
  OBVIOUS
<1> DEFINE N == Len(order)
           Own(n) == TaskItems(order[n], version[order[n]], decisions[order[n]], busy,
                               range, notBefore, strategy, F[n - 1])
           Earlier(n) == {order[k] : k \in 1..n}
           T == {n \in 0..N : /\ KeepsDecisions(F[n], decisions, busy, notBefore)
                              /\ \A i \in F[n] : i.task \in Earlier(n)}
<1>2. N \in Nat /\ \A n \in 1..N : order[n] \in ts
  OBVIOUS
<1>3. /\ F[0] = {}
      /\ \A n \in 0..N : BuiltFrom(F[n], ts, version, {})
      /\ \A n \in 1..N : F[n] = F[n - 1] \union Own(n)
  <2>0. Sound(retained)
    BY <1>0, NothingIsSound
  <2>1. PlacedInTurn(Placing(order, version, decisions, busy, range, notBefore, strategy,
                             retained),
                     ts, order, version, decisions, busy, range, notBefore, strategy, retained)
    BY <2>0, PlacingSteps
  <2> QED BY <1>0, <1>1, <2>1 DEF PlacedInTurn
<1>4. 0 \in T
  <2>1. 0 \in 0..N
    BY <1>2
  <2>2. PlacedOf({}) = {}
    BY DEF PlacedOf
  <2> QED BY <1>3, <2>1, <2>2 DEF KeepsDecisions
<1>5. ASSUME NEW n \in 1..N, n - 1 \in T PROVE n \in T
  <2> DEFINE t == order[n]
             x == F[n - 1]
             own == TaskItems(t, version[t], decisions[t], busy, range, notBefore, strategy, x)
  <2>1. /\ KeepsDecisions(x, decisions, busy, notBefore)
        /\ \A i \in x : i.task \in Earlier(n - 1)
    BY <1>5
  <2>2. t \in ts /\ t \in Task /\ version[t] \in Nat /\ decisions[t] \in Decision
    BY <1>2
  <2>3. n - 1 \in 0..N /\ n \in 0..N
    BY <1>2
  <2>4. F[n] = x \union own
    BY <1>3
  <2>5. Sound(x)
    BY <1>3, <2>3 DEF BuiltFrom
  <2>6. \A i \in x : i.task # t
    <3>1. ASSUME NEW k \in 1..(n - 1) PROVE order[k] # t
      <4>1. k \in 1..N /\ k # n
        BY <1>2
      <4> QED BY <4>1 DEF Distinct
    <3> QED BY <2>1, <3>1
  <2> HIDE DEF T, x, t
  <2>7. FitsAsDecided(own, t, version[t], decisions[t], busy, notBefore, x)
    BY <2>2, <2>5, TaskItemsAreSound
  <2> HIDE DEF own
  <2>8. KeepsDecisions(x \union own, decisions, busy, notBefore)
    BY <2>1, <2>6, <2>7, AnotherTask
  <2>9. \A i \in x \union own : i.task \in Earlier(n)
    <3>1. \A i \in own : i.task = t
      BY <2>7 DEF FitsAsDecided, SegmentsOf
    <3>2. t \in Earlier(n)
      BY <1>2 DEF t
    <3>3. Earlier(n - 1) \subseteq Earlier(n)
      BY <1>2
    <3> QED BY <2>1, <3>1, <3>2, <3>3
  <2> QED BY <2>3, <2>4, <2>8, <2>9 DEF T
<1> HIDE DEF T
<1>6. 0..N \subseteq T
  BY <1>2, <1>4, <1>5, BoundedInduction
<1>7. N \in T
  BY <1>2, <1>6
<1> QED BY <1>0, <1>1, <1>7 DEF T, BuildPlanItems

\* The tasks that were in order are placed or not, the others are as they were.
BuiltWhole(items, placed, ts, retained) ==
    /\ \A t \in placed : AllOrNothing(ItemsOf(items, {t}), t)
    /\ \A t \in Task \ ts : ItemsOf(items, {t}) = ItemsOf(retained, {t})

\* A plan that is built has all of every task that is in order.
LEMMA BuiltPlansAreWhole ==
    ASSUME NEW ts \in SUBSET Task, NEW order \in Seq(ts), Distinct(order),
           NEW version \in [Task -> Nat], NEW decisions \in [Task -> Decision],
           NEW busy \in SUBSET Interval, IsFiniteSet(busy), NEW range \in Interval,
           NEW notBefore \in Nat, NEW strategy, NEW retained, Sound(retained),
           \A i \in retained : i.task \notin ts
    PROVE  BuiltWhole(BuildPlanItems(order, version, decisions, busy, range, notBefore,
                                     strategy, retained),
                      {order[k] : k \in 1..Len(order)}, ts, retained)
<1>1. PICK F : F = Placing(order, version, decisions, busy, range, notBefore, strategy, retained)
  OBVIOUS
<1> DEFINE N == Len(order)
           Own(n) == TaskItems(order[n], version[order[n]], decisions[order[n]], busy,
                               range, notBefore, strategy, F[n - 1])
           Earlier(n) == {order[k] : k \in 1..n}
           T == {n \in 0..N : /\ BuiltWhole(F[n], Earlier(n), ts, retained)
                              /\ \A i \in F[n] : i.task \in ts => i.task \in Earlier(n)}
<1>2. N \in Nat /\ \A n \in 1..N : order[n] \in ts
  OBVIOUS
<1>3. /\ F[0] = retained
      /\ \A n \in 0..N : BuiltFrom(F[n], ts, version, retained)
      /\ \A n \in 1..N : F[n] = F[n - 1] \union Own(n)
  <2>1. PlacedInTurn(Placing(order, version, decisions, busy, range, notBefore, strategy,
                             retained),
                     ts, order, version, decisions, busy, range, notBefore, strategy, retained)
    BY PlacingSteps
  <2> QED BY <1>1, <2>1 DEF PlacedInTurn
<1>4. 0 \in T
  <2>1. 0 \in 0..N /\ 1..0 = {}
    BY <1>2
  <2>2. BuiltWhole(retained, Earlier(0), ts, retained)
    BY <2>1 DEF BuiltWhole
  <2> QED BY <1>3, <2>1, <2>2
<1>5. ASSUME NEW n \in 1..N, n - 1 \in T PROVE n \in T
  <2> DEFINE t == order[n]
             x == F[n - 1]
             own == TaskItems(t, version[t], decisions[t], busy, range, notBefore, strategy, x)
             all == x \union own
  <2>1. /\ BuiltWhole(x, Earlier(n - 1), ts, retained)
        /\ \A i \in x : i.task \in ts => i.task \in Earlier(n - 1)
    BY <1>5
  <2>2. t \in ts /\ t \in Task /\ version[t] \in Nat /\ decisions[t] \in Decision
    BY <1>2
  <2>3. n - 1 \in 0..N /\ n \in 0..N
    BY <1>2
  <2>4. F[n] = all
    BY <1>3
  <2>5. Sound(x)
    BY <1>3, <2>3 DEF BuiltFrom
  <2>6. t \notin Earlier(n - 1)
    <3>1. ASSUME NEW k \in 1..(n - 1) PROVE order[k] # t
      <4>1. k \in 1..N /\ k # n
        BY <1>2
      <4> QED BY <4>1 DEF Distinct
    <3> QED BY <3>1
  <2>7. Earlier(n) = Earlier(n - 1) \union {t}
    <3>1. 1..n = (1..(n - 1)) \union {n}
      BY <1>2
    <3> QED BY <3>1
  <2> HIDE DEF T, x, t, Earlier
  <2>8. FitsAsDecided(own, t, version[t], decisions[t], busy, notBefore, x)
    BY <2>2, <2>5, TaskItemsAreSound
  <2> HIDE DEF own
  <2>9. (\A i \in own : i.task = t) /\ AllOrNothing(own, t)
    BY <2>8 DEF FitsAsDecided, SegmentsOf
  <2>10. ItemsOf(all, {t}) = own
    <3>1. \A i \in x : i.task # t
      BY <2>1, <2>2, <2>6
    <3> QED BY <2>9, <3>1 DEF ItemsOf
  <2>11. ASSUME NEW u, u # t PROVE ItemsOf(all, {u}) = ItemsOf(x, {u})
    BY <2>9, <2>11 DEF ItemsOf
  <2>12. \A i \in all : i.task \in ts => i.task \in Earlier(n)
    BY <2>1, <2>7, <2>9
  <2> HIDE DEF all
  <2>13. ASSUME NEW u \in Earlier(n) PROVE AllOrNothing(ItemsOf(all, {u}), u)
    <3>1. CASE u = t
      BY <2>9, <2>10, <3>1
    <3>2. CASE u # t
      <4>1. u \in Earlier(n - 1)
        BY <2>7, <3>2
      <4> QED BY <2>1, <2>11, <3>2, <4>1 DEF BuiltWhole
    <3> QED BY <3>1, <3>2
  <2>14. ASSUME NEW u \in Task \ ts PROVE ItemsOf(all, {u}) = ItemsOf(retained, {u})
    BY <2>1, <2>2, <2>11 DEF BuiltWhole
  <2>15. BuiltWhole(all, Earlier(n), ts, retained)
    BY <2>13, <2>14 DEF BuiltWhole
  <2> QED BY <2>3, <2>4, <2>12, <2>15 DEF T
<1> HIDE DEF T
<1>6. 0..N \subseteq T
  BY <1>2, <1>4, <1>5, BoundedInduction
<1>7. N \in T
  BY <1>2, <1>6
<1> QED BY <1>1, <1>7 DEF T, BuildPlanItems

-----------------------------------------------------------------------------
(* Changes of the schedule *)

\* Whatever is done to a task gives it a later version.
Advance(rows, new) ==
    \A t \in Task : new[t] = rows[t] \/ new[t].version > rows[t].version

\* A task with another place, or in another state, and the next version.
LEMMA ChangedPlace ==
    ASSUME NEW row \in TaskRow, NEW at \in Interval
    PROVE  LET new == [row EXCEPT !.version = @ + 1, !.slot = at]
           IN /\ new = [state |-> row.state, slot |-> at, version |-> row.version + 1]
              /\ new = [row EXCEPT !.slot = at, !.version = @ + 1]
              /\ new \in TaskRow /\ new.version > row.version
<1> DEFINE v == row.version + 1
           later == [row EXCEPT !.version = @ + 1]
           placed == [row EXCEPT !.slot = at]
<1>1. row.state \in {"active", "done"} /\ v \in Nat \ {0} /\ v > row.version
  BY DEF TaskRow
<1>2. [row EXCEPT !.version = @ + 1, !.slot = at]
          = [state |-> row.state, slot |-> at, version |-> v]
  <2>1. later = [state |-> row.state, slot |-> row.slot, version |-> v]
    BY DEF TaskRow
  <2>2. [row EXCEPT !.version = @ + 1, !.slot = at] = [later EXCEPT !.slot = at]
    OBVIOUS
  <2> HIDE DEF later, v
  <2> QED BY <2>1, <2>2
<1>3. [row EXCEPT !.slot = at, !.version = @ + 1]
          = [state |-> row.state, slot |-> at, version |-> v]
  <2>1. placed = [state |-> row.state, slot |-> at, version |-> row.version]
    BY DEF TaskRow
  <2>2. [row EXCEPT !.slot = at, !.version = @ + 1] = [placed EXCEPT !.version = @ + 1]
    OBVIOUS
  <2> HIDE DEF placed
  <2> QED BY <2>1, <2>2
<1> HIDE DEF v
<1>4. [state |-> row.state, slot |-> at, version |-> v] \in TaskRow
  BY <1>1 DEF TaskRow
<1> QED BY <1>1, <1>2, <1>3, <1>4 DEF v

\* A task in another state, with the next version.
LEMMA ChangedState ==
    ASSUME NEW row \in TaskRow, NEW st \in {"active", "done"}
    PROVE  LET new == [[row EXCEPT !.state = st] EXCEPT !.version = @ + 1]
           IN new \in TaskRow /\ new.version = row.version + 1
<1> DEFINE v == row.version + 1
           other == [row EXCEPT !.state = st]
<1>1. row.slot \in Interval /\ v \in Nat \ {0}
  BY DEF TaskRow
<1>2. other = [state |-> st, slot |-> row.slot, version |-> row.version]
  BY DEF TaskRow
<1> HIDE DEF other
<1>3. [other EXCEPT !.version = @ + 1] = [state |-> st, slot |-> row.slot, version |-> v]
  BY <1>2
<1> HIDE DEF v
<1>4. [state |-> st, slot |-> row.slot, version |-> v] \in TaskRow
  BY <1>1 DEF TaskRow
<1> QED BY <1>3, <1>4 DEF v, other

\* What TaskService writes to a task.
LEMMA TouchAdvances ==
    ASSUME ScheduleOK, NEW t \in Task, NEW row,
           LET new == [row EXCEPT !.version = @ + 1]
           IN new \in TaskRow /\ new.version = tasks[t].version + 1,
           Touch(t, row)
    PROVE  tasks' \in [Task -> TaskRow] /\ Advance(tasks, tasks')
<1> DEFINE new == [row EXCEPT !.version = @ + 1]
<1>1. new \in TaskRow /\ new.version = tasks[t].version + 1
  OBVIOUS
<1>2. tasks' = [tasks EXCEPT ![t] = new]
  BY DEF Touch
<1> HIDE DEF new
<1>3. tasks \in [Task -> TaskRow] /\ tasks[t].version \in Nat
  BY DEF ScheduleOK, TaskRow
<1>4. tasks' \in [Task -> TaskRow]
  BY <1>1, <1>2, <1>3
<1>5. ASSUME NEW u \in Task PROVE tasks'[u] = tasks[u] \/ tasks'[u].version > tasks[u].version
  <2>1. CASE u = t
    <3>1. tasks'[u] = new
      BY <1>2, <1>3, <2>1
    <3> QED BY <1>1, <1>3, <2>1, <3>1
  <2>2. CASE u # t
    BY <1>2, <1>3, <2>2
  <2> QED BY <2>1, <2>2
<1> QED BY <1>4, <1>5 DEF Advance

\* Users and calendar syncs keep the schedule well-formed, and whatever they
\* do to a task shows in its version.
LEMMA ChangesAdvance ==
    ASSUME ScheduleOK, ChangeSchedule
    PROVE  ScheduleOK' /\ Advance(tasks, tasks')
<1>1. /\ now \in Instants /\ tasks \in [Task -> TaskRow]
      /\ events \subseteq Event /\ IsFiniteSet(events) /\ writes \in 0..MaxWrites
  BY DEF ScheduleOK
<1>2. MaxWrites \in Nat /\ SpanChoices \union {NoSpan} \subseteq Interval
  <2>1. NoSpan \in Interval
    BY SpanIsInterval DEF NoSpan
  <2> QED BY <2>1, ScheduleAssumption
<1>3. Write => writes' \in 0..MaxWrites
  BY <1>1, <1>2 DEF Write
<1>4. tasks' = tasks => Advance(tasks, tasks')
  BY DEF Advance
<1>5. ASSUME NEW t \in Task, NEW at \in SpanChoices \union {NoSpan}, Reschedule(t, at)
      PROVE  ScheduleOK' /\ Advance(tasks, tasks')
  <2>1. tasks[t] \in TaskRow /\ at \in Interval
    BY <1>1, <1>2
  <2>2. tasks[t] = [state |-> tasks[t].state, slot |-> tasks[t].slot,
                    version |-> tasks[t].version]
    BY <2>1 DEF TaskRow
  <2>3. [[tasks[t] EXCEPT !.slot = at] EXCEPT !.version = @ + 1]
            = [tasks[t] EXCEPT !.version = @ + 1, !.slot = at]
    BY <2>2
  <2> DEFINE new == [tasks[t] EXCEPT !.version = @ + 1, !.slot = at]
  <2>4. /\ new \in TaskRow
        /\ new = [state |-> tasks[t].state, slot |-> at, version |-> tasks[t].version + 1]
    BY <2>1, ChangedPlace
  <2> HIDE DEF new
  <2>5. new.version = tasks[t].version + 1
    BY <2>4
  <2>6. LET row == [[tasks[t] EXCEPT !.slot = at] EXCEPT !.version = @ + 1]
        IN row \in TaskRow /\ row.version = tasks[t].version + 1
    BY <2>3, <2>4, <2>5 DEF new
  <2>7. Touch(t, [tasks[t] EXCEPT !.slot = at])
    BY <1>5 DEF Reschedule
  <2>8. tasks' \in [Task -> TaskRow] /\ Advance(tasks, tasks')
    BY <2>6, <2>7, TouchAdvances
  <2>9. now' = now /\ events' = events /\ Write
    BY <1>5 DEF Reschedule
  <2> QED BY <1>1, <1>3, <2>8, <2>9 DEF ScheduleOK
<1>6. ASSUME NEW t \in Task, NEW st \in {"active", "done"}, SetState(t, st)
      PROVE  ScheduleOK' /\ Advance(tasks, tasks')
  <2>1. tasks[t] \in TaskRow /\ tasks[t].slot \in Interval
    BY <1>1 DEF TaskRow
  <2>2. LET new == [[tasks[t] EXCEPT !.state = st] EXCEPT !.version = @ + 1]
        IN new \in TaskRow /\ new.version = tasks[t].version + 1
    BY <2>1, ChangedState
  <2>3. Touch(t, [tasks[t] EXCEPT !.state = st])
    BY <1>6 DEF SetState
  <2>4. tasks' \in [Task -> TaskRow] /\ Advance(tasks, tasks')
    BY <2>2, <2>3, TouchAdvances
  <2>5. now' = now /\ events' = events /\ Write
    BY <1>6 DEF SetState
  <2> QED BY <1>1, <1>3, <2>4, <2>5 DEF ScheduleOK
<1>7. ASSUME NEW at \in SpanChoices, CreateEvent(at) \/ SyncEvent(at)
      PROVE  ScheduleOK' /\ Advance(tasks, tasks')
  <2>1. [at |-> at, task |-> NoTask] \in Event
    BY <1>2 DEF Event
  <2>2. /\ events' = events \union {[at |-> at, task |-> NoTask]} /\ Write
        /\ now' = now /\ tasks' = tasks
    BY <1>7 DEF CreateEvent, SyncEvent
  <2>3. IsFiniteSet(events')
    BY <1>1, <2>2, FS_AddElement
  <2> QED BY <1>1, <1>3, <1>4, <2>1, <2>2, <2>3 DEF ScheduleOK
<1>8. ASSUME NEW e \in events, CancelEvent(e)
      PROVE  ScheduleOK' /\ Advance(tasks, tasks')
  <2>1. events' = events \ {e} /\ Write /\ now' = now /\ tasks' = tasks
    BY <1>8 DEF CancelEvent
  <2>2. IsFiniteSet(events')
    BY <1>1, <2>1, FS_Difference
  <2> QED BY <1>1, <1>3, <1>4, <2>1, <2>2 DEF ScheduleOK
<1>9. ASSUME NEW t \in Instants, Tick(t)
      PROVE  ScheduleOK' /\ Advance(tasks, tasks')
  BY <1>1, <1>4, <1>9 DEF Tick, ScheduleOK
<1> QED BY <1>5, <1>6, <1>7, <1>8, <1>9 DEF ChangeSchedule

\* The schedule begins well-formed.
LEMMA InitialSchedule ==
    ASSUME ScheduleInit
    PROVE  ScheduleOK
<1>1. tasks \in [Task -> TaskRow]
  BY ScheduleAssumption DEF ScheduleInit, TaskRow
<1>2. IsFiniteSet({})
  BY FS_EmptySet
<1> QED BY <1>1, <1>2, ScheduleAssumption DEF ScheduleInit, ScheduleOK

-----------------------------------------------------------------------------
(* What changes a plan *)

\* What is left of a feasible plan is feasible.
LEMMA SubsetIsSound ==
    ASSUME NEW items, Sound(items), NEW some \in SUBSET items
    PROVE  Sound(some)
<1>1. some \in SUBSET Item /\ IsFiniteSet(some)
  BY FS_Subset DEF Sound
<1>2. PlacedOf(some) \subseteq PlacedOf(items)
  BY DEF PlacedOf
<1>3. ASSUME NEW d \in DaysOf(some) PROVE MinutesOn(some, d) <= DailyLimit
  <2>1. MinutesOn(items, d) <= DailyLimit
    <3>1. d \in DaysOf(items)
      BY <1>2 DEF DaysOf
    <3> QED BY <3>1 DEF Sound, Feasible, WithinDailyLimit
  <2>2. UnitsOf(PlacedOn(some, d)) \in SUBSET UnitsOf(PlacedOn(items, d))
    BY <1>2 DEF UnitsOf, PlacedOn
  <2>3. PlacedOn(items, d) \in SUBSET items
    BY DEF PlacedOn, PlacedOf
  <2>4. PlacedOn(items, d) \in SUBSET Item /\ IsFiniteSet(PlacedOn(items, d))
    BY <2>3, FS_Subset DEF Sound
  <2>5. IsFiniteSet(UnitsOf(PlacedOn(items, d)))
    BY <2>4, UnitsAreFinite
  <2>6. Cardinality(UnitsOf(PlacedOn(some, d))) <= Cardinality(UnitsOf(PlacedOn(items, d)))
    BY <2>2, <2>5, FS_Subset
  <2>7. /\ Cardinality(UnitsOf(PlacedOn(some, d))) \in Nat
        /\ Cardinality(UnitsOf(PlacedOn(items, d))) \in Nat
    BY <2>2, <2>5, FS_Subset, FS_CardinalityType
  <2> QED BY <2>1, <2>6, <2>7, PlannerAssumption DEF MinutesOn, Minutes
<1>4. \A s \in Reserved(some) : InWorkHours(s)
  BY <1>2 DEF Reserved, Sound, Feasible
<1>5. ItemsAreApart(some)
  BY <1>2 DEF ItemsAreApart, Sound, Feasible
<1> QED BY <1>1, <1>3, <1>4, <1>5 DEF Sound, Feasible, WithinDailyLimit

\* A plan has all of its tasks, and decisions that put any of them in an order.
IsWhole(row) ==
    /\ \A t \in row.tasks : Whole(row.items, t)
    /\ Knotless(row.tasks, row.decisions)

\* All that is known of one plan, and what it is compared with.
PlanHolds(row, view, base, rows) ==
    /\ row \in PlanRow /\ Sound(row.items) /\ IsWhole(row)
    /\ view \in View /\ ViewFollows(row, view)
    /\ base \in [Task -> TaskRow] /\ BasisFollows(row, base, rows)

\* The tasks of an order up to one of them.
Earlier(order, n) == {order[k] : k \in 1..n}

\* The order in which a proposal places its tasks is complete.
InOrderOf(order, ts) == order \in Seq(ts) /\ Distinct(order) /\ Earlier(order, Len(order)) = ts

\* The items of the tasks that have been placed go together and are whole, and
\* they spare what each of the queries has met.
PlacedSoFar(items, placed, base, decisions, known, at) ==
    /\ Sound(items)
    /\ \A i \in items : i.task \in placed /\ i.version = base[i.task].version
    /\ \A t \in placed : AllOrNothing(ItemsOf(items, {t}), t)
    /\ KeepsDecisions(items, decisions, known, at)

\* All that is known of a proposal that holds no lock.
ProposalHolds(r, base) ==
    /\ r.row \in PlanRow /\ r.row.status = "draft" /\ r.row.version = 1
    /\ r.at \in Nat /\ r.row.expires = r.at + PlanTTL
    /\ r.order \in Seq(Task) /\ InOrderOf(r.order, r.row.tasks)
    /\ Knotless(r.row.tasks, r.row.decisions)
    /\ r.reads \in {"events", "tasks"} /\ r.done \in 0..Len(r.order)
    /\ r.reads = "tasks" => r.done < Len(r.order)
    /\ r.spans \in SUBSET Interval /\ IsFiniteSet(r.spans) /\ r.known \in SUBSET Interval
    /\ PlacedSoFar(r.row.items, Earlier(r.order, r.done), base, r.row.decisions, r.known, r.at)

\* What is proposed without a lock is no plan yet.
MakingHolds(r, row, base) ==
    /\ row.status = "none" => row.items = {}
    /\ r # NoProposal => row.status = "none" /\ r \in Proposal /\ ProposalHolds(r, base)

PlansHold ==
    /\ ScheduleOK
    /\ plan \in [Plan -> PlanRow] /\ seen \in [Plan -> View]
    /\ basis \in [Plan -> [Task -> TaskRow]]
    /\ proposing \in [Plan -> Proposal \union {NoProposal}]
    /\ \A p \in Plan : PlanHolds(plan[p], seen[p], basis[p], tasks)
    /\ \A p \in Plan : MakingHolds(proposing[p], plan[p], basis[p])

\* What is inductive implies what is checked.
LEMMA PlansHoldSuffices ==
    ASSUME PlansHold
    PROVE  PlanInv
<1>1. ScheduleOK /\ SlotsAreTheRoom
  BY SlotsAreRoom DEF PlansHold
<1>2. TypeOK
  BY DEF PlansHold, PlanHolds, Sound, TypeOK
<1>3. DraftsAreFeasible
  BY DEF PlansHold, PlanHolds, Sound, DraftsAreFeasible
<1>4. PlansFollowTasks
  BY DEF PlansHold, PlanHolds, PlansFollowTasks
<1>5. DraftsAreWhole
  BY DEF PlansHold, PlanHolds, IsWhole, DraftsAreWhole
<1> QED BY <1>1, <1>2, <1>3, <1>4, <1>5 DEF PlanInv

\* Whatever changes in the schedule, what is known of a plan stays true.
LEMMA PlanAdvances ==
    ASSUME NEW rows \in [Task -> TaskRow], NEW new \in [Task -> TaskRow], Advance(rows, new),
           NEW row, NEW view, NEW base, PlanHolds(row, view, base, rows)
    PROVE  PlanHolds(row, view, base, new)
<1>1. base \in [Task -> TaskRow] /\ BasisFollows(row, base, rows)
  BY DEF PlanHolds
<1>2. ASSUME NEW t \in Task
      PROVE  /\ base[t].version <= new[t].version
             /\ base[t].version = new[t].version => base[t] = new[t]
  <2>1. /\ base[t].version \in Nat /\ rows[t].version \in Nat /\ new[t].version \in Nat
    BY <1>1 DEF TaskRow
  <2>2. /\ base[t].version <= rows[t].version
        /\ base[t].version = rows[t].version => base[t] = rows[t]
    BY <1>1 DEF BasisFollows
  <2>3. new[t] = rows[t] \/ new[t].version > rows[t].version
    BY DEF Advance
  <2>4. CASE new[t] = rows[t]
    BY <2>2, <2>4
  <2>5. CASE new[t].version > rows[t].version
    BY <2>1, <2>2, <2>5
  <2> QED BY <2>3, <2>4, <2>5
<1>3. BasisFollows(row, base, new)
  BY <1>1, <1>2 DEF BasisFollows
<1> QED BY <1>1, <1>3 DEF PlanHolds

\* One plan becomes another row, with what was shown of it, its basis, and what
\* makes it.
LEMMA OnePlanBecomes ==
    ASSUME PlansHold, NEW p \in Plan, NEW row, NEW view, NEW base, NEW r,
           ScheduleOK', Advance(tasks, tasks'),
           PlanHolds(row, view, base, tasks),
           r \in Proposal \union {NoProposal}, MakingHolds(r, row, base),
           plan' = [plan EXCEPT ![p] = row], seen' = [seen EXCEPT ![p] = view],
           basis' = [basis EXCEPT ![p] = base], proposing' = [proposing EXCEPT ![p] = r]
    PROVE  PlansHold'
<1>1. row \in PlanRow /\ view \in View /\ base \in [Task -> TaskRow]
  BY DEF PlanHolds
<1>2. /\ plan' \in [Plan -> PlanRow] /\ seen' \in [Plan -> View]
      /\ basis' \in [Plan -> [Task -> TaskRow]]
      /\ proposing' \in [Plan -> Proposal \union {NoProposal}]
  <2>1. proposing \in [Plan -> Proposal \union {NoProposal}]
    BY DEF PlansHold
  <2>2. proposing' \in [Plan -> Proposal \union {NoProposal}]
    BY <2>1
  <2> QED BY <1>1, <2>2 DEF PlansHold
<1>3. tasks \in [Task -> TaskRow] /\ tasks' \in [Task -> TaskRow]
  BY DEF PlansHold, ScheduleOK
<1>4. ASSUME NEW q \in Plan
      PROVE  /\ PlanHolds(plan'[q], seen'[q], basis'[q], tasks')
             /\ MakingHolds(proposing'[q], plan'[q], basis'[q])
  <2>1. CASE q = p
    <3>1. plan'[q] = row /\ seen'[q] = view /\ basis'[q] = base /\ proposing'[q] = r
      BY <2>1 DEF PlansHold
    <3>2. PlanHolds(row, view, base, tasks')
      BY <1>3, PlanAdvances
    <3> QED BY <3>1, <3>2
  <2>2. CASE q # p
    <3>1. /\ plan'[q] = plan[q] /\ seen'[q] = seen[q] /\ basis'[q] = basis[q]
          /\ proposing'[q] = proposing[q]
      BY <2>2 DEF PlansHold
    <3>2. /\ PlanHolds(plan[q], seen[q], basis[q], tasks)
          /\ MakingHolds(proposing[q], plan[q], basis[q])
      BY DEF PlansHold
    <3>3. PlanHolds(plan[q], seen[q], basis[q], tasks')
      BY <1>3, <3>2, PlanAdvances
    <3> QED BY <3>1, <3>2, <3>3
  <2> QED BY <2>1, <2>2
<1> QED BY <1>2, <1>4 DEF PlansHold

\* A plan that is there is not being proposed.
LEMMA NoneProposes ==
    ASSUME PlansHold, NEW p \in Plan, plan[p].status # "none"
    PROVE  proposing[p] = NoProposal
BY DEF PlansHold, MakingHolds

\* A plan that is there becomes another row.
LEMMA OnePlanChanges ==
    ASSUME PlansHold, NEW p \in Plan, NEW row, NEW view, NEW base,
           ScheduleOK', Advance(tasks, tasks'),
           PlanHolds(row, view, base, tasks),
           plan[p].status # "none", row.status # "none",
           plan' = [plan EXCEPT ![p] = row], seen' = [seen EXCEPT ![p] = view],
           basis' = [basis EXCEPT ![p] = base], proposing' = proposing
    PROVE  PlansHold'
<1>1. proposing' = [proposing EXCEPT ![p] = NoProposal]
  BY NoneProposes DEF PlansHold
<1>2. MakingHolds(NoProposal, row, base)
  BY DEF MakingHolds
<1> QED BY <1>1, <1>2, OnePlanBecomes

\* What a client was shown, and what a plan is based on, stays as it is.
LEMMA OneRowChanges ==
    ASSUME PlansHold, NEW p \in Plan, NEW row,
           ScheduleOK', Advance(tasks, tasks'),
           PlanHolds(row, seen[p], basis[p], tasks),
           plan[p].status # "none", row.status # "none",
           plan' = [plan EXCEPT ![p] = row], seen' = seen, basis' = basis,
           proposing' = proposing
    PROVE  PlansHold'
<1>1. seen' = [seen EXCEPT ![p] = seen[p]] /\ basis' = [basis EXCEPT ![p] = basis[p]]
  BY DEF PlansHold
<1> QED BY <1>1, OnePlanChanges

\* The row that edits and renewals leave behind.
LEMMA RenewedRow ==
    ASSUME PlansHold, NEW p \in Plan, NEW items, NEW decisions \in [Task -> Decision],
           Sound(items)
    PROVE  LET new == Renewed(p, items, decisions)
           IN /\ new \in PlanRow /\ new.items = items /\ new.status = plan[p].status
              /\ new.version = plan[p].version + 1 /\ new.tasks = plan[p].tasks
              /\ new.decisions = decisions
<1> DEFINE row == plan[p]
           e == now + PlanTTL
           v == row.version + 1
           r1 == [row EXCEPT !.items = items]
           r2 == [r1 EXCEPT !.decisions = decisions]
           r3 == [r2 EXCEPT !.expires = e]
           r4 == [r3 EXCEPT !.version = v]
           new == [status |-> row.status, version |-> v, items |-> items,
                   decisions |-> decisions, range |-> row.range, expires |-> e,
                   strategy |-> row.strategy, tasks |-> row.tasks]
<1>1. row \in PlanRow /\ e \in Nat /\ v \in Nat
  BY ScheduleAssumption, PlanningAssumption DEF PlansHold, ScheduleOK, PlanRow
<1>2. Renewed(p, items, decisions) = r4
  BY DEF Renewed
<1> HIDE DEF row, e, v
<1>3. r1 = [status |-> row.status, version |-> row.version, items |-> items,
            decisions |-> row.decisions, range |-> row.range, expires |-> row.expires,
            strategy |-> row.strategy, tasks |-> row.tasks]
  BY <1>1 DEF PlanRow
<1> HIDE DEF r1
<1>4. r2 = [status |-> row.status, version |-> row.version, items |-> items,
            decisions |-> decisions, range |-> row.range, expires |-> row.expires,
            strategy |-> row.strategy, tasks |-> row.tasks]
  BY <1>3
<1> HIDE DEF r2
<1>5. r3 = [status |-> row.status, version |-> row.version, items |-> items,
            decisions |-> decisions, range |-> row.range, expires |-> e,
            strategy |-> row.strategy, tasks |-> row.tasks]
  BY <1>4
<1> HIDE DEF r3
<1>6. r4 = new
  BY <1>5
<1> HIDE DEF r4
<1>7. /\ row.status \in {"none", "draft"} \union Ended /\ row.range \in Interval
      /\ row.strategy \in {"plan_tasks_only", "create_linked_event_blocks"}
      /\ row.tasks \in SUBSET Task
  BY <1>1 DEF PlanRow
<1>8. new \in PlanRow
  BY <1>1, <1>7 DEF PlanRow, Sound
<1> QED BY <1>2, <1>6, <1>8 DEF row, v

\* The row that a plan leaves when it ends.
LEMMA EndedRow ==
    ASSUME NEW row \in PlanRow, NEW status \in Ended
    PROVE  LET new == [row EXCEPT !.status = status, !.version = row.version + 1]
           IN /\ new \in PlanRow /\ new.items = row.items /\ new.status = status
              /\ new.version = row.version + 1 /\ new.tasks = row.tasks
              /\ new.decisions = row.decisions
<1> DEFINE v == row.version + 1
           r1 == [row EXCEPT !.status = status]
           r2 == [r1 EXCEPT !.version = v]
           new == [status |-> status, version |-> v, items |-> row.items,
                   decisions |-> row.decisions, range |-> row.range, expires |-> row.expires,
                   strategy |-> row.strategy, tasks |-> row.tasks]
<1>1. /\ row.version \in Nat /\ v \in Nat /\ row.items \in SUBSET Item
      /\ row.decisions \in [Task -> Decision] /\ row.range \in Interval
      /\ row.expires \in Nat /\ row.tasks \in SUBSET Task
      /\ row.strategy \in {"plan_tasks_only", "create_linked_event_blocks"}
  BY DEF PlanRow
<1>2. [row EXCEPT !.status = status, !.version = v] = r2
  OBVIOUS
<1>3. r1 = [status |-> status, version |-> row.version, items |-> row.items,
            decisions |-> row.decisions, range |-> row.range, expires |-> row.expires,
            strategy |-> row.strategy, tasks |-> row.tasks]
  BY DEF PlanRow
<1> HIDE DEF r1, v
<1>4. r2 = new
  BY <1>3
<1> HIDE DEF r2
<1>5. new \in PlanRow
  BY <1>1 DEF PlanRow
<1> QED BY <1>2, <1>4, <1>5 DEF v

\* A view of an earlier version says nothing of the next one.
LEMMA OldViewFollows ==
    ASSUME NEW row \in PlanRow, NEW view \in View, ViewFollows(row, view),
           NEW new, new.version = row.version + 1
    PROVE  ViewFollows(new, view)
<1>1. row.version \in Nat /\ view.version \in Nat /\ view.version <= row.version
  BY DEF PlanRow, View, ViewFollows
<1> QED BY <1>1 DEF ViewFollows

\* What propose_schedule_plan has built.
LEMMA DraftIsBuilt ==
    ASSUME ScheduleOK, NEW ts \in SUBSET Task, NEW decisions \in DecisionChoices,
           NEW strategy, NEW range \in RangeChoices, NEW ordering \in Ordering
    PROVE  /\ BuiltFrom(Draft(ts, decisions, strategy, range, ordering).items, ts, Versions, {})
           /\ KeepsDecisions(Draft(ts, decisions, strategy, range, ordering).items,
                             decisions, Busy(ts), now)
<1>1. PICK order : order = OrderedTasks(ts, ordering, decisions)
  OBVIOUS
<1>2. order \in Seq(ts) /\ Distinct(order)
  BY <1>1, OrderedAreTasks
<1>3. PICK version : version = Versions
  OBVIOUS
<1>4. PICK busy : busy = Busy(ts)
  OBVIOUS
<1>5. PICK notBefore : notBefore = now
  OBVIOUS
<1>6. PICK retained : retained = {}
  OBVIOUS
<1>7. /\ version \in [Task -> Nat] /\ notBefore \in Nat
      /\ busy \in SUBSET Interval /\ IsFiniteSet(busy)
      /\ decisions \in [Task -> Decision] /\ range \in Interval
  <2>1. \A t \in Task : tasks[t].version \in Nat
    BY DEF ScheduleOK, TaskRow
  <2> QED BY <1>3, <1>4, <1>5, <2>1, BusyIsFinite, ScheduleAssumption, PlanningAssumption
          DEF Versions, ScheduleOK
<1> DEFINE items == BuildPlanItems(order, version, decisions, busy, range, notBefore,
                                   strategy, retained)
<1>8. Draft(ts, decisions, strategy, range, ordering).items = items
  BY <1>1, <1>3, <1>4, <1>5, <1>6 DEF Draft, NewRow
<1>9. BuiltFrom(items, ts, version, retained)
  <2>1. Sound(retained)
    BY <1>6, NothingIsSound
  <2> QED BY <1>2, <1>7, <2>1, BuiltPlansAreSound
<1>10. KeepsDecisions(BuildPlanItems(order, version, decisions, busy, range, notBefore,
                                     strategy, {}), decisions, busy, notBefore)
  BY <1>2, <1>7, BuiltPlansAreDecided
<1>11. KeepsDecisions(items, decisions, busy, notBefore)
  BY <1>6, <1>10
<1> HIDE DEF items
<1> QED BY <1>3, <1>4, <1>5, <1>6, <1>8, <1>9, <1>11

\* It has all of the tasks it was asked for.
LEMMA DraftIsWhole ==
    ASSUME ScheduleOK, NEW ts \in SUBSET Task, NEW decisions \in DecisionChoices,
           NEW strategy, NEW range \in RangeChoices, NEW ordering \in Ordering,
           Acyclic(ts, decisions)
    PROVE  /\ BuiltWhole(Draft(ts, decisions, strategy, range, ordering).items, ts, ts, {})
           /\ Knotless(ts, decisions)
<1>1. PICK order : order = OrderedTasks(ts, ordering, decisions)
  OBVIOUS
<1>2. order \in Seq(ts) /\ Distinct(order)
  BY <1>1, OrderedAreTasks
<1>3. Knotless(ts, decisions)
  BY AcyclicIsKnotless
<1>4. {order[k] : k \in 1..Len(order)} = ts
  <2>1. \A t \in ts : \E k \in 1..Len(order) : order[k] = t
    BY <1>1, <1>3, OrderedAreAll
  <2>2. \A k \in 1..Len(order) : order[k] \in ts
    BY <1>2
  <2> QED BY <2>1, <2>2
<1>5. PICK version : version = Versions
  OBVIOUS
<1>6. PICK busy : busy = Busy(ts)
  OBVIOUS
<1>7. PICK notBefore : notBefore = now
  OBVIOUS
<1>8. PICK retained : retained = {}
  OBVIOUS
<1>9. /\ version \in [Task -> Nat] /\ notBefore \in Nat
      /\ busy \in SUBSET Interval /\ IsFiniteSet(busy)
      /\ decisions \in [Task -> Decision] /\ range \in Interval
  <2>1. \A t \in Task : tasks[t].version \in Nat
    BY DEF ScheduleOK, TaskRow
  <2> QED BY <1>5, <1>6, <1>7, <2>1, BusyIsFinite, ScheduleAssumption, PlanningAssumption
          DEF Versions, ScheduleOK
<1>10. Sound(retained) /\ \A i \in retained : i.task \notin ts
  BY <1>8, NothingIsSound
<1> DEFINE items == BuildPlanItems(order, version, decisions, busy, range, notBefore,
                                   strategy, retained)
<1>11. BuiltWhole(items, {order[k] : k \in 1..Len(order)}, ts, retained)
  BY <1>2, <1>9, <1>10, BuiltPlansAreWhole
<1>12. Draft(ts, decisions, strategy, range, ordering).items = items
  BY <1>1, <1>5, <1>6, <1>7, <1>8 DEF Draft, NewRow
<1> HIDE DEF items
<1> QED BY <1>3, <1>4, <1>8, <1>11, <1>12

\* propose_schedule_plan.
LEMMA ProposeKeeps ==
    ASSUME PlansHold, NEW p \in Plan, NEW ts \in SUBSET Task, NEW decisions \in DecisionChoices,
           NEW strategy \in Strategy, NEW range \in RangeChoices, NEW ordering \in Ordering,
           Propose(p, ts, decisions, strategy, range, ordering)
    PROVE  PlansHold'
<1> DEFINE order == OrderedTasks(ts, ordering, decisions)
           items == BuildPlanItems(order, Versions, decisions, Busy(ts), range, now,
                                   strategy, {})
           row == Draft(ts, decisions, strategy, range, ordering)
<1>1. /\ ScheduleOK /\ tasks \in [Task -> TaskRow] /\ now \in Nat
      /\ decisions \in [Task -> Decision] /\ range \in Interval /\ PlanTTL \in Nat
      /\ strategy \in {"plan_tasks_only", "create_linked_event_blocks"}
  BY ScheduleAssumption, PlanningAssumption DEF PlansHold, ScheduleOK
<1>2. Versions \in [Task -> Nat] /\ \A t \in Task : Versions[t] = tasks[t].version
  BY <1>1 DEF Versions, TaskRow
<1>3. BuiltFrom(items, ts, Versions, {})
  BY <1>1, DraftIsBuilt DEF Draft, NewRow
<1>4. row = [status |-> "draft", version |-> 1, decisions |-> decisions,
             strategy |-> strategy, range |-> range, tasks |-> ts, expires |-> now + PlanTTL,
             items |-> items]
  BY DEF Draft, NewRow
<1> HIDE DEF items, row
<1>5. Sound(items) /\ \A i \in items : i.task \in ts /\ i.version = Versions[i.task]
  BY <1>3 DEF BuiltFrom
<1>6. row \in PlanRow
  BY <1>1, <1>4, <1>5 DEF PlanRow, Sound
<1>7. NoView \in View /\ ViewFollows(row, NoView)
  BY <1>4 DEF NoView, View, ViewFollows
<1>8. BasisFollows(row, tasks, tasks)
  <2>1. \A i \in row.items : i.task \in row.tasks /\ i.version = tasks[i.task].version
    BY <1>2, <1>4, <1>5
  <2>2. \A t \in Task : tasks[t].version \in Nat
    BY <1>1 DEF TaskRow
  <2> QED BY <2>1, <2>2 DEF BasisFollows
<1>9. PlanHolds(row, NoView, tasks, tasks)
  <2>1. BuiltWhole(row.items, ts, ts, {}) /\ Knotless(ts, decisions)
    <3>1. Acyclic(ts, decisions)
      BY DEF Propose, Requestable
    <3> QED BY <1>1, <3>1, DraftIsWhole DEF row
  <2>2. row.tasks = ts /\ row.decisions = decisions
    BY <1>4
  <2>3. \A t \in ts : Whole(row.items, t)
    BY <2>1 DEF BuiltWhole, AllOrNothing, Whole
  <2>4. IsWhole(row)
    BY <2>1, <2>2, <2>3 DEF IsWhole
  <2> QED BY <1>1, <1>4, <1>5, <1>6, <1>7, <1>8, <2>4 DEF PlanHolds
<1>10. /\ plan' = [plan EXCEPT ![p] = row] /\ seen' = [seen EXCEPT ![p] = NoView]
       /\ basis' = [basis EXCEPT ![p] = tasks] /\ UNCHANGED scheduleVars
  BY DEF Propose, row
<1>11. ScheduleOK' /\ Advance(tasks, tasks')
  BY <1>1, <1>10 DEF scheduleVars, ScheduleOK, Advance
<1>12. proposing' = [proposing EXCEPT ![p] = NoProposal]
  BY DEF Propose, Unused, PlansHold
<1>13. MakingHolds(NoProposal, row, tasks)
  BY <1>4 DEF MakingHolds
<1> QED BY <1>9, <1>10, <1>11, <1>12, <1>13, OnePlanBecomes

\* A step of a proposal without a lock changes nothing that others see.
LEMMA ProposalMovesOn ==
    ASSUME PlansHold, NEW p \in Plan, plan[p].status = "none",
           NEW base, base = tasks \/ base = basis[p],
           NEW r \in Proposal, ProposalHolds(r, base),
           UNCHANGED scheduleVars, plan' = plan, seen' = seen,
           basis' = [basis EXCEPT ![p] = base], proposing' = [proposing EXCEPT ![p] = r]
    PROVE  PlansHold'
<1>1. /\ ScheduleOK /\ tasks \in [Task -> TaskRow]
      /\ PlanHolds(plan[p], seen[p], basis[p], tasks)
      /\ MakingHolds(proposing[p], plan[p], basis[p])
  BY DEF PlansHold, ScheduleOK
<1>2. ScheduleOK' /\ Advance(tasks, tasks')
  BY <1>1 DEF scheduleVars, ScheduleOK, Advance
<1>3. base \in [Task -> TaskRow] /\ BasisFollows(plan[p], base, tasks)
  <2>1. plan[p].items = {}
    BY <1>1 DEF MakingHolds
  <2>2. \A t \in Task : tasks[t].version \in Nat
    BY <1>1 DEF TaskRow
  <2>3. BasisFollows(plan[p], tasks, tasks)
    BY <2>1, <2>2 DEF BasisFollows
  <2> QED BY <1>1, <2>3 DEF PlanHolds
<1>4. PlanHolds(plan[p], seen[p], base, tasks)
  BY <1>1, <1>3 DEF PlanHolds
<1>5. MakingHolds(r, plan[p], base)
  BY <1>1 DEF MakingHolds
<1>6. plan' = [plan EXCEPT ![p] = plan[p]] /\ seen' = [seen EXCEPT ![p] = seen[p]]
  BY DEF PlansHold
<1> QED BY <1>2, <1>4, <1>5, <1>6, OnePlanBecomes

\* It begins with nothing placed.
LEMMA BeginProposalKeeps ==
    ASSUME PlansHold, NEW p \in Plan, NEW ts \in SUBSET Task, NEW decisions \in DecisionChoices,
           NEW strategy \in Strategy, NEW range \in RangeChoices, NEW ordering \in Ordering,
           BeginProposal(p, ts, decisions, strategy, range, ordering)
    PROVE  PlansHold'
<1>1. PICK order : order = OrderedTasks(ts, ordering, decisions)
  OBVIOUS
<1> DEFINE row == NewRow(ts, decisions, strategy, range, {})
           r == [row |-> row, order |-> order, done |-> 0, at |-> now,
                 reads |-> "events", spans |-> {}, known |-> Busy(ts)]
<1>2. /\ ScheduleOK /\ now \in Nat /\ tasks \in [Task -> TaskRow]
      /\ decisions \in [Task -> Decision] /\ range \in Interval /\ PlanTTL \in Nat
      /\ strategy \in {"plan_tasks_only", "create_linked_event_blocks"}
  BY ScheduleAssumption, PlanningAssumption DEF PlansHold, ScheduleOK
<1>3. /\ row \in PlanRow /\ row.status = "draft" /\ row.version = 1 /\ row.items = {}
      /\ row.expires = now + PlanTTL /\ row.tasks = ts /\ row.decisions = decisions
  BY <1>2 DEF NewRow, PlanRow
<1>4. order \in Seq(ts) /\ Distinct(order)
  BY <1>1, OrderedAreTasks
<1>5. Knotless(ts, decisions)
  BY AcyclicIsKnotless DEF BeginProposal, Requestable
<1>6. InOrderOf(order, ts)
  <2>1. \A t \in ts : \E k \in 1..Len(order) : order[k] = t
    BY <1>1, <1>5, OrderedAreAll
  <2>2. \A k \in 1..Len(order) : order[k] \in ts
    BY <1>4
  <2> QED BY <1>4, <2>1, <2>2 DEF InOrderOf, Earlier
<1>7. order \in Seq(Task) /\ Len(order) \in Nat
  BY <1>4
<1>8. Busy(ts) \in SUBSET Interval
  BY <1>2, BusyIsFinite
<1>9. PICK none : none = {}
  OBVIOUS
<1>10. PlacedSoFar(none, Earlier(order, 0), tasks, decisions, Busy(ts), now)
  <2>1. Earlier(order, 0) = {} /\ PlacedOf(none) = {}
    BY <1>9 DEF Earlier, PlacedOf
  <2>2. Sound(none)
    BY <1>9, NothingIsSound
  <2> QED BY <1>9, <2>1, <2>2 DEF PlacedSoFar, KeepsDecisions
<1>11. IsFiniteSet({})
  BY FS_EmptySet
<1> HIDE DEF row
<1>12. r \in Proposal
  BY <1>2, <1>3, <1>7, <1>8 DEF Proposal
<1>13. ProposalHolds(r, tasks)
  <2>1. r.row = row /\ r.order = order /\ r.done = 0 /\ r.at = now /\ r.reads = "events"
        /\ r.spans = {} /\ r.known = Busy(ts)
    OBVIOUS
  <2> HIDE DEF r
  <2>2. PlacedSoFar(r.row.items, Earlier(r.order, r.done), tasks, r.row.decisions, r.known, r.at)
    BY <1>3, <1>9, <1>10, <2>1
  <2>3. /\ r.row \in PlanRow /\ r.row.status = "draft" /\ r.row.version = 1
        /\ r.at \in Nat /\ r.row.expires = r.at + PlanTTL
    BY <1>2, <1>3, <2>1
  <2>4. /\ r.order \in Seq(Task) /\ InOrderOf(r.order, r.row.tasks)
        /\ Knotless(r.row.tasks, r.row.decisions)
    BY <1>3, <1>5, <1>6, <1>7, <2>1
  <2>5. r.reads = "events" /\ r.done \in 0..Len(r.order)
    <3>1. r.reads = "events" /\ r.done = 0 /\ r.order = order
      BY <2>1
    <3> QED BY <1>7, <3>1
  <2>6. r.spans \in SUBSET Interval /\ IsFiniteSet(r.spans) /\ r.known \in SUBSET Interval
    BY <1>8, <1>11, <2>1
  <2> QED BY <2>2, <2>3, <2>4, <2>5, <2>6 DEF ProposalHolds
<1>14. /\ plan[p].status = "none" /\ proposing' = [proposing EXCEPT ![p] = r]
       /\ basis' = [basis EXCEPT ![p] = tasks] /\ plan' = plan /\ seen' = seen
       /\ UNCHANGED scheduleVars
  BY <1>1 DEF BeginProposal, Unused, r, row
<1> HIDE DEF r
<1> QED BY <1>12, <1>13, <1>14, ProposalMovesOn

\* What is known of a proposal that is under way.
LEMMA UnderWay ==
    ASSUME PlansHold, NEW p \in Plan, proposing[p] # NoProposal
    PROVE  /\ plan[p].status = "none" /\ proposing[p] \in Proposal
           /\ ProposalHolds(proposing[p], basis[p]) /\ basis[p] \in [Task -> TaskRow]
BY DEF PlansHold, MakingHolds

\* It reads the events.
LEMMA ReadEventsKeeps ==
    ASSUME PlansHold, NEW p \in Plan, ReadEvents(p)
    PROVE  PlansHold'
<1> DEFINE r == proposing[p]
           r1 == [r EXCEPT !.reads = "tasks"]
           new == [row |-> r.row, order |-> r.order, done |-> r.done, at |-> r.at,
                   reads |-> "tasks", spans |-> EventSpans, known |-> r.known]
<1>1. /\ plan[p].status = "none" /\ r \in Proposal /\ ProposalHolds(r, basis[p])
      /\ r.done < Len(r.order)
  BY UnderWay DEF ReadEvents
<1>2. EventSpans \in SUBSET Interval /\ IsFiniteSet(EventSpans)
  <2>1. ScheduleOK
    BY DEF PlansHold
  <2>2. Busy({}) \in SUBSET Interval /\ IsFiniteSet(Busy({}))
    BY <2>1, BusyIsFinite
  <2>3. EventSpans \in SUBSET Busy({})
    BY DEF Busy
  <2> QED BY <2>2, <2>3, FS_Subset
<1>3. [r EXCEPT !.reads = "tasks", !.spans = EventSpans] = [r1 EXCEPT !.spans = EventSpans]
  OBVIOUS
<1>4. r1 = [row |-> r.row, order |-> r.order, done |-> r.done, at |-> r.at,
            reads |-> "tasks", spans |-> r.spans, known |-> r.known]
  <2> HIDE DEF r
  <2> QED BY <1>1 DEF Proposal
<1>5. [r1 EXCEPT !.spans = EventSpans] = new
  <2>1. PICK spans : spans = EventSpans
    OBVIOUS
  <2> HIDE DEF r1, r
  <2> QED BY <1>4, <2>1
<1>6. /\ proposing' = [proposing EXCEPT ![p] = new] /\ UNCHANGED scheduleVars
      /\ plan' = plan /\ seen' = seen /\ basis' = [basis EXCEPT ![p] = basis[p]]
  BY <1>3, <1>5 DEF ReadEvents, PlansHold
<1> HIDE DEF r1, r
<1>7. new \in Proposal
  BY <1>1, <1>2 DEF Proposal
<1>8. ProposalHolds(new, basis[p])
  BY <1>1, <1>2 DEF ProposalHolds
<1> HIDE DEF new
<1> QED BY <1>1, <1>6, <1>7, <1>8, ProposalMovesOn

\* Fewer intervals are spared as well.
LEMMA FewerAreSpared ==
    ASSUME NEW items, NEW decisions, NEW known, NEW fewer \in SUBSET known, NEW at,
           KeepsDecisions(items, decisions, known, at)
    PROVE  KeepsDecisions(items, decisions, fewer, at)
BY DEF KeepsDecisions, AsDecided, Clear

\* One more task is placed, sparing what its own query has met.
LEMMA AnotherIsPlaced ==
    ASSUME NEW items, NEW placed, NEW base \in [Task -> TaskRow],
           NEW decisions \in [Task -> Decision], NEW known \in SUBSET Interval, NEW at \in Nat,
           PlacedSoFar(items, placed, base, decisions, known, at),
           NEW t \in Task, t \notin placed,
           NEW busy \in SUBSET Interval, IsFiniteSet(busy), NEW range \in Interval, NEW strategy,
           NEW own, own = TaskItems(t, base[t].version, decisions[t], busy, range, at, strategy,
                                    items)
    PROVE  PlacedSoFar(items \union own, placed \union {t}, base, decisions,
                       known \intersect busy, at)
<1> DEFINE all == items \union own
           both == known \intersect busy
           version == base[t].version
<1>1. Sound(items) /\ version \in Nat /\ decisions[t] \in Decision
  BY DEF PlacedSoFar, TaskRow
<1>2. FitsAsDecided(own, t, version, decisions[t], busy, at, items)
  BY <1>1, TaskItemsAreSound
<1>3. /\ SegmentsOf(own, t, version, items) /\ AllOrNothing(own, t)
      /\ \A i \in PlacedOf(own) : AsDecided(i, decisions[t], busy, at, items)
      /\ decisions[t].exact # NoTime => \E i \in Item : own = {i}
  BY <1>2 DEF FitsAsDecided
<1>4. Sound(all) /\ \A i \in own : i.task = t /\ i.version = version
  BY <1>3 DEF SegmentsOf
<1>5. \A i \in items : i.task # t
  BY DEF PlacedSoFar
<1>6. KeepsDecisions(all, decisions, both, at)
  <2>1. FitsAsDecided(own, t, version, decisions[t], both, at, items)
    <3>1. \A i \in PlacedOf(own) : AsDecided(i, decisions[t], both, at, items)
      BY <1>3 DEF AsDecided, Clear
    <3> QED BY <1>3, <3>1 DEF FitsAsDecided
  <2>2. both \in SUBSET known
    OBVIOUS
  <2> HIDE DEF both, all
  <2>3. KeepsDecisions(items, decisions, both, at)
    BY <2>2, FewerAreSpared DEF PlacedSoFar
  <2>4. KeepsDecisions(items \union own, decisions, both, at)
    BY <1>5, <2>1, <2>3, AnotherTask
  <2> QED BY <2>4 DEF all
<1>7. ASSUME NEW u \in placed \union {t} PROVE AllOrNothing(ItemsOf(all, {u}), u)
  <2>1. CASE u = t
    <3>1. ItemsOf(all, {t}) = own
      BY <1>4, <1>5 DEF ItemsOf
    <3> QED BY <1>3, <2>1, <3>1
  <2>2. CASE u # t
    <3>1. ItemsOf(all, {u}) = ItemsOf(items, {u})
      BY <1>4, <2>2 DEF ItemsOf
    <3>2. AllOrNothing(ItemsOf(items, {u}), u)
      BY <2>2 DEF PlacedSoFar
    <3> QED BY <3>1, <3>2
  <2> QED BY <2>1, <2>2
<1>8. \A i \in all : i.task \in placed \union {t} /\ i.version = base[i.task].version
  BY <1>4 DEF PlacedSoFar
<1> HIDE DEF all, both
<1>9. PlacedSoFar(all, placed \union {t}, base, decisions, both, at)
  BY <1>4, <1>6, <1>7, <1>8 DEF PlacedSoFar
<1> QED BY <1>9 DEF all, both

\* It reads the planned intervals and places a task.
LEMMA PlaceNextKeeps ==
    ASSUME PlansHold, NEW p \in Plan, PlaceNext(p)
    PROVE  PlansHold'
<1> DEFINE r == proposing[p]
           n == r.done + 1
           t == r.order[n]
           busy == r.spans \union PlannedBut(tasks, r.row.tasks)
           own == TaskItems(t, basis[p][t].version, r.row.decisions[t], busy, r.row.range,
                            r.at, r.row.strategy, r.row.items)
           items == r.row.items \union own
           known == r.known \intersect busy
           row == [r.row EXCEPT !.items = items]
           new == [row |-> row, order |-> r.order, done |-> n, at |-> r.at,
                   reads |-> "events", spans |-> {}, known |-> known]
<1>1. /\ plan[p].status = "none" /\ r \in Proposal /\ ProposalHolds(r, basis[p])
      /\ basis[p] \in [Task -> TaskRow] /\ r.reads = "tasks"
  BY UnderWay DEF PlaceNext
<1>2. /\ proposing' = [proposing EXCEPT ![p] = new] /\ UNCHANGED scheduleVars
      /\ plan' = plan /\ seen' = seen /\ basis' = [basis EXCEPT ![p] = basis[p]]
  BY DEF PlaceNext, PlansHold
<1>3. /\ r.row \in PlanRow /\ r.row.status = "draft" /\ r.row.version = 1
      /\ r.at \in Nat /\ r.row.expires = r.at + PlanTTL
      /\ r.order \in Seq(Task) /\ InOrderOf(r.order, r.row.tasks)
      /\ Knotless(r.row.tasks, r.row.decisions)
      /\ r.done \in 0..Len(r.order) /\ r.done < Len(r.order)
      /\ r.spans \in SUBSET Interval /\ IsFiniteSet(r.spans) /\ r.known \in SUBSET Interval
      /\ PlacedSoFar(r.row.items, Earlier(r.order, r.done), basis[p], r.row.decisions,
                     r.known, r.at)
  BY <1>1 DEF ProposalHolds
<1> HIDE DEF r
<1>4. /\ r.row.decisions \in [Task -> Decision] /\ r.row.range \in Interval
      /\ r.row.tasks \in SUBSET Task
  BY <1>3 DEF PlanRow
<1>5. Len(r.order) \in Nat /\ n \in 1..Len(r.order) /\ t \in Task
  <2>1. Len(r.order) \in Nat
    BY <1>3
  <2>2. n \in 1..Len(r.order)
    BY <1>3, <2>1
  <2> HIDE DEF n
  <2> QED BY <1>3, <2>1, <2>2
<1>6. t \notin Earlier(r.order, r.done) /\ Earlier(r.order, n) = Earlier(r.order, r.done) \union {t}
  <2>1. 1..n = (1..r.done) \union {n}
    BY <1>3, <1>5
  <2>2. ASSUME NEW k \in 1..r.done PROVE r.order[k] # t
    <3>1. k \in 1..Len(r.order) /\ k # n
      BY <1>3, <1>5
    <3> QED BY <1>3, <1>5, <3>1 DEF InOrderOf, Distinct
  <2> HIDE DEF n
  <2> QED BY <2>1, <2>2 DEF Earlier
<1>7. busy \in SUBSET Interval /\ IsFiniteSet(busy)
  <2>1. PICK ts \in SUBSET Task : ts = r.row.tasks
    BY <1>4
  <2>2. ScheduleOK
    BY DEF PlansHold
  <2>3. Busy(ts) \in SUBSET Interval /\ IsFiniteSet(Busy(ts))
    BY <2>2, BusyIsFinite
  <2>4. PlannedBut(tasks, ts) \in SUBSET Busy(ts)
    BY DEF Busy
  <2>5. PlannedBut(tasks, ts) \in SUBSET Interval /\ IsFiniteSet(PlannedBut(tasks, ts))
    BY <2>3, <2>4, FS_Subset
  <2> QED BY <1>3, <2>1, <2>5, FS_Union
<1> HIDE DEF t, busy
<1>8. PlacedSoFar(items, Earlier(r.order, n), basis[p], r.row.decisions, known, r.at)
  <2>1. PICK before : before = r.row.items
    OBVIOUS
  <2>2. PICK decisions \in [Task -> Decision] : decisions = r.row.decisions
    BY <1>4
  <2>3. PICK placed : placed = Earlier(r.order, r.done)
    OBVIOUS
  <2>4. PICK range \in Interval : range = r.row.range
    BY <1>4
  <2>5. PICK base \in [Task -> TaskRow] : base = basis[p]
    BY <1>1
  <2>6. PICK at \in Nat : at = r.at
    BY <1>3
  <2>7. PICK met \in SUBSET Interval : met = r.known
    BY <1>3
  <2>8. PICK strategy : strategy = r.row.strategy
    OBVIOUS
  <2>9. PlacedSoFar(before, placed, base, decisions, met, at) /\ t \notin placed
    BY <1>3, <1>6, <2>1, <2>2, <2>3, <2>5, <2>6, <2>7
  <2>10. own = TaskItems(t, base[t].version, decisions[t], busy, range, at, strategy, before)
    BY <2>1, <2>2, <2>4, <2>5, <2>6, <2>8
  <2> HIDE DEF own, items, known
  <2>11. PlacedSoFar(before \union own, placed \union {t}, base, decisions,
                     met \intersect busy, at)
    BY <1>5, <1>7, <2>9, <2>10, AnotherIsPlaced
  <2>12. items = before \union own /\ known = met \intersect busy
    BY <2>1, <2>7 DEF items, known
  <2> QED BY <1>6, <2>2, <2>3, <2>5, <2>6, <2>11, <2>12
<1> HIDE DEF own, items
<1>9. /\ row \in PlanRow /\ row.status = "draft" /\ row.version = 1 /\ row.items = items
      /\ row.expires = r.row.expires /\ row.tasks = r.row.tasks
      /\ row.decisions = r.row.decisions
  <2>1. items \in SUBSET Item
    BY <1>8 DEF PlacedSoFar, Sound
  <2>2. row = [status |-> r.row.status, version |-> r.row.version, items |-> items,
               decisions |-> r.row.decisions, range |-> r.row.range,
               expires |-> r.row.expires, strategy |-> r.row.strategy, tasks |-> r.row.tasks]
    BY <1>3 DEF PlanRow
  <2> HIDE DEF row
  <2>3. /\ r.row.expires \in Nat /\ r.row.version \in Nat
        /\ r.row.strategy \in {"plan_tasks_only", "create_linked_event_blocks"}
    BY <1>3 DEF PlanRow
  <2> QED BY <1>3, <1>4, <2>1, <2>2, <2>3 DEF PlanRow
<1> HIDE DEF row
<1>10. known \in SUBSET Interval
  BY <1>3
<1> HIDE DEF known
<1>11. n \in Nat /\ n \in 0..Len(r.order)
  BY <1>5
<1> HIDE DEF n
<1>12. new \in Proposal
  BY <1>3, <1>9, <1>10, <1>11 DEF Proposal
<1>13. ProposalHolds(new, basis[p])
  <2>1. new.row = row /\ new.order = r.order /\ new.done = n /\ new.at = r.at
        /\ new.reads = "events" /\ new.spans = {} /\ new.known = known
    OBVIOUS
  <2> HIDE DEF new
  <2>2. IsFiniteSet({})
    BY FS_EmptySet
  <2>3. PlacedSoFar(new.row.items, Earlier(new.order, new.done), basis[p], new.row.decisions,
                    new.known, new.at)
    BY <1>8, <1>9, <2>1
  <2> QED BY <1>3, <1>9, <1>10, <1>11, <2>1, <2>2, <2>3 DEF ProposalHolds
<1> HIDE DEF new
<1> QED BY <1>1, <1>2, <1>12, <1>13, ProposalMovesOn

\* The row that a proposal without a lock has made.
LEMMA MadeInSteps ==
    ASSUME PlansHold, NEW p \in Plan, proposing[p] # NoProposal,
           proposing[p].done = Len(proposing[p].order)
    PROVE  LET r == proposing[p] IN
           /\ r.row \in PlanRow /\ r.row.status = "draft" /\ r.row.version = 1
           /\ r.at \in Nat /\ r.row.expires = r.at + PlanTTL
           /\ Knotless(r.row.tasks, r.row.decisions)
           /\ PlacedSoFar(r.row.items, r.row.tasks, basis[p], r.row.decisions, r.known, r.at)
BY UnderWay DEF ProposalHolds, InOrderOf

\* The row is inserted.
LEMMA FinishProposalKeeps ==
    ASSUME PlansHold, NEW p \in Plan, FinishProposal(p)
    PROVE  PlansHold'
<1> DEFINE r == proposing[p]
           row == r.row
<1>1. /\ row \in PlanRow /\ row.status = "draft" /\ row.version = 1
      /\ Knotless(row.tasks, row.decisions)
      /\ PlacedSoFar(row.items, row.tasks, basis[p], row.decisions, r.known, r.at)
  BY MadeInSteps DEF FinishProposal
<1>2. /\ plan' = [plan EXCEPT ![p] = row] /\ seen' = [seen EXCEPT ![p] = NoView]
      /\ proposing' = [proposing EXCEPT ![p] = NoProposal] /\ UNCHANGED scheduleVars
      /\ basis' = [basis EXCEPT ![p] = basis[p]]
  BY DEF FinishProposal, PlansHold
<1> HIDE DEF row
<1>3. ScheduleOK /\ PlanHolds(plan[p], seen[p], basis[p], tasks)
  BY DEF PlansHold
<1>4. NoView \in View /\ ViewFollows(row, NoView)
  BY <1>1 DEF NoView, View, ViewFollows
<1>5. BasisFollows(row, basis[p], tasks)
  BY <1>1, <1>3 DEF PlacedSoFar, PlanHolds, BasisFollows
<1>6. IsWhole(row)
  BY <1>1 DEF PlacedSoFar, AllOrNothing, Whole, IsWhole
<1>7. PlanHolds(row, NoView, basis[p], tasks)
  BY <1>1, <1>3, <1>4, <1>5, <1>6 DEF PlacedSoFar, PlanHolds
<1>8. ScheduleOK' /\ Advance(tasks, tasks')
  BY <1>2, <1>3 DEF scheduleVars, ScheduleOK, Advance
<1>9. MakingHolds(NoProposal, row, basis[p])
  BY <1>1 DEF MakingHolds
<1> QED BY <1>2, <1>7, <1>8, <1>9, OnePlanBecomes

\* get_schedule_plan.
LEMMA LookKeeps ==
    ASSUME PlansHold, NEW p \in Plan, Look(p)
    PROVE  PlansHold'
<1> DEFINE view == [version |-> plan[p].version, items |-> plan[p].items]
<1>1. PlanHolds(plan[p], seen[p], basis[p], tasks)
  BY DEF PlansHold
<1>2. plan[p].version \in Nat /\ plan[p].items \in SUBSET Item
  BY <1>1 DEF PlanHolds, PlanRow
<1>3. view \in View /\ ViewFollows(plan[p], view)
  BY <1>2 DEF View, ViewFollows
<1>4. PlanHolds(plan[p], view, basis[p], tasks)
  BY <1>1, <1>3 DEF PlanHolds
<1>5. /\ seen' = [seen EXCEPT ![p] = view]
      /\ plan' = [plan EXCEPT ![p] = plan[p]] /\ basis' = [basis EXCEPT ![p] = basis[p]]
      /\ UNCHANGED scheduleVars
  BY DEF Look, PlansHold
<1>6. ScheduleOK' /\ Advance(tasks, tasks')
  BY <1>5 DEF scheduleVars, PlansHold, ScheduleOK, Advance
<1> HIDE DEF view
<1>7. plan[p].status # "none" /\ proposing' = proposing
  BY DEF Look
<1> QED BY <1>4, <1>5, <1>6, <1>7, OnePlanChanges

\* regenerate_schedule_plan: what it retains is still based on what it was.
LEMMA RegenerateKeeps ==
    ASSUME PlansHold, NEW p \in Plan, NEW ts \in SUBSET plan[p].tasks, NEW ordering \in Ordering,
           Regenerate(p, ts, ordering)
    PROVE  PlansHold'
<1> DEFINE row == plan[p]
           retained == row.items \ ItemsOf(row.items, ts)
           order == OrderedTasks(ts, ordering, row.decisions)
           items == BuildPlanItems(order, Versions, row.decisions, Busy(ts), row.range, now,
                                   row.strategy, retained)
           base == [t \in Task |-> IF t \in ts THEN tasks[t] ELSE basis[p][t]]
           new == Renewed(p, items, row.decisions)
<1>1. /\ ScheduleOK /\ tasks \in [Task -> TaskRow] /\ now \in Nat
      /\ PlanHolds(row, seen[p], basis[p], tasks)
  BY ScheduleAssumption DEF PlansHold, ScheduleOK
<1>2. /\ row \in PlanRow /\ row.decisions \in [Task -> Decision] /\ row.range \in Interval
      /\ ts \in SUBSET Task /\ ts \in SUBSET row.tasks /\ Sound(row.items)
  BY <1>1 DEF PlanHolds, PlanRow
<1>3. Versions \in [Task -> Nat] /\ \A t \in Task : Versions[t] = tasks[t].version
  BY <1>1 DEF Versions, TaskRow
<1>4. BuiltFrom(items, ts, Versions, retained) /\ BuiltWhole(items, ts, ts, retained)
  <2>1. PICK decisions : decisions = row.decisions
    OBVIOUS
  <2>2. order \in Seq(ts) /\ Distinct(order) /\ {order[k] : k \in 1..Len(order)} = ts
    <3>1. PICK q : q = OrderedTasks(ts, ordering, decisions)
      OBVIOUS
    <3>2. Knotless(ts, decisions)
      BY <1>1, <1>2, <2>1 DEF PlanHolds, IsWhole, Knotless
    <3>3. \A t \in ts : \E k \in 1..Len(q) : q[k] = t
      BY <1>2, <3>1, <3>2, OrderedAreAll
    <3>4. q \in Seq(ts) /\ Distinct(q)
      BY <1>2, <3>1, OrderedAreTasks
    <3>5. \A k \in 1..Len(q) : q[k] \in ts
      BY <3>4
    <3>6. order = q
      BY <2>1, <3>1
    <3> HIDE DEF order
    <3> QED BY <3>3, <3>4, <3>5, <3>6
  <2>3. Busy(ts) \in SUBSET Interval /\ IsFiniteSet(Busy(ts))
    BY <1>1, BusyIsFinite
  <2>4. Sound(retained)
    <3>1. retained \in SUBSET row.items
      OBVIOUS
    <3> HIDE DEF retained, row
    <3> QED BY <1>2, <3>1, SubsetIsSound
  <2>5. \A i \in retained : i.task \notin ts
    BY DEF ItemsOf
  <2> HIDE DEF order, retained
  <2>6. PICK o \in Seq(ts) : o = order
    BY <2>2
  <2>7. PICK version : version = Versions
    OBVIOUS
  <2>8. PICK busy : busy = Busy(ts)
    OBVIOUS
  <2>9. PICK range : range = row.range
    OBVIOUS
  <2>10. PICK notBefore \in Nat : notBefore = now
    BY <1>1
  <2>11. PICK strategy : strategy = row.strategy
    OBVIOUS
  <2>12. PICK kept : kept = retained
    OBVIOUS
  <2>13. /\ version \in [Task -> Nat] /\ busy \in SUBSET Interval /\ IsFiniteSet(busy)
         /\ decisions \in [Task -> Decision] /\ range \in Interval /\ Sound(kept)
         /\ ts \in SUBSET Task
    BY <1>2, <1>3, <2>1, <2>3, <2>4, <2>7, <2>8, <2>9, <2>12
  <2>14. BuiltFrom(BuildPlanItems(o, version, decisions, busy, range, notBefore, strategy, kept),
                   ts, version, kept)
    BY <2>13, BuiltPlansAreSound
  <2>15. Distinct(o) /\ \A i \in kept : i.task \notin ts
    BY <2>2, <2>5, <2>6, <2>12
  <2>16. BuiltWhole(BuildPlanItems(o, version, decisions, busy, range, notBefore, strategy, kept),
                    {o[k] : k \in 1..Len(o)}, ts, kept)
    BY <2>13, <2>15, BuiltPlansAreWhole
  <2>17. {o[k] : k \in 1..Len(o)} = ts
    BY <2>2, <2>6
  <2> HIDE DEF row
  <2>18. items = BuildPlanItems(o, version, decisions, busy, range, notBefore, strategy, kept)
    BY <2>1, <2>6, <2>7, <2>8, <2>9, <2>10, <2>11, <2>12
  <2> HIDE DEF items
  <2> QED BY <2>7, <2>12, <2>14, <2>16, <2>17, <2>18
<1> HIDE DEF items
<1>5. /\ new \in PlanRow /\ new.items = items /\ new.version = row.version + 1
      /\ new.status = row.status
      /\ new.tasks = row.tasks /\ new.decisions = row.decisions
  <2>1. Sound(items)
    BY <1>4 DEF BuiltFrom
  <2> QED BY <1>2, <2>1, RenewedRow
<1> HIDE DEF new
<1>6. base \in [Task -> TaskRow] /\ basis[p] \in [Task -> TaskRow]
  BY <1>1 DEF PlanHolds
<1>7. BasisFollows(new, base, tasks)
  <2>1. BasisFollows(row, basis[p], tasks)
    BY <1>1 DEF PlanHolds
  <2>2. ASSUME NEW i \in items PROVE i.task \in row.tasks /\ i.version = base[i.task].version
    <3>1. CASE i \in retained
      <4>1. i \in row.items /\ i.task \notin ts
        BY <3>1 DEF ItemsOf
      <4>2. i.task \in row.tasks /\ i.version = basis[p][i.task].version
        BY <2>1, <4>1 DEF BasisFollows
      <4>3. i.task \in Task
        BY <1>2, <4>1 DEF Sound, Item
      <4> QED BY <4>1, <4>2, <4>3
    <3>2. CASE i \notin retained
      <4>1. i.task \in ts /\ i.version = Versions[i.task]
        BY <1>4, <3>2 DEF BuiltFrom
      <4>2. i.task \in Task /\ i.task \in row.tasks
        BY <1>2, <4>1
      <4> QED BY <1>3, <4>1, <4>2
    <3> QED BY <3>1, <3>2
  <2>3. ASSUME NEW t \in Task
        PROVE  /\ base[t].version <= tasks[t].version
               /\ base[t].version = tasks[t].version => base[t] = tasks[t]
    <3>1. tasks[t].version \in Nat
      BY <1>1 DEF TaskRow
    <3>2. /\ basis[p][t].version <= tasks[t].version
          /\ basis[p][t].version = tasks[t].version => basis[p][t] = tasks[t]
      BY <2>1 DEF BasisFollows
    <3> QED BY <3>1, <3>2
  <2> HIDE DEF base, row
  <2> QED BY <1>5, <2>2, <2>3 DEF BasisFollows
<1>8. PlanHolds(new, seen[p], base, tasks)
  <2>1. seen[p] \in View /\ ViewFollows(row, seen[p])
    BY <1>1 DEF PlanHolds
  <2>2. ViewFollows(new, seen[p])
    <3> HIDE DEF row
    <3> QED BY <1>2, <1>5, <2>1, OldViewFollows
  <2>3. Sound(new.items)
    BY <1>4, <1>5 DEF BuiltFrom
  <2>4. ASSUME NEW t \in row.tasks PROVE Whole(items, t)
    <3>1. CASE t \in ts
      BY <1>4, <3>1 DEF BuiltWhole, AllOrNothing, Whole
    <3>2. CASE t \notin ts
      <4>1. t \in Task \ ts
        BY <1>2, <3>2 DEF PlanRow
      <4>2. ItemsOf(retained, {t}) = ItemsOf(row.items, {t})
        BY <3>2 DEF ItemsOf
      <4> HIDE DEF retained, row
      <4>3. ItemsOf(items, {t}) = ItemsOf(row.items, {t})
        BY <1>4, <4>1, <4>2 DEF BuiltWhole
      <4>4. Whole(row.items, t)
        BY <1>1 DEF PlanHolds, IsWhole
      <4> QED BY <4>3, <4>4 DEF Whole
    <3> QED BY <3>1, <3>2
  <2>5. IsWhole(new)
    <3>1. Knotless(row.tasks, row.decisions)
      BY <1>1 DEF PlanHolds, IsWhole
    <3> HIDE DEF row
    <3> QED BY <1>5, <2>4, <3>1 DEF IsWhole
  <2> HIDE DEF base
  <2> QED BY <1>5, <1>6, <1>7, <2>1, <2>2, <2>3, <2>5 DEF PlanHolds
<1>9. /\ plan' = [plan EXCEPT ![p] = new] /\ seen' = [seen EXCEPT ![p] = seen[p]]
      /\ UNCHANGED <<scheduleVars, seen>>
  BY DEF Regenerate, new, items, PlansHold
<1>10. basis' = [basis EXCEPT ![p] = base]
  BY DEF Regenerate, PlansHold
<1>11. ScheduleOK' /\ Advance(tasks, tasks')
  BY <1>1, <1>9 DEF scheduleVars, ScheduleOK, Advance
<1>12. plan[p].status # "none" /\ new.status # "none" /\ proposing' = proposing
  BY <1>5 DEF Regenerate, AsSeen
<1> HIDE DEF base, new
<1> QED BY <1>8, <1>9, <1>10, <1>11, <1>12, OnePlanChanges

\* An item at another place, or locked otherwise.
LEMMA EditedItem ==
    ASSUME NEW i \in Item, NEW at \in Interval, NEW locked \in BOOLEAN,
           at # NoSpan => at.start - Before[i.task] \in Nat
    PROVE  LET moved == IF at = NoSpan THEN i
                        ELSE [i EXCEPT !.state = "placed", !.at = at,
                                       !.reserved = Span(at.start - Before[i.task],
                                                         at.end + After[i.task])]
               new == [moved EXCEPT !.locked = locked]
           IN new \in Item /\ new.task = i.task /\ new.version = i.version
<1> DEFINE reserved == Span(at.start - Before[i.task], at.end + After[i.task])
           m1 == [i EXCEPT !.state = "placed"]
           m2 == [m1 EXCEPT !.at = at]
           m3 == [m2 EXCEPT !.reserved = reserved]
           e1 == [i EXCEPT !.locked = locked]
           e2 == [m3 EXCEPT !.locked = locked]
<1>1. /\ i = [task |-> i.task, version |-> i.version, state |-> i.state, locked |-> i.locked,
              at |-> i.at, reserved |-> i.reserved]
      /\ i.task \in Task /\ i.version \in Nat /\ i.state \in {"placed", "unplaced"}
      /\ i.at \in Interval /\ i.reserved \in Interval
      /\ i.reserved.start <= i.at.start /\ i.at.end <= i.reserved.end
  BY DEF Item
<1>2. CASE at = NoSpan
  <2>1. e1 = [task |-> i.task, version |-> i.version, state |-> i.state, locked |-> locked,
              at |-> i.at, reserved |-> i.reserved]
    BY <1>1
  <2> HIDE DEF e1
  <2>2. e1 \in Item
    BY <1>1, <2>1 DEF Item
  <2> QED BY <1>2, <2>1, <2>2 DEF e1
<1>3. CASE at # NoSpan
  <2>1. /\ reserved \in Interval /\ reserved.start <= at.start /\ at.end <= reserved.end
    <3>1. /\ Before[i.task] \in Nat /\ After[i.task] \in Nat
          /\ at.start \in Nat /\ at.end \in Nat /\ at.start <= at.end
      BY <1>1, PlannerAssumption DEF Interval
    <3> DEFINE x == at.start - Before[i.task]
               y == at.end + After[i.task]
    <3>2. x \in Nat /\ y \in Nat /\ x <= y /\ x <= at.start /\ at.end <= y
      BY <1>3, <3>1
    <3>3. reserved = Span(x, y)
      OBVIOUS
    <3> HIDE DEF x, y, reserved
    <3>4. Span(x, y) \in Interval /\ Span(x, y).start = x /\ Span(x, y).end = y
      BY <3>2, SpanIsInterval DEF Span
    <3> QED BY <3>2, <3>3, <3>4
  <2>2. [i EXCEPT !.state = "placed", !.at = at, !.reserved = reserved] = m3
    OBVIOUS
  <2> HIDE DEF reserved
  <2>3. m1 = [task |-> i.task, version |-> i.version, state |-> "placed", locked |-> i.locked,
              at |-> i.at, reserved |-> i.reserved]
    BY <1>1
  <2> HIDE DEF m1
  <2>4. m2 = [task |-> i.task, version |-> i.version, state |-> "placed", locked |-> i.locked,
              at |-> at, reserved |-> i.reserved]
    BY <2>3
  <2> HIDE DEF m2
  <2>5. m3 = [task |-> i.task, version |-> i.version, state |-> "placed", locked |-> i.locked,
              at |-> at, reserved |-> reserved]
    BY <2>4
  <2> HIDE DEF m3
  <2>6. e2 = [task |-> i.task, version |-> i.version, state |-> "placed", locked |-> locked,
              at |-> at, reserved |-> reserved]
    BY <2>5
  <2> HIDE DEF e2
  <2>7. e2 \in Item
    BY <1>1, <2>1, <2>6 DEF Item
  <2> QED BY <1>3, <2>2, <2>6, <2>7 DEF e2, reserved
<1> QED BY <1>2, <1>3

\* A decision that pins a task to where the user has put it.
LEMMA EditedDecision ==
    ASSUME NEW decisions \in [Task -> Decision], NEW t \in Task, NEW start \in Nat
    PROVE  [decisions EXCEPT ![t] = [@ EXCEPT !.exact = start, !.preferred = NoTime]]
               \in [Task -> Decision]
<1> DEFINE d == decisions[t]
           d1 == [d EXCEPT !.exact = start]
           d2 == [d1 EXCEPT !.preferred = NoTime]
<1>1. d \in Decision
  OBVIOUS
<1> HIDE DEF d
<1>2. d1 \in Decision
  BY <1>1 DEF Decision
<1> HIDE DEF d1
<1>3. d2 \in Decision
  BY <1>2 DEF Decision
<1>4. [d EXCEPT !.exact = start, !.preferred = NoTime] = d2
  BY DEF d1
<1> HIDE DEF d2
<1>5. [d EXCEPT !.exact = start, !.preferred = NoTime] \in Decision
  BY <1>3, <1>4
<1> DEFINE e == [d EXCEPT !.exact = start, !.preferred = NoTime]
<1>6. [decisions EXCEPT ![t] = [@ EXCEPT !.exact = start, !.preferred = NoTime]]
          = [decisions EXCEPT ![t] = e]
  BY DEF d
<1> HIDE DEF e
<1> QED BY <1>5, <1>6 DEF e

\* edit_schedule_plan: the validation it ends with keeps the draft feasible.
LEMMA EditKeeps ==
    ASSUME PlansHold, NEW p \in Plan, NEW i \in plan[p].items,
           NEW at \in SpanChoices \union {NoSpan}, NEW locked \in BOOLEAN,
           Edit(p, i, at, locked)
    PROVE  PlansHold'
<1> DEFINE row == plan[p]
           t == i.task
           moved == IF at = NoSpan THEN i
                    ELSE [i EXCEPT !.state = "placed", !.at = at,
                                   !.reserved = Span(at.start - Before[t], at.end + After[t])]
           other == [moved EXCEPT !.locked = locked]
           decisions == IF at = NoSpan THEN row.decisions
                        ELSE [row.decisions EXCEPT
                                ![t] = [@ EXCEPT !.exact = at.start, !.preferred = NoTime]]
           items == (row.items \ {i}) \union {other}
           new == Renewed(p, items, decisions)
<1>1. /\ ScheduleOK /\ tasks \in [Task -> TaskRow] /\ now \in Nat
      /\ PlanHolds(row, seen[p], basis[p], tasks)
  BY ScheduleAssumption DEF PlansHold, ScheduleOK
<1>2. /\ row \in PlanRow /\ row.decisions \in [Task -> Decision] /\ Sound(row.items)
      /\ i \in row.items /\ i \in Item /\ t \in Task
  BY <1>1 DEF PlanHolds, PlanRow, Sound, Item
<1>3. at \in Interval /\ at.start \in Nat /\ at.end \in Nat
  <2>1. NoSpan \in Interval
    BY SpanIsInterval DEF NoSpan
  <2>2. at \in Interval
    BY <2>1, ScheduleAssumption
  <2> QED BY <2>2 DEF Interval
<1>4. /\ Valid(new, now) /\ plan' = [plan EXCEPT ![p] = new]
      /\ UNCHANGED <<scheduleVars, seen, basis>>
  BY DEF Edit
<1>5. new.items = items
  BY <1>1 DEF Renewed, PlanHolds, PlanRow
<1>6. at # NoSpan => at.start - Before[t] \in Nat
  <2> SUFFICES ASSUME at # NoSpan PROVE at.start - Before[t] \in Nat
    OBVIOUS
  <2> DEFINE reserved == Span(at.start - Before[t], at.end + After[t])
  <2>1. other.state = "placed" /\ other.reserved = reserved
    BY <1>2 DEF Item
  <2> HIDE DEF other, new
  <2>2. other \in PlacedOf(new.items)
    BY <1>5, <2>1 DEF PlacedOf
  <2>3. other.reserved.start >= now
    BY <1>4, <2>2 DEF Valid
  <2>4. reserved.start = at.start - Before[t]
    BY DEF Span
  <2>5. Before[t] \in Nat
    BY <1>2, PlannerAssumption
  <2> HIDE DEF reserved
  <2>6. at.start - Before[t] >= now
    BY <2>1, <2>3, <2>4
  <2> QED BY <1>1, <1>3, <2>5, <2>6
<1>7. other \in Item /\ other.task = t /\ other.version = i.version
  BY <1>2, <1>3, <1>6, EditedItem
<1> HIDE DEF other
<1>8. /\ decisions \in [Task -> Decision]
      /\ \A u \in Task : decisions[u].preds = row.decisions[u].preds
  <2>1. PICK before \in [Task -> Decision] : before = row.decisions
    BY <1>2
  <2>2. [before EXCEPT ![t] = [@ EXCEPT !.exact = at.start, !.preferred = NoTime]]
            \in [Task -> Decision]
    BY <1>2, <1>3, EditedDecision
  <2>3. \A u \in Task : [before EXCEPT ![t] = [@ EXCEPT !.exact = at.start, !.preferred = NoTime]]
                            [u].preds = before[u].preds
    BY <1>2, <2>1 DEF Decision
  <2> QED BY <2>1, <2>2, <2>3
<1> HIDE DEF decisions
<1>9. Sound(items)
  <2>1. Feasible(items)
    BY <1>4, <1>5 DEF Valid
  <2>2. IsFiniteSet(row.items \ {i}) /\ row.items \in SUBSET Item
    BY <1>2, FS_Difference DEF Sound
  <2>3. IsFiniteSet(items) /\ items \in SUBSET Item
    BY <1>7, <2>2, FS_AddElement
  <2> QED BY <2>1, <2>3 DEF Sound
<1> HIDE DEF items
<1>10. /\ new \in PlanRow /\ new.version = row.version + 1 /\ new.tasks = row.tasks
       /\ new.decisions = decisions /\ new.status = row.status
  BY <1>8, <1>9, RenewedRow
<1> HIDE DEF new
<1>11. BasisFollows(new, basis[p], tasks)
  <2>1. BasisFollows(row, basis[p], tasks)
    BY <1>1 DEF PlanHolds
  <2>2. \A j \in items : j.task \in row.tasks /\ j.version = basis[p][j.task].version
    BY <1>2, <1>7, <2>1 DEF BasisFollows, items
  <2> QED BY <1>5, <1>10, <2>1, <2>2 DEF BasisFollows
<1>12. PlanHolds(new, seen[p], basis[p], tasks)
  <2>1. seen[p] \in View /\ ViewFollows(row, seen[p]) /\ basis[p] \in [Task -> TaskRow]
    BY <1>1 DEF PlanHolds
  <2>2. ViewFollows(new, seen[p])
    <3> HIDE DEF row
    <3> QED BY <1>2, <1>10, <2>1, OldViewFollows
  <2>3. ASSUME NEW u \in row.tasks PROVE Whole(items, u)
    <3>1. CASE u = t
      <4>1. ItemsOf(row.items, {t}) = {i}
        BY DEF Edit
      <4>2. ItemsOf(items, {t}) = {other}
        BY <1>7, <4>1 DEF ItemsOf, items
      <4> QED BY <3>1, <4>2 DEF Whole
    <3>2. CASE u # t
      <4>1. ItemsOf(items, {u}) = ItemsOf(row.items, {u})
        BY <1>7, <3>2 DEF ItemsOf, items
      <4>2. Whole(row.items, u)
        BY <1>1 DEF PlanHolds, IsWhole
      <4> HIDE DEF row
      <4> QED BY <4>1, <4>2 DEF Whole
    <3> QED BY <3>1, <3>2
  <2>4. IsWhole(new)
    <3>1. Knotless(row.tasks, row.decisions) /\ row.tasks \in SUBSET Task
      BY <1>1, <1>2 DEF PlanHolds, IsWhole, PlanRow
    <3> HIDE DEF row
    <3>2. Knotless(row.tasks, decisions)
      BY <1>8, <3>1 DEF Knotless, Knot
    <3> QED BY <1>5, <1>10, <2>3, <3>2 DEF IsWhole
  <2> QED BY <1>5, <1>9, <1>10, <1>11, <2>1, <2>2, <2>4 DEF PlanHolds
<1>13. ScheduleOK' /\ Advance(tasks, tasks')
  BY <1>1, <1>4 DEF scheduleVars, ScheduleOK, Advance
<1>14. plan[p].status # "none" /\ new.status # "none" /\ proposing' = proposing
  BY <1>10 DEF Edit, AsSeen
<1> HIDE DEF new
<1> QED BY <1>4, <1>12, <1>13, <1>14, OneRowChanges

\* A plan that ends keeps its items.
LEMMA EndKeeps ==
    ASSUME PlansHold, NEW p \in Plan, AsSeen(p), NEW status \in Ended, End(p, status),
           ScheduleOK', Advance(tasks, tasks'), UNCHANGED <<seen, basis, proposing>>
    PROVE  PlansHold'
<1> DEFINE row == plan[p]
           new == [row EXCEPT !.status = status, !.version = row.version + 1]
<1>1. PlanHolds(row, seen[p], basis[p], tasks)
  BY DEF PlansHold
<1>2. row \in PlanRow
  BY <1>1 DEF PlanHolds
<1>3. /\ new \in PlanRow /\ new.items = row.items /\ new.version = row.version + 1
      /\ new.tasks = row.tasks /\ new.decisions = row.decisions /\ new.status = status
  <2> HIDE DEF row
  <2> QED BY <1>2, EndedRow
<1>4. plan' = [plan EXCEPT ![p] = new]
  BY DEF End
<1> HIDE DEF new, row
<1>5. PlanHolds(new, seen[p], basis[p], tasks)
  <2>1. seen[p] \in View /\ ViewFollows(row, seen[p]) /\ basis[p] \in [Task -> TaskRow]
        /\ BasisFollows(row, basis[p], tasks) /\ Sound(row.items) /\ IsWhole(row)
    BY <1>1 DEF PlanHolds
  <2>2. ViewFollows(new, seen[p])
    BY <1>2, <1>3, <2>1, OldViewFollows
  <2>3. BasisFollows(new, basis[p], tasks)
    BY <1>3, <2>1 DEF BasisFollows
  <2>4. IsWhole(new)
    BY <1>3, <2>1 DEF IsWhole
  <2> QED BY <1>3, <2>1, <2>2, <2>3, <2>4 DEF PlanHolds
<1>6. row.status # "none" /\ new.status # "none"
  BY <1>3 DEF AsSeen, Ended, row
<1> QED BY <1>4, <1>5, <1>6, OneRowChanges DEF row

\* What reschedule_task leaves of a task that a plan moves.
MovedTask(row, at) == [row EXCEPT !.slot = at, !.version = @ + 1]

\* apply_schedule_plan of the strategy plan_tasks_only.
LEMMA ApplyToTasksMoves ==
    ASSUME PlansHold, NEW p \in Plan, ApplyToTasks(p)
    PROVE  /\ ScheduleOK' /\ Advance(tasks, tasks')
           /\ \A t \in Moved(plan[p]) : \E i \in PlacedOf(plan[p].items) :
                 i.task = t /\ tasks'[t].slot = i.at
           /\ \A t \in Task \ Moved(plan[p]) : tasks'[t] = tasks[t]
<1> DEFINE placed == PlacedOf(plan[p].items)
           SlotOf(t) == (CHOOSE i \in placed : i.task = t).at
<1>1. ScheduleOK /\ tasks \in [Task -> TaskRow] /\ Sound(plan[p].items)
  BY DEF PlansHold, PlanHolds, ScheduleOK
<1>2. ASSUME NEW t \in Moved(plan[p])
      PROVE  /\ \E i \in placed : i.task = t /\ SlotOf(t) = i.at
             /\ SlotOf(t) \in Interval
  <2>1. \E i \in placed : i.task = t
    BY DEF Moved
  <2>2. PICK i \in placed : i = (CHOOSE j \in placed : j.task = t) /\ i.task = t
    BY <2>1
  <2>3. i \in Item
    BY <1>1 DEF Sound, PlacedOf
  <2> QED BY <2>2, <2>3 DEF Item
<1> HIDE DEF SlotOf
<1>3. tasks' = [t \in Task |-> IF t \in Moved(plan[p])
                               THEN MovedTask(tasks[t], SlotOf(t)) ELSE tasks[t]]
  BY DEF ApplyToTasks, MovedTask, SlotOf
<1>4. ASSUME NEW t \in Task, t \in Moved(plan[p])
      PROVE  /\ MovedTask(tasks[t], SlotOf(t)) \in TaskRow
             /\ MovedTask(tasks[t], SlotOf(t)).version > tasks[t].version
             /\ MovedTask(tasks[t], SlotOf(t)).slot = SlotOf(t)
  <2>1. PICK row \in TaskRow : row = tasks[t]
    BY <1>1
  <2>2. PICK at \in Interval : at = SlotOf(t)
    BY <1>2, <1>4
  <2>3. /\ [row EXCEPT !.version = @ + 1, !.slot = at] \in TaskRow
        /\ [row EXCEPT !.version = @ + 1, !.slot = at].version > row.version
        /\ [row EXCEPT !.version = @ + 1, !.slot = at]
              = [state |-> row.state, slot |-> at, version |-> row.version + 1]
        /\ [row EXCEPT !.version = @ + 1, !.slot = at] = [row EXCEPT !.slot = at, !.version = @ + 1]
    BY ChangedPlace
  <2>4. MovedTask(row, at) = [row EXCEPT !.version = @ + 1, !.slot = at]
    BY <2>3 DEF MovedTask
  <2>5. MovedTask(row, at) \in TaskRow /\ MovedTask(row, at).version > row.version
        /\ MovedTask(row, at).slot = at
    BY <2>3, <2>4
  <2> QED BY <2>1, <2>2, <2>5
<1>5. tasks' \in [Task -> TaskRow]
  BY <1>1, <1>3, <1>4
<1>6. Advance(tasks, tasks')
  BY <1>3, <1>4 DEF Advance
<1>7. ScheduleOK'
  BY <1>1, <1>5 DEF ApplyToTasks, ScheduleOK
<1>8. Moved(plan[p]) \subseteq Task
  BY <1>1 DEF Moved, PlacedOf, Sound, Item
<1>9. ASSUME NEW t \in Moved(plan[p])
      PROVE  \E i \in placed : i.task = t /\ tasks'[t].slot = i.at
  <2>1. tasks'[t].slot = SlotOf(t)
    BY <1>3, <1>4, <1>8
  <2> QED BY <1>2, <2>1
<1>10. ASSUME NEW t \in Task \ Moved(plan[p]) PROVE tasks'[t] = tasks[t]
  BY <1>3
<1> QED BY <1>6, <1>7, <1>9, <1>10

\* apply_schedule_plan of the strategy create_linked_event_blocks.
LEMMA ApplyAsEventsAdds ==
    ASSUME PlansHold, NEW p \in Plan, ApplyAsEvents(p)
    PROVE  /\ ScheduleOK' /\ Advance(tasks, tasks')
           /\ \A t \in Task : tasks'[t].slot = tasks[t].slot
<1> DEFINE placed == PlacedOf(plan[p].items)
           BlockOf == [i \in placed |-> [at |-> i.at, task |-> i.task]]
           blocks == {[at |-> i.at, task |-> i.task] : i \in placed}
           Later(t) == [tasks[t] EXCEPT !.version = @ + 1]
<1>1. ScheduleOK /\ tasks \in [Task -> TaskRow] /\ Sound(plan[p].items)
  BY DEF PlansHold, PlanHolds, ScheduleOK
<1>2. placed \in SUBSET Item /\ IsFiniteSet(placed)
  <2>1. placed \in SUBSET plan[p].items
    BY DEF PlacedOf
  <2> QED BY <1>1, <2>1, FS_Subset DEF Sound
<1>3. IsFiniteSet(blocks) /\ blocks \subseteq Event
  <2>1. blocks = {BlockOf[i] : i \in placed}
    OBVIOUS
  <2>2. IsFiniteSet({BlockOf[i] : i \in placed})
    <3> HIDE DEF BlockOf, placed
    <3> QED BY <1>2, ValuesAreFinite
  <2>3. blocks \subseteq Event
    BY <1>2 DEF Item, Event
  <2> QED BY <2>1, <2>2, <2>3
<1>4. /\ events' = events \union blocks
      /\ tasks' = [t \in Task |-> IF t \in Moved(plan[p]) THEN Later(t) ELSE tasks[t]]
      /\ UNCHANGED <<now, writes>>
  BY DEF ApplyAsEvents
<1> HIDE DEF blocks
<1>5. IsFiniteSet(events') /\ events' \subseteq Event
  <2>1. events \subseteq Event /\ IsFiniteSet(events)
    BY <1>1 DEF ScheduleOK
  <2> QED BY <1>3, <1>4, <2>1, FS_Union
<1>6. ASSUME NEW t \in Task
      PROVE  /\ Later(t) \in TaskRow /\ Later(t).version > tasks[t].version
             /\ Later(t).slot = tasks[t].slot
  <2>1. tasks[t] \in TaskRow
    BY <1>1
  <2> QED BY <2>1 DEF TaskRow
<1> HIDE DEF Later
<1>7. tasks' \in [Task -> TaskRow] /\ Advance(tasks, tasks')
  BY <1>1, <1>4, <1>6 DEF Advance
<1>8. \A t \in Task : tasks'[t].slot = tasks[t].slot
  BY <1>4, <1>6
<1>9. ScheduleOK'
  BY <1>1, <1>4, <1>5, <1>7 DEF ScheduleOK
<1> QED BY <1>7, <1>8, <1>9

\* Every operation on a plan.
LEMMA UseKeeps ==
    ASSUME PlansHold, NEW p \in Plan, UsePlan(p)
    PROVE  PlansHold'
<1>1. CASE Look(p)
  BY <1>1, LookKeeps
<1>2. ASSUME NEW ts \in (SUBSET plan[p].tasks) \ {{}}, NEW ordering \in Ordering,
             Regenerate(p, ts, ordering)
      PROVE  PlansHold'
  BY <1>2, RegenerateKeeps
<1>3. ASSUME NEW i \in plan[p].items, NEW at \in SpanChoices \union {NoSpan},
             NEW locked \in BOOLEAN, Edit(p, i, at, locked)
      PROVE  PlansHold'
  BY <1>3, EditKeeps
<1>4. CASE Invalidate(p) \/ Abandon(p)
  <2>1. UNCHANGED <<scheduleVars, seen, basis, proposing>> /\ AsSeen(p)
    BY <1>4 DEF Invalidate, Abandon
  <2>2. ScheduleOK' /\ Advance(tasks, tasks')
    BY <2>1 DEF scheduleVars, PlansHold, ScheduleOK, Advance
  <2>3. PICK status \in Ended : End(p, status)
    BY <1>4 DEF Invalidate, Abandon, Ended
  <2> QED BY <2>1, <2>2, <2>3, EndKeeps
<1>5. CASE ApplyToTasks(p)
  <2>1. AsSeen(p) /\ End(p, "applied") /\ UNCHANGED <<seen, basis, proposing>>
    BY <1>5 DEF ApplyToTasks
  <2>2. "applied" \in Ended
    BY DEF Ended
  <2> QED BY <1>5, <2>1, <2>2, ApplyToTasksMoves, EndKeeps
<1>6. CASE ApplyAsEvents(p)
  <2>1. AsSeen(p) /\ End(p, "applied") /\ UNCHANGED <<seen, basis, proposing>>
    BY <1>6 DEF ApplyAsEvents
  <2>2. "applied" \in Ended
    BY DEF Ended
  <2> QED BY <1>6, <2>1, <2>2, ApplyAsEventsAdds, EndKeeps
<1> QED BY <1>1, <1>2, <1>3, <1>4, <1>5, <1>6 DEF UsePlan

\* PlansHold is inductive.
LEMMA PlansHoldInduction ==
    ASSUME PlansHold, [Next]_vars
    PROVE  PlansHold'
<1>1. CASE SomePlan
  BY <1>1, ProposeKeeps, BeginProposalKeeps DEF SomePlan
<1>2. ASSUME NEW p \in Plan, UsePlan(p) \/ ProposalStep(p) PROVE PlansHold'
  BY <1>2, UseKeeps, ReadEventsKeeps, PlaceNextKeeps, FinishProposalKeeps DEF ProposalStep
<1>3. CASE ChangeSchedule /\ UNCHANGED planVars
  <2>1. ScheduleOK' /\ Advance(tasks, tasks')
    BY <1>3, ChangesAdvance DEF PlansHold
  <2>2. plan' = plan /\ seen' = seen /\ basis' = basis /\ proposing' = proposing
    BY <1>3 DEF planVars
  <2>3. tasks \in [Task -> TaskRow] /\ tasks' \in [Task -> TaskRow]
    BY <2>1 DEF PlansHold, ScheduleOK
  <2>4. ASSUME NEW p \in Plan PROVE PlanHolds(plan[p], seen[p], basis[p], tasks')
    <3>1. PlanHolds(plan[p], seen[p], basis[p], tasks)
      BY DEF PlansHold
    <3> QED BY <2>1, <2>3, <3>1, PlanAdvances
  <2> QED BY <2>1, <2>2, <2>4 DEF PlansHold
<1>4. CASE UNCHANGED vars
  BY <1>4 DEF vars, planVars, scheduleVars, PlansHold, ScheduleOK
<1> QED BY <1>1, <1>2, <1>3, <1>4 DEF Next

\* It holds at first.
LEMMA PlansHoldFromTheStart == Init => PlansHold
<1> SUFFICES ASSUME Init PROVE PlansHold
  OBVIOUS
<1>1. ScheduleOK /\ tasks \in [Task -> TaskRow]
  BY InitialSchedule DEF Init, ScheduleOK
<1>2. NoPlan \in PlanRow
  <2>1. NoSpan \in Interval
    BY SpanIsInterval DEF NoSpan
  <2>2. NoDecision \in Decision
    BY DEF NoDecision, Decision, NoTime
  <2> QED BY <2>1, <2>2 DEF NoPlan, PlanRow
<1>3. NoView \in View /\ ViewFollows(NoPlan, NoView)
  BY DEF NoView, View, ViewFollows, NoPlan
<1>4. BasisFollows(NoPlan, tasks, tasks)
  <2>1. \A t \in Task : tasks[t].version \in Nat
    BY <1>1 DEF TaskRow
  <2>2. NoPlan.items = {}
    BY DEF NoPlan
  <2> QED BY <2>1, <2>2 DEF BasisFollows
<1>5. NoPlan.items = {}
  BY DEF NoPlan
<1>6. PlanHolds(NoPlan, NoView, tasks, tasks)
  <2>1. NoPlan.tasks = {}
    BY DEF NoPlan
  <2>2. IsWhole(NoPlan)
    BY <2>1 DEF IsWhole, Knotless, Knot
  <2> QED BY <1>1, <1>2, <1>3, <1>4, <1>5, <2>2, NothingIsSound DEF PlanHolds
<1>7. /\ plan = [p \in Plan |-> NoPlan] /\ seen = [p \in Plan |-> NoView]
      /\ basis = [p \in Plan |-> tasks] /\ proposing = [p \in Plan |-> NoProposal]
  BY DEF Init
<1>8. MakingHolds(NoProposal, NoPlan, tasks)
  BY <1>5 DEF MakingHolds
<1> QED BY <1>1, <1>2, <1>3, <1>6, <1>7, <1>8 DEF PlansHold

LEMMA PlansAlwaysHold == Spec => []PlansHold
<1>1. PlansHold /\ [Next]_vars => PlansHold'
  BY PlansHoldInduction
<1> QED BY <1>1, PlansHoldFromTheStart, PTL DEF Spec

\* Drafts of PlanningService: their items keep apart inside the hours of work and
\* the daily limit, find_free_slots is exact, and version and task_version tell
\* what has changed since.
THEOREM PlansStayRight == Spec => []PlanInv
<1>1. PlansHold => PlanInv
  BY PlansHoldSuffices
<1> QED BY <1>1, PlansAlwaysHold, PTL

\* Only the two operations of apply_schedule_plan make a draft an applied plan.
LEMMA WhoApplies ==
    ASSUME PlansHold, [Next]_vars, NEW p \in Plan, Applied(p)
    PROVE  ApplyToTasks(p) \/ ApplyAsEvents(p)
<1>1. plan[p].status = "draft" /\ plan'[p].status = "applied" /\ plan'[p] # plan[p]
  BY DEF Applied
<1>2. plan \in [Plan -> PlanRow] /\ PlansHold'
  BY PlansHoldInduction DEF PlansHold
<1>3. ASSUME NEW q \in Plan, NEW row, plan' = [plan EXCEPT ![q] = row]
      PROVE  q = p /\ row.status = "applied"
  BY <1>1, <1>2, <1>3
<1>4. ASSUME NEW q \in Plan, NEW items, NEW decisions,
             plan' = [plan EXCEPT ![q] = Renewed(q, items, decisions)]
      PROVE  FALSE
  <2>1. q = p /\ Renewed(q, items, decisions).status = "applied"
    BY <1>3, <1>4
  <2>2. Renewed(p, items, decisions).status = plan[p].status
    <3>1. plan[p] \in PlanRow
      BY <1>2
    <3> QED BY <3>1 DEF Renewed, PlanRow
  <2> QED BY <1>1, <2>1, <2>2
<1>5. ASSUME NEW q \in Plan, NEW status, End(q, status)
      PROVE  q = p /\ status = "applied"
  <2> DEFINE new == [plan[q] EXCEPT !.status = status, !.version = plan[q].version + 1]
  <2>1. plan[q] \in PlanRow
    BY <1>2
  <2>2. new.status = status
    BY <2>1 DEF PlanRow
  <2>3. plan' = [plan EXCEPT ![q] = new]
    BY <1>5 DEF End
  <2> HIDE DEF new
  <2>4. q = p /\ new.status = "applied"
    BY <1>3, <2>3
  <2> QED BY <2>2, <2>4
<1>6. ASSUME NEW q \in Plan, SomePlan \/ ProposalStep(q) PROVE FALSE
  <2>1. \/ plan' = plan
        \/ \E o \in Plan : /\ plan[o].status = "none"
                          /\ \E row : plan' = [plan EXCEPT ![o] = row]
    <3>1. CASE SomePlan
      <4>1. PICK o \in Plan, ts \in (SUBSET Task) \ {{}}, decisions \in DecisionChoices,
                 strategy \in Strategy, range \in RangeChoices, ordering \in Ordering :
                    \/ Propose(o, ts, decisions, strategy, range, ordering)
                    \/ BeginProposal(o, ts, decisions, strategy, range, ordering)
        BY <3>1 DEF SomePlan
      <4> QED BY <4>1 DEF Propose, BeginProposal, Unused
    <3>2. CASE ReadEvents(q) \/ PlaceNext(q)
      BY <3>2 DEF ReadEvents, PlaceNext
    <3>3. CASE FinishProposal(q)
      <4>1. plan[q].status = "none"
        BY <3>3, UnderWay DEF FinishProposal
      <4> QED BY <3>3, <4>1 DEF FinishProposal
    <3> QED BY <1>6, <3>1, <3>2, <3>3 DEF ProposalStep
  <2>2. PICK o \in Plan : /\ plan[o].status = "none"
                          /\ \E row : plan' = [plan EXCEPT ![o] = row]
    BY <1>1, <2>1
  <2>3. o = p
    BY <1>3, <2>2
  <2> QED BY <1>1, <2>2, <2>3
<1>7. ASSUME NEW q \in Plan, UsePlan(q)
      PROVE  ApplyToTasks(p) \/ ApplyAsEvents(p)
  <2>1. CASE Look(q)
    BY <1>1, <2>1 DEF Look
  <2>2. ASSUME NEW ts, NEW ordering, Regenerate(q, ts, ordering) PROVE FALSE
    BY <1>4, <2>2 DEF Regenerate
  <2>3. ASSUME NEW i, NEW at, NEW locked, Edit(q, i, at, locked) PROVE FALSE
    BY <1>4, <2>3 DEF Edit
  <2>4. CASE Invalidate(q)
    BY <1>5, <2>4 DEF Invalidate
  <2>5. CASE Abandon(q)
    BY <1>5, <2>5 DEF Abandon
  <2>6. CASE ApplyToTasks(q)
    <3>1. End(q, "applied")
      BY <2>6 DEF ApplyToTasks
    <3>2. q = p
      BY <1>5, <3>1
    <3> QED BY <2>6, <3>2
  <2>7. CASE ApplyAsEvents(q)
    BY <1>5, <2>7 DEF ApplyAsEvents
  <2> QED BY <1>7, <2>1, <2>2, <2>3, <2>4, <2>5, <2>6, <2>7 DEF UsePlan
<1>8. ~(UNCHANGED planVars)
  BY <1>1 DEF planVars
<1>9. ~(UNCHANGED vars)
  BY <1>8 DEF vars, planVars
<1> QED BY <1>6, <1>7, <1>8, <1>9 DEF Next

\* apply_schedule_plan applies the items its client was shown to tasks that are
\* as they were when the plan was computed.
THEOREM AppliesWhatWasSeen == Spec => AppliedAsSeen
<1>1. ASSUME PlansHold, [Next]_vars, NEW p \in Plan, Applied(p)
      PROVE  /\ plan[p].items = seen[p].items
             /\ \A t \in Moved(plan[p]) : tasks[t] = basis[p][t]
  <2>1. AsSeen(p) /\ Valid(plan[p], now)
    BY <1>1, WhoApplies DEF ApplyToTasks, ApplyAsEvents
  <2>2. PlanHolds(plan[p], seen[p], basis[p], tasks)
    BY <1>1 DEF PlansHold
  <2>3. plan[p].items = seen[p].items
    BY <2>1, <2>2 DEF AsSeen, PlanHolds, ViewFollows
  <2>4. ASSUME NEW t \in Moved(plan[p]) PROVE tasks[t] = basis[p][t]
    <3>1. PICK i \in PlacedOf(plan[p].items) : i.task = t
      BY DEF Moved
    <3>2. i \in plan[p].items /\ i \in Item /\ t \in Task
      BY <2>2, <3>1 DEF PlacedOf, PlanHolds, Sound, Item
    <3>3. tasks[t].version = i.version
      BY <2>1, <3>1 DEF Valid
    <3>4. i.version = basis[p][t].version
      BY <2>2, <3>1, <3>2 DEF PlanHolds, BasisFollows
    <3> QED BY <2>2, <3>2, <3>3, <3>4 DEF PlanHolds, BasisFollows
  <2> QED BY <2>3, <2>4
<1>2. PlansHold /\ [Next]_vars
          => [\A p \in Plan : Applied(p) => plan[p].items = seen[p].items]_vars
  BY <1>1
<1>3. PlansHold /\ [Next]_vars
          => [\A p \in Plan : Applied(p) =>
                 \A t \in Moved(plan[p]) : tasks[t] = basis[p][t]]_vars
  BY <1>1
<1>4. Spec => WhatWasSeenIsApplied
  BY <1>2, PlansAlwaysHold, PTL DEF Spec, WhatWasSeenIsApplied
<1>5. Spec => NoEditIsOverwritten
  BY <1>3, PlansAlwaysHold, PTL DEF Spec, NoEditIsOverwritten
<1> QED BY <1>4, <1>5 DEF AppliedAsSeen

\* What is clear of the interval reserved for an item is clear of the item.
LEMMA WithinReserved ==
    ASSUME NEW i \in Item, NEW s \in Interval, ~Overlap(i.reserved, s)
    PROVE  ~Overlap(i.at, s)
<1>1. /\ i.at \in Interval /\ i.reserved \in Interval
      /\ i.reserved.start <= i.at.start /\ i.at.end <= i.reserved.end
  BY DEF Item
<1>2. /\ i.at.start \in Nat /\ i.at.end \in Nat
      /\ i.reserved.start \in Nat /\ i.reserved.end \in Nat
      /\ s.start \in Nat /\ s.end \in Nat
  BY <1>1 DEF Interval
<1> QED BY <1>1, <1>2 DEF Overlap

\* The items of a plan fit together.
LEMMA ItemsAreClear ==
    ASSUME NEW items, Sound(items), NEW i \in PlacedOf(items), NEW j \in PlacedOf(items), i # j
    PROVE  ~Overlap(i.at, j.at)
<1>1. i \in Item /\ j \in Item
  BY DEF Sound, PlacedOf
<1>2. ~Overlap(j.reserved, i.reserved)
  BY DEF Sound, Feasible, ItemsAreApart
<1>3. i.reserved \in Interval /\ i.at \in Interval /\ j.at \in Interval
      /\ j.reserved \in Interval
  BY <1>1 DEF Item
<1>4. ~Overlap(j.at, i.reserved)
  BY <1>1, <1>2, <1>3, WithinReserved
<1>5. ~Overlap(i.reserved, j.at)
  BY <1>3, <1>4 DEF Overlap, Interval
<1> QED BY <1>1, <1>3, <1>5, WithinReserved

\* Where an applied plan puts its items.
FitsIn(row, rows) ==
    \A i \in PlacedOf(row.items) :
        /\ Clear(i.at, EventSpans)
        /\ \A j \in PlacedOf(row.items) : i # j => ~Overlap(i.at, j.at)
        /\ \A t \in Task \ {i.task} :
              /\ tasks[t].state = "active" /\ tasks[t].slot # NoSpan
              /\ row.strategy = "create_linked_event_blocks" => t \notin Moved(row)
              => ~Overlap(i.at, rows[t].slot)

\* Every apply_schedule_plan that succeeds.
LEMMA AppliedFits ==
    ASSUME PlansHold, [Next]_vars, NEW p \in Plan, Applied(p)
    PROVE  FitsIn(plan[p], tasks')
<1> DEFINE row == plan[p]
           placed == PlacedOf(row.items)
<1>1. Valid(row, now)
  BY WhoApplies DEF ApplyToTasks, ApplyAsEvents
<1>2. ScheduleOK /\ Sound(row.items)
  BY DEF PlansHold, PlanHolds
<1>3. Moved(row) \subseteq Task
  BY <1>2 DEF Moved, PlacedOf, Sound, Item
<1>4. ASSUME NEW i \in placed
      PROVE  /\ i \in Item
             /\ Clear(i.at, EventSpans)
             /\ \A t \in Task \ Moved(row) :
                   tasks[t].state = "active" => ~Overlap(i.at, tasks[t].slot)
  <2>1. i \in Item /\ i.reserved \in Interval
    BY <1>2 DEF PlacedOf, Sound, Item
  <2>2. Clear(i.reserved, Busy(Moved(row)))
    BY <1>1, <1>4 DEF Valid, SlotsAreFree, Reserved, Exempt
  <2>3. /\ Clear(i.reserved, EventSpans)
        /\ \A t \in Task \ Moved(row) :
              tasks[t].state = "active" => ~Overlap(i.reserved, tasks[t].slot)
    BY <1>2, <2>1, <2>2, ClearOfBusy
  <2>4. EventSpans \subseteq Interval /\ \A t \in Task : tasks[t].slot \in Interval
    BY <1>2 DEF ScheduleOK, EventSpans, Event, TaskRow
  <2>5. Clear(i.at, EventSpans)
    BY <2>1, <2>3, <2>4, WithinReserved DEF Clear
  <2>6. ASSUME NEW t \in Task \ Moved(row), tasks[t].state = "active"
        PROVE  ~Overlap(i.at, tasks[t].slot)
    BY <2>1, <2>3, <2>4, <2>6, WithinReserved
  <2> QED BY <2>1, <2>5, <2>6
<1>5. ASSUME NEW i \in placed, NEW j \in placed, i # j
      PROVE  ~Overlap(i.at, j.at)
  BY <1>2, <1>5, ItemsAreClear
<1>6. ASSUME NEW i \in placed, NEW t \in Task \ {i.task},
             tasks[t].state = "active",
             row.strategy = "create_linked_event_blocks" => t \notin Moved(row)
      PROVE  ~Overlap(i.at, tasks'[t].slot)
  <2>1. CASE t \in Moved(row)
    <3>1. ApplyToTasks(p)
      <4>1. ApplyToTasks(p) \/ ApplyAsEvents(p)
        BY WhoApplies
      <4>2. ~ApplyAsEvents(p)
        BY <1>6, <2>1 DEF ApplyAsEvents
      <4> QED BY <4>1, <4>2
    <3>2. \A u \in Moved(plan[p]) : \E j \in PlacedOf(plan[p].items) :
             j.task = u /\ tasks'[u].slot = j.at
      BY <3>1, ApplyToTasksMoves
    <3>3. PICK j \in placed : j.task = t /\ tasks'[t].slot = j.at
      BY <2>1, <3>2
    <3>4. i # j
      BY <3>3
    <3> QED BY <1>5, <3>3, <3>4
  <2>2. CASE t \notin Moved(row)
    <3>1. tasks'[t].slot = tasks[t].slot
      <4>1. CASE ApplyToTasks(p)
        <5>1. \A u \in Task \ Moved(plan[p]) : tasks'[u] = tasks[u]
          BY <4>1, ApplyToTasksMoves
        <5> QED BY <2>2, <5>1
      <4>2. CASE ApplyAsEvents(p)
        <5>1. \A u \in Task : tasks'[u].slot = tasks[u].slot
          BY <4>2, ApplyAsEventsAdds
        <5> QED BY <5>1
      <4> QED BY <4>1, <4>2, WhoApplies
    <3>2. ~Overlap(i.at, tasks[t].slot)
      BY <1>4, <1>6, <2>2
    <3> QED BY <3>1, <3>2
  <2> QED BY <2>1, <2>2
<1> HIDE DEF row
<1> QED BY <1>4, <1>5, <1>6 DEF FitsIn, row

\* What apply_schedule_plan has checked still holds of what it writes: no item
\* meets an event, another item or the interval of another active task.
THEOREM AppliedPlansFit == Spec => AppliedPlanFits
<1>1. PlansHold /\ [Next]_vars
          => [\A p \in Plan : Applied(p) =>
                \A i \in PlacedOf(plan[p].items) :
                   /\ Clear(i.at, EventSpans)
                   /\ \A j \in PlacedOf(plan[p].items) : i # j => ~Overlap(i.at, j.at)
                   /\ \A t \in Task \ {i.task} :
                         /\ tasks[t].state = "active" /\ tasks[t].slot # NoSpan
                         /\ plan[p].strategy = "create_linked_event_blocks"
                               => t \notin Moved(plan[p])
                         => ~Overlap(i.at, tasks'[t].slot)]_vars
  BY AppliedFits DEF FitsIn
<1> QED BY <1>1, PlansAlwaysHold, PTL DEF Spec, AppliedPlanFits

\* Only propose_schedule_plan makes a draft of what was no plan.
LEMMA WhoProposes ==
    ASSUME PlansHold, [Next]_vars, NEW p \in Plan,
           plan[p].status = "none", plan'[p].status = "draft"
    PROVE  \/ \E ts \in SUBSET Task, decisions \in DecisionChoices, strategy \in Strategy,
                 range \in RangeChoices, ordering \in Ordering :
                    /\ plan'[p] = Draft(ts, decisions, strategy, range, ordering)
                    /\ Acyclic(ts, decisions)
           \/ /\ proposing[p] # NoProposal /\ proposing[p].done = Len(proposing[p].order)
              /\ plan'[p] = proposing[p].row
<1>1. plan \in [Plan -> PlanRow] /\ plan'[p] # plan[p]
  BY DEF PlansHold
<1>2. ASSUME NEW q \in Plan, NEW row, plan' = [plan EXCEPT ![q] = row]
      PROVE  q = p /\ plan'[p] = row
  BY <1>1, <1>2
<1>3. ASSUME NEW q \in Plan, NEW row, plan' = [plan EXCEPT ![q] = row],
             plan[q].status = "draft"
      PROVE  FALSE
  BY <1>2, <1>3
<1>4. CASE SomePlan
  <2>1. PICK q \in Plan, ts \in (SUBSET Task) \ {{}}, decisions \in DecisionChoices,
             strategy \in Strategy, range \in RangeChoices, ordering \in Ordering :
                \/ Propose(q, ts, decisions, strategy, range, ordering)
                \/ BeginProposal(q, ts, decisions, strategy, range, ordering)
    BY <1>4 DEF SomePlan
  <2>2. Propose(q, ts, decisions, strategy, range, ordering)
    BY <1>1, <2>1 DEF BeginProposal
  <2>3. plan' = [plan EXCEPT ![q] = Draft(ts, decisions, strategy, range, ordering)]
    BY <2>2 DEF Propose
  <2>4. plan'[p] = Draft(ts, decisions, strategy, range, ordering)
    BY <1>2, <2>3
  <2>5. Acyclic(ts, decisions)
    BY <2>2 DEF Propose, Requestable
  <2> QED BY <2>4, <2>5
<1>5. ASSUME NEW q \in Plan, ProposalStep(q)
      PROVE  /\ proposing[p] # NoProposal /\ proposing[p].done = Len(proposing[p].order)
             /\ plan'[p] = proposing[p].row
  <2>1. FinishProposal(q)
    BY <1>1, <1>5 DEF ProposalStep, ReadEvents, PlaceNext
  <2>2. q = p /\ plan'[p] = proposing[q].row
    BY <1>2, <2>1 DEF FinishProposal
  <2> QED BY <2>1, <2>2 DEF FinishProposal
<1>6. ASSUME NEW q \in Plan, UsePlan(q) PROVE FALSE
  <2>1. CASE Look(q)
    BY <1>1, <2>1 DEF Look
  <2>2. ASSUME NEW ts, NEW ordering, Regenerate(q, ts, ordering) PROVE FALSE
    BY <1>3, <2>2 DEF Regenerate, AsSeen
  <2>3. ASSUME NEW i, NEW at, NEW locked, Edit(q, i, at, locked) PROVE FALSE
    BY <1>3, <2>3 DEF Edit, AsSeen
  <2>4. CASE AsSeen(q) /\ \E status : End(q, status)
    BY <1>3, <2>4 DEF End, AsSeen
  <2> QED BY <1>6, <2>1, <2>2, <2>3, <2>4
          DEF UsePlan, Invalidate, Abandon, ApplyToTasks, ApplyAsEvents
<1>7. ~(UNCHANGED planVars)
  BY <1>1 DEF planVars
<1>8. ~(UNCHANGED vars)
  BY <1>7 DEF vars, planVars
<1> QED BY <1>4, <1>5, <1>6, <1>7, <1>8 DEF Next

\* Items that keep to the decisions about their tasks do so for the validator.
LEMMA DecidedItemsHold ==
    ASSUME NEW items, NEW decisions, NEW known, NEW at,
           KeepsDecisions(items, decisions, known, at)
    PROVE  DecisionsHold(items, decisions)
<1>1. ASSUME NEW i \in PlacedOf(items), decisions[i.task].exact # NoTime
      PROVE  PlacedOf(ItemsOf(items, {i.task})) = {i}
  <2>1. ItemsOf(items, {i.task}) = {i} /\ i.state = "placed"
    BY <1>1 DEF KeepsDecisions, PlacedOf
  <2> QED BY <2>1 DEF PlacedOf
<1> QED BY <1>1 DEF DecisionsHold, KeepsDecisions, AsDecided

\* A row whose tasks are all placed or not, as decided, is right in itself.
LEMMA MadeIsRight ==
    ASSUME NEW row, NEW base, NEW known, NEW at,
           PlacedSoFar(row.items, row.tasks, base, row.decisions, known, at)
    PROVE  RightInItself(row)
<1>1. TakesItsTime(row)
  <2> SUFFICES ASSUME NEW i \in PlacedOf(row.items)
               PROVE  Minutes(ItemsOf(row.items, {i.task})) = Duration[i.task]
    BY DEF TakesItsTime, Moved
  <2>1. i \in row.items /\ i.task \in row.tasks
    BY DEF PlacedSoFar, PlacedOf
  <2>2. i \in PlacedOf(ItemsOf(row.items, {i.task}))
    BY <2>1 DEF PlacedOf, ItemsOf
  <2> QED BY <2>1, <2>2 DEF PlacedSoFar, AllOrNothing
<1>2. DecisionsHold(row.items, row.decisions)
  BY DecidedItemsHold DEF PlacedSoFar
<1>3. \A i \in PlacedOf(row.items) : Due[i.task] # NoTime => i.at.end <= Due[i.task]
  BY DEF PlacedSoFar, KeepsDecisions, AsDecided
<1> QED BY <1>1, <1>2, <1>3 DEF RightInItself

\* If besides it spares the places of its own tasks, and nothing it has not met is
\* in the way, it is found valid.
LEMMA MadeIsValid ==
    ASSUME ScheduleOK, NEW row \in PlanRow, NEW base, NEW known,
           PlacedSoFar(row.items, row.tasks, base, row.decisions, known, now),
           row.status = "draft", row.expires = now + PlanTTL,
           \A t \in row.tasks : tasks[t] = base[t],
           Busy(row.tasks) \subseteq known, SparesItsOwn(row)
    PROVE  Valid(row, now)
<1> DEFINE placed == PlacedOf(row.items)
<1>1. KeepsDecisions(row.items, row.decisions, known, now) /\ Sound(row.items)
  BY DEF PlacedSoFar
<1>2. row.expires > now
  <2>1. now \in Nat /\ PlanTTL \in Nat \ {0}
    BY ScheduleAssumption, PlanningAssumption DEF ScheduleOK
  <2> QED BY <2>1
<1>3. Feasible(row.items) /\ row.items \in SUBSET Item
  BY <1>1 DEF Sound
<1>4. ASSUME NEW i \in placed
      PROVE  /\ i \in Item /\ tasks[i.task].version = i.version
             /\ AsDecided(i, row.decisions[i.task], known, now, row.items)
  <2>1. i \in row.items /\ i \in Item
    BY <1>3 DEF PlacedOf
  <2>2. i.task \in row.tasks /\ i.version = base[i.task].version
    BY <2>1 DEF PlacedSoFar
  <2> QED BY <1>1, <2>1, <2>2 DEF KeepsDecisions
<1>5. DecisionsHold(row.items, row.decisions)
  BY <1>1, DecidedItemsHold
<1>6. ASSUME NEW i \in placed
      PROVE  /\ i.at.end > i.at.start /\ i.reserved.start >= now
             /\ Due[i.task] # NoTime => i.at.end <= Due[i.task]
  <2>1. /\ i.at.start < i.at.end /\ now <= i.reserved.start
        /\ Due[i.task] # NoTime => i.at.end <= Due[i.task]
    BY <1>4 DEF AsDecided
  <2> QED BY <2>1
<1>7. SlotsAreFree(Reserved(row.items), Exempt(row))
  <2> SUFFICES ASSUME NEW i \in placed, NEW j \in Busy(Moved(row))
               PROVE  ~Overlap(i.reserved, j)
    BY DEF SlotsAreFree, Clear, Reserved, Exempt
  <2>1. Clear(i.reserved, Busy(row.tasks))
    BY <1>4 DEF AsDecided, Clear
  <2>2. CASE j \in EventSpans
    BY <2>1, <2>2 DEF Busy, Clear
  <2>3. CASE j \in PlannedBut(tasks, Moved(row))
    <3>1. PICK t \in Task \ Moved(row) : /\ tasks[t].state = "active" /\ tasks[t].slot # NoSpan
                                         /\ j = tasks[t].slot
      BY <2>3 DEF PlannedBut
    <3>2. CASE t \in row.tasks
      <4>1. ~Overlap(j, i.reserved)
        BY <3>1, <3>2 DEF SparesItsOwn, Clear, Reserved
      <4>2. j \in Interval /\ i.reserved \in Interval
        BY <1>4, <3>1 DEF ScheduleOK, TaskRow, Item
      <4> QED BY <4>1, <4>2 DEF Overlap, Interval
    <3>3. CASE t \notin row.tasks
      <4>1. j \in PlannedBut(tasks, row.tasks)
        BY <3>1, <3>3 DEF PlannedBut
      <4> QED BY <2>1, <4>1 DEF Busy, Clear
    <3> QED BY <3>2, <3>3
  <2> QED BY <2>2, <2>3 DEF Busy
<1> QED BY <1>2, <1>3, <1>4, <1>5, <1>6, <1>7 DEF Valid

\* A row that is made under the lock is made from what is there.
LEMMA DraftIsMade ==
    ASSUME ScheduleOK, NEW ts \in SUBSET Task, NEW decisions \in DecisionChoices,
           NEW strategy, NEW range \in RangeChoices, NEW ordering \in Ordering,
           Acyclic(ts, decisions),
           NEW row, row = Draft(ts, decisions, strategy, range, ordering)
    PROVE  /\ PlacedSoFar(row.items, row.tasks, tasks, row.decisions, Busy(row.tasks), now)
           /\ row.status = "draft" /\ row.expires = now + PlanTTL
<1>1. /\ BuiltFrom(row.items, ts, Versions, {}) /\ BuiltWhole(row.items, ts, ts, {})
      /\ KeepsDecisions(row.items, decisions, Busy(ts), now)
  BY DraftIsBuilt, DraftIsWhole
<1>2. /\ row.status = "draft" /\ row.tasks = ts /\ row.decisions = decisions
      /\ row.expires = now + PlanTTL
  BY DEF Draft, NewRow
<1>3. Sound(row.items) /\ \A i \in row.items : i.task \in ts /\ i.version = Versions[i.task]
  BY <1>1 DEF BuiltFrom
<1>4. \A t \in ts : Versions[t] = tasks[t].version
  BY DEF Versions
<1> QED BY <1>1, <1>2, <1>3, <1>4 DEF PlacedSoFar, BuiltWhole

\* _build_plan_items and _plan_validation_reason_codes agree, but for the places of
\* tasks that the plan leaves where they are: what is proposed is right in itself,
\* and valid unless it was made without a lock and what it read is no longer so.
THEOREM ProposalsStayRight == Spec => ProposalsAreRight
<1>1. ASSUME PlansHold, [Next]_vars, NEW p \in Plan, plan[p].status = "none",
             plan'[p].status = "draft"
      PROVE  /\ RightInItself(plan'[p])
             /\ SparesItsOwn(plan'[p]) /\ StillStands(p) => Valid(plan'[p], now)
  <2>1. PICK row : row = plan'[p]
    OBVIOUS
  <2>2. ScheduleOK /\ row \in PlanRow
    <3>1. PlansHold'
      BY <1>1, PlansHoldInduction
    <3> QED BY <1>1, <2>1, <3>1 DEF PlansHold
  <2>3. ASSUME NEW ts \in SUBSET Task, NEW decisions \in DecisionChoices,
               NEW strategy \in Strategy, NEW range \in RangeChoices, NEW ordering \in Ordering,
               row = Draft(ts, decisions, strategy, range, ordering), Acyclic(ts, decisions)
        PROVE  RightInItself(row) /\ (SparesItsOwn(row) => Valid(row, now))
    <3>1. /\ PlacedSoFar(row.items, row.tasks, tasks, row.decisions, Busy(row.tasks), now)
          /\ row.status = "draft" /\ row.expires = now + PlanTTL
      BY <2>2, <2>3, DraftIsMade
    <3>2. RightInItself(row)
      BY <3>1, MadeIsRight
    <3>3. SparesItsOwn(row) => Valid(row, now)
      BY <2>2, <3>1, MadeIsValid
    <3> QED BY <3>2, <3>3
  <2>4. ASSUME proposing[p] # NoProposal, proposing[p].done = Len(proposing[p].order),
               row = proposing[p].row
        PROVE  RightInItself(row) /\ (SparesItsOwn(row) /\ StillStands(p) => Valid(row, now))
    <3> DEFINE r == proposing[p]
    <3>1. /\ row.status = "draft" /\ row.expires = r.at + PlanTTL
          /\ PlacedSoFar(row.items, row.tasks, basis[p], row.decisions, r.known, r.at)
      BY <1>1, <2>4, MadeInSteps
    <3>2. RightInItself(row)
      BY <3>1, MadeIsRight
    <3>3. ASSUME SparesItsOwn(row), StillStands(p) PROVE Valid(row, now)
      <4>1. /\ now = r.at /\ Busy(row.tasks) \subseteq r.known
            /\ \A t \in row.tasks : tasks[t] = basis[p][t]
        BY <2>4, <3>3 DEF StillStands
      <4> HIDE DEF r
      <4>2. PlacedSoFar(row.items, row.tasks, basis[p], row.decisions, r.known, now)
        BY <3>1, <4>1
      <4> QED BY <2>2, <3>1, <3>3, <4>1, <4>2, MadeIsValid
    <3> QED BY <3>2, <3>3
  <2>5. \/ \E ts \in SUBSET Task, decisions \in DecisionChoices, strategy \in Strategy,
              range \in RangeChoices, ordering \in Ordering :
                 /\ row = Draft(ts, decisions, strategy, range, ordering)
                 /\ Acyclic(ts, decisions)
        \/ /\ proposing[p] # NoProposal /\ proposing[p].done = Len(proposing[p].order)
           /\ row = proposing[p].row
    BY <1>1, <2>1, WhoProposes
  <2> QED BY <2>1, <2>3, <2>4, <2>5
<1>2. PlansHold /\ [Next]_vars
          => [\A p \in Plan :
                plan[p].status = "none" /\ plan'[p].status = "draft"
                => /\ RightInItself(plan'[p])
                   /\ SparesItsOwn(plan'[p]) /\ StillStands(p) => Valid(plan'[p], now)]_vars
  BY <1>1
<1> QED BY <1>2, PlansAlwaysHold, PTL DEF Spec, ProposalsAreRight

-----------------------------------------------------------------------------
(* Previews of repairs *)

\* Slots are numbers.
LEMMA SlotsAreNumbers ==
    ASSUME ScheduleOK, NEW t \in Task, NEW blocked \in Interval
    PROVE  Slots(t, blocked) \in SUBSET Nat
<1> DEFINE to == Min({now + Horizon} \union Given({Due[t]}))
<1>1. now \in Nat /\ Horizon \in Nat /\ Duration[t] \in Nat \ {0} /\ blocked.end \in Nat
  BY PlannerAssumption, ScheduleAssumption, ReplanningAssumption DEF ScheduleOK, Interval
<1>2. to \in Int
  <2>1. Due[t] \in Nat \union {NoTime}
    BY PlannerAssumption
  <2> DEFINE times == {now + Horizon} \union Given({Due[t]})
  <2>2. times \in SUBSET Nat /\ times # {}
    BY <1>1, <2>1 DEF Given
  <2> HIDE DEF times
  <2>3. Min(times) \in times
    BY <2>2, MinOfNaturals
  <2>4. Min(times) \in Nat
    BY <2>2, <2>3
  <2> QED BY <2>4 DEF times
<1> HIDE DEF to
<1>3. Busy({}) \in SUBSET Interval /\ IsFiniteSet(Busy({}))
  BY BusyIsFinite
<1>4. FreeSlots(Busy({}), Span(blocked.end, to), Duration[t]) \in SUBSET Nat
  BY <1>1, <1>2, <1>3, FreeSlotsAreRoom
<1> QED BY <1>4 DEF Slots, to

\* A move of a task that is as it was when the move was previewed.
IsPreviewed(m) ==
    /\ m \in TaskMove
    /\ m.row = tasks[m.task] /\ m.version = tasks[m.task].version
    /\ m.from = tasks[m.task].slot

\* A move to a slot carries the task as it is.
LEMMA MoveIsPreviewed ==
    ASSUME ScheduleOK, NEW t \in Task, NEW s \in Nat
    PROVE  IsPreviewed(Move(t, s)) /\ Move(t, s).task = t
           /\ Move(t, s).to = Span(s, s + Duration[t])
<1> DEFINE m == Move(t, s)
<1>1. tasks[t] \in TaskRow
  BY DEF ScheduleOK
<1>2. tasks[t].version \in Nat /\ tasks[t].slot \in Interval
  BY <1>1 DEF TaskRow
<1>3. Span(s, s + Duration[t]) \in Interval
  <2>1. Duration[t] \in Nat
    BY PlannerAssumption
  <2>2. s + Duration[t] \in Nat /\ s <= s + Duration[t]
    BY <2>1
  <2> QED BY <2>2, SpanIsInterval
<1>4. m \in TaskMove
  BY <1>1, <1>2, <1>3 DEF Move, TaskMove
<1>5. /\ m.task = t /\ m.row = tasks[t] /\ m.version = tasks[t].version
      /\ m.from = tasks[t].slot /\ m.to = Span(s, s + Duration[t])
  BY DEF Move
<1> QED BY <1>4, <1>5 DEF IsPreviewed

\* What preview_local_replan returns: moves of different tasks as they are now,
\* to places that are apart.
LEMMA PreviewIsPreviewed ==
    ASSUME ScheduleOK, NEW order \in Seq(Task),
           \A i, j \in 1..Len(order) : i # j => order[i] # order[j],
           NEW blocked \in Interval
    PROVE  /\ Preview(order, blocked) \in SUBSET TaskMove
           /\ MovesAreApart(Preview(order, blocked))
           /\ \A m \in Preview(order, blocked) : IsPreviewed(m)
<1> DEFINE N == Len(order)
           Moves == SUBSET TaskMove
           Left(n, x) == SlotsLeft(order[n], blocked, x)
           step == [p \in (1..N) \X Moves |-> MakesWay(p[2], order[p[1]], blocked)]
<1>1. N \in Nat /\ \A n \in 1..N : order[n] \in Task
  OBVIOUS
<1> HIDE DEF N
<1>2. ASSUME NEW n \in 1..N, NEW x \in Moves
      PROVE  /\ Left(n, x) \in SUBSET Nat
             /\ Left(n, x) # {} => Min(Left(n, x)) \in Left(n, x)
  <2>1. Slots(order[n], blocked) \in SUBSET Nat
    BY <1>1, SlotsAreNumbers
  <2>2. Left(n, x) \in SUBSET Nat
    BY <2>1 DEF SlotsLeft
  <2> HIDE DEF Left
  <2> QED BY <2>2, MinOfNaturals
<1> HIDE DEF Left
<1>3. ASSUME NEW n \in 1..N, NEW x \in Moves
      PROVE  /\ step[<<n, x>>] = MakesWay(x, order[n], blocked)
             /\ MakesWay(x, order[n], blocked) \in Moves
  <2>1. CASE Left(n, x) = {}
    BY <2>1 DEF MakesWay, Left
  <2>2. CASE Left(n, x) # {}
    <3> DEFINE s == Min(Left(n, x))
    <3>1. s \in Nat
      BY <1>2, <2>2
    <3> HIDE DEF s
    <3>2. Move(order[n], s) \in TaskMove
      BY <1>1, <3>1, MoveIsPreviewed DEF IsPreviewed
    <3>3. MakesWay(x, order[n], blocked) = x \union {Move(order[n], s)}
      BY <2>2 DEF MakesWay, Left, s
    <3> QED BY <3>2, <3>3
  <2> QED BY <2>1, <2>2
<1> HIDE DEF step
<1>4. {} \in Moves
  OBVIOUS
<1> HIDE DEF Moves
<1>5. Stepwise(N, Moves, {}, step)
  BY <1>1, <1>3, <1>4 DEF Stepwise
<1>6. PICK f : Follows(f, N, Moves, {}, step)
  BY <1>5, RecursionExists
<1>7. f = [n \in 0..N |-> IF n = 0 THEN {} ELSE MakesWay(f[n - 1], order[n], blocked)]
  <2>1. ASSUME NEW n \in 1..N PROVE f[n] = MakesWay(f[n - 1], order[n], blocked)
    <3>1. f[n - 1] \in Moves /\ f[n] = step[<<n, f[n - 1]>>]
      BY <1>1, <1>6 DEF Follows
    <3> QED BY <1>3, <3>1
  <2> QED BY <1>1, <1>6, <2>1 DEF Follows
<1> PICK F : F = Moving(order, blocked)
  OBVIOUS
<1>8. F = [n \in 0..N |-> IF n = 0 THEN {} ELSE MakesWay(F[n - 1], order[n], blocked)]
  BY <1>7 DEF Moving, N
<1>9. F[0] = {} /\ \A n \in 1..N : F[n] = MakesWay(F[n - 1], order[n], blocked)
  <2>1. ASSUME NEW n \in 1..N PROVE F[n] = MakesWay(F[n - 1], order[n], blocked)
    <3>1. n \in 0..N /\ n # 0
      BY <1>1
    <3> QED BY <1>8, <3>1
  <2>2. F[0] = {}
    <3>1. 0 \in 0..N
      BY <1>1
    <3> QED BY <1>8, <3>1
  <2> QED BY <2>1, <2>2
<1>10. \A n \in 0..N : F[n] \in Moves
  <2>1. Obeys(F, N, Moves, {}, step)
    BY <1>3, <1>9 DEF Obeys
  <2> QED BY <1>5, <2>1, RecursionStays
<1> DEFINE Good(n) == /\ MovesAreApart(F[n])
                      /\ \A m \in F[n] : /\ IsPreviewed(m)
                                         /\ \E k \in 1..n : m.task = order[k]
           T == {n \in 0..N : Good(n)}
<1>11. 0 \in T
  BY <1>1, <1>9 DEF MovesAreApart
<1>12. ASSUME NEW n \in 1..N, n - 1 \in T PROVE n \in T
  <2> DEFINE x == F[n - 1]
  <2>0. n \in 0..N /\ n - 1 \in 0..N /\ \A k \in 1..(n - 1) : k \in 1..n /\ k \in 1..N /\ k # n
    BY <1>1
  <2>1. x \in Moves /\ F[n] = MakesWay(x, order[n], blocked)
    BY <1>9, <1>10, <2>0
  <2>2. /\ MovesAreApart(x)
        /\ \A m \in x : IsPreviewed(m) /\ \E k \in 1..(n - 1) : m.task = order[k]
    BY <1>12
  <2> HIDE DEF x
  <2>3. CASE Left(n, x) = {}
    <3>1. F[n] = x
      BY <2>1, <2>3 DEF MakesWay, Left
    <3> QED BY <2>0, <2>2, <3>1
  <2>4. CASE Left(n, x) # {}
    <3> DEFINE s == Min(Left(n, x))
               new == Move(order[n], s)
    <3>1. F[n] = x \union {new}
      BY <2>1, <2>4 DEF MakesWay, Left
    <3>2. s \in Nat /\ s \in Left(n, x)
      BY <1>2, <2>1, <2>4
    <3> HIDE DEF s
    <3>3. IsPreviewed(new) /\ new.task = order[n] /\ new.to = Span(s, s + Duration[order[n]])
      BY <1>1, <3>2, MoveIsPreviewed
    <3>4. \A m \in x : ~Overlap(new.to, m.to)
      BY <3>2, <3>3 DEF Left, SlotsLeft, Clear
    <3> HIDE DEF new
    <3>5. ASSUME NEW m \in x PROVE ~Overlap(m.to, new.to) /\ m.task # new.task
      <4>1. m \in TaskMove /\ new \in TaskMove
        BY <2>2, <3>3 DEF IsPreviewed
      <4>2. m.to \in Interval /\ new.to \in Interval
        BY <4>1 DEF TaskMove
      <4>3. ~Overlap(m.to, new.to)
        BY <3>4, <4>2 DEF Overlap, Interval
      <4>4. PICK k \in 1..(n - 1) : m.task = order[k]
        BY <2>2
      <4>5. order[k] # order[n]
        BY <2>0 DEF N
      <4> QED BY <3>3, <4>3, <4>4, <4>5
    <3>6. MovesAreApart(F[n])
      BY <2>2, <3>1, <3>4, <3>5 DEF MovesAreApart
    <3>7. n \in 1..n
      BY <1>1
    <3>8. \A m \in F[n] : IsPreviewed(m) /\ \E k \in 1..n : m.task = order[k]
      BY <2>0, <2>2, <3>1, <3>3, <3>7
    <3> QED BY <2>0, <3>6, <3>8
  <2> QED BY <2>3, <2>4
<1> HIDE DEF T
<1>13. 0..N \subseteq T
  BY <1>1, <1>11, <1>12, BoundedInduction
<1>14. N \in T
  BY <1>1, <1>13
<1>15. Good(N) /\ F[N] \in SUBSET TaskMove
  BY <1>1, <1>10, <1>14 DEF T, Moves
<1>16. Preview(order, blocked) = F[N] \/ Preview(order, blocked) = {}
  BY DEF Preview, N
<1>17. MovesAreApart({})
  BY DEF MovesAreApart
<1> QED BY <1>15, <1>16, <1>17

-----------------------------------------------------------------------------
(* Repairs *)

\* Later versions of tasks take nothing from what previews say of earlier ones.
LEMMA PreviewAdvances ==
    ASSUME NEW rows \in [Task -> TaskRow], NEW new \in [Task -> TaskRow], Advance(rows, new),
           NEW v \in WorkerRow, PreviewFollows(v, rows)
    PROVE  PreviewFollows(v, new)
<1> SUFFICES ASSUME NEW m \in v.preview.moves
             PROVE  /\ m.version <= new[m.task].version
                    /\ m.version = new[m.task].version => new[m.task] = m.row
  BY DEF PreviewFollows
<1>1. v.preview \in PreviewOf
  BY DEF WorkerRow
<1>2. m \in TaskMove
  BY <1>1 DEF PreviewOf
<1>3. m.task \in Task /\ m.version \in Nat
  BY <1>2 DEF TaskMove
<1>4. rows[m.task].version \in Nat /\ new[m.task].version \in Nat
  BY <1>3 DEF TaskRow
<1>5. /\ m.version <= rows[m.task].version
      /\ m.version = rows[m.task].version => rows[m.task] = m.row
  BY DEF PreviewFollows
<1>6. new[m.task] = rows[m.task] \/ new[m.task].version > rows[m.task].version
  BY <1>3 DEF Advance
<1> QED BY <1>3, <1>4, <1>5, <1>6

\* A change of the schedule cannot make a batch wrong.
LEMMA BatchAdvances ==
    ASSUME NEW rows \in [Task -> TaskRow], NEW new \in [Task -> TaskRow], Advance(rows, new),
           NEW b \in Batch, BatchFollows(b, rows)
    PROVE  BatchFollows(b, new)
<1> SUFFICES ASSUME NEW m \in b.moves
             PROVE  /\ m.version < new[m.task].version
                    /\ m.version + 1 = new[m.task].version /\ b.status = "applied"
                           => new[m.task] = MovedRow(m)
  BY DEF BatchFollows
<1>1. m \in TaskMove
  BY DEF Batch
<1>2. m.task \in Task /\ m.version \in Nat
  BY <1>1 DEF TaskMove
<1>3. rows[m.task].version \in Nat /\ new[m.task].version \in Nat
  BY <1>2 DEF TaskRow
<1>4. /\ m.version < rows[m.task].version
      /\ m.version + 1 = rows[m.task].version /\ b.status = "applied"
             => rows[m.task] = MovedRow(m)
  BY DEF BatchFollows
<1>5. new[m.task] = rows[m.task] \/ new[m.task].version > rows[m.task].version
  BY <1>2 DEF Advance
<1> QED BY <1>2, <1>3, <1>4, <1>5

\* One field of a worker's record at a time.
LEMMA WorkerAt ==
    ASSUME NEW r \in WorkerRow, NEW x \in {"rest", "next", "apply", "request"}
    PROVE  /\ [r EXCEPT !.at = x] \in WorkerRow
           /\ [r EXCEPT !.at = x].at = x
           /\ [r EXCEPT !.at = x].preview = r.preview
BY DEF WorkerRow

LEMMA WorkerQueue ==
    ASSUME NEW r \in WorkerRow, NEW x \in SUBSET Disruption
    PROVE  /\ [r EXCEPT !.queue = x] \in WorkerRow
           /\ [r EXCEPT !.queue = x].at = r.at
           /\ [r EXCEPT !.queue = x].preview = r.preview
BY DEF WorkerRow

LEMMA WorkerMoved ==
    ASSUME NEW r \in WorkerRow, NEW x \in SUBSET Task
    PROVE  /\ [r EXCEPT !.moved = x] \in WorkerRow
           /\ [r EXCEPT !.moved = x].at = r.at
           /\ [r EXCEPT !.moved = x].preview = r.preview
BY DEF WorkerRow

LEMMA WorkerPreview ==
    ASSUME NEW r \in WorkerRow, NEW x \in PreviewOf
    PROVE  /\ [r EXCEPT !.preview = x] \in WorkerRow
           /\ [r EXCEPT !.preview = x].at = r.at
           /\ [r EXCEPT !.preview = x].preview = x
BY DEF WorkerRow

LEMMA WorkerPolicy ==
    ASSUME NEW r \in WorkerRow, NEW x \in Policy
    PROVE  /\ [r EXCEPT !.policy = x] \in WorkerRow
           /\ [r EXCEPT !.policy = x].at = r.at
           /\ [r EXCEPT !.policy = x].preview = r.preview
BY DEF WorkerRow

\* A task is moved once in moves that are apart.
LEMMA UniqueMove ==
    ASSUME NEW moves, MovesAreApart(moves), NEW m \in moves
    PROVE  (CHOOSE n \in moves : n.task = m.task) = m
<1>1. \A n \in moves : n.task = m.task => n = m
  BY DEF MovesAreApart
<1> QED BY <1>1

\* What a repair, or its reversal, does to the tasks: those of its moves go to
\* another place, all others stay.
MovedTo(rows, moves, place) ==
    [t \in Task |-> IF \E m \in moves : m.task = t
                    THEN [rows[t] EXCEPT !.version = @ + 1,
                                         !.slot = place[CHOOSE m \in moves : m.task = t]]
                    ELSE rows[t]]

\* What moving tasks leaves of the schedule.
LEMMA MovedRows ==
    ASSUME NEW rows \in [Task -> TaskRow], NEW moves \in SUBSET TaskMove, MovesAreApart(moves),
           NEW place \in [TaskMove -> Interval]
    PROVE  /\ MovedTo(rows, moves, place) \in [Task -> TaskRow]
           /\ Advance(rows, MovedTo(rows, moves, place))
           /\ \A m \in moves :
                 MovedTo(rows, moves, place)[m.task]
                     = [rows[m.task] EXCEPT !.version = @ + 1, !.slot = place[m]]
           /\ \A t \in Task :
                 (\A m \in moves : m.task # t) => MovedTo(rows, moves, place)[t] = rows[t]
<1> DEFINE new == MovedTo(rows, moves, place)
<1>1. ASSUME NEW m \in moves
      PROVE  /\ m.task \in Task
             /\ new[m.task] = [rows[m.task] EXCEPT !.version = @ + 1, !.slot = place[m]]
             /\ new[m.task] \in TaskRow /\ new[m.task].version > rows[m.task].version
  <2>1. m.task \in Task /\ rows[m.task] \in TaskRow
    BY DEF TaskMove
  <2>2. (CHOOSE n \in moves : n.task = m.task) = m
    BY UniqueMove
  <2>3. new[m.task] = [rows[m.task] EXCEPT !.version = @ + 1, !.slot = place[m]]
    BY <2>1, <2>2 DEF MovedTo
  <2>4. place[m] \in Interval
    BY DEF TaskMove
  <2>5. LET row == [rows[m.task] EXCEPT !.version = @ + 1, !.slot = place[m]]
        IN row \in TaskRow /\ row.version > rows[m.task].version
    BY <2>1, <2>4, ChangedPlace
  <2> QED BY <2>1, <2>3, <2>5
<1>2. ASSUME NEW t \in Task, \A m \in moves : m.task # t PROVE new[t] = rows[t]
  BY <1>2 DEF MovedTo
<1>3. ASSUME NEW t \in Task
      PROVE  new[t] \in TaskRow /\ (new[t] = rows[t] \/ new[t].version > rows[t].version)
  <2>1. CASE \E m \in moves : m.task = t
    BY <1>1, <2>1
  <2>2. CASE \A m \in moves : m.task # t
    BY <1>2, <2>2
  <2> QED BY <2>1, <2>2
<1>4. new \in [Task -> TaskRow]
  BY <1>3 DEF MovedTo
<1> HIDE DEF Advance
<1>5. Advance(rows, new)
  BY <1>3 DEF Advance
<1> QED BY <1>1, <1>2, <1>4, <1>5

\* The moves of a preview that still holds go to where they were to go.
LEMMA RepairMoves ==
    ASSUME tasks \in [Task -> TaskRow], NEW op, NEW moves \in SUBSET TaskMove,
           MovesAreApart(moves), Repair(op, moves)
    PROVE  /\ tasks' \in [Task -> TaskRow] /\ Advance(tasks, tasks')
           /\ \A m \in moves :
                 tasks'[m.task] = [tasks[m.task] EXCEPT !.version = @ + 1, !.slot = m.to]
           /\ \A t \in Task : (\A m \in moves : m.task # t) => tasks'[t] = tasks[t]
<1> DEFINE place == [m \in TaskMove |-> m.to]
<1>1. place \in [TaskMove -> Interval] /\ \A m \in moves : place[m] = m.to
  BY DEF TaskMove
<1>2. tasks' = MovedTo(tasks, moves, place)
  <2>1. ASSUME NEW t \in Task, \E m \in moves : m.task = t
        PROVE  place[CHOOSE m \in moves : m.task = t] = (CHOOSE m \in moves : m.task = t).to
    BY <2>1
  <2> HIDE DEF place
  <2> QED BY <2>1 DEF Repair, MovedTo
<1> HIDE DEF place
<1>3. /\ MovedTo(tasks, moves, place) \in [Task -> TaskRow]
      /\ Advance(tasks, MovedTo(tasks, moves, place))
      /\ \A m \in moves :
            MovedTo(tasks, moves, place)[m.task]
                = [tasks[m.task] EXCEPT !.version = @ + 1, !.slot = place[m]]
      /\ \A t \in Task :
            (\A m \in moves : m.task # t) => MovedTo(tasks, moves, place)[t] = tasks[t]
  BY <1>1, MovedRows
<1> QED BY <1>1, <1>2, <1>3

\* What reverting a batch leaves of the schedule.
LEMMA RevertMoves ==
    ASSUME tasks \in [Task -> TaskRow], NEW b \in Batch, MovesAreApart(b.moves), Revert(b)
    PROVE  /\ tasks' \in [Task -> TaskRow] /\ Advance(tasks, tasks')
           /\ \A m \in b.moves :
                 tasks'[m.task] = [tasks[m.task] EXCEPT !.version = @ + 1, !.slot = m.from]
<1> DEFINE place == [m \in TaskMove |-> m.from]
<1>0. b.moves \in SUBSET TaskMove
  BY DEF Batch
<1>1. place \in [TaskMove -> Interval] /\ \A m \in b.moves : place[m] = m.from
  BY <1>0 DEF TaskMove
<1>2. tasks' = MovedTo(tasks, b.moves, place)
  <2>1. ASSUME NEW t \in Task, \E m \in b.moves : m.task = t
        PROVE  place[CHOOSE m \in b.moves : m.task = t]
                   = (CHOOSE m \in b.moves : m.task = t).from
    BY <1>0, <2>1
  <2> HIDE DEF place
  <2> QED BY <2>1 DEF Revert, MovedTo
<1> HIDE DEF place
<1>3. /\ MovedTo(tasks, b.moves, place) \in [Task -> TaskRow]
      /\ Advance(tasks, MovedTo(tasks, b.moves, place))
      /\ \A m \in b.moves :
            MovedTo(tasks, b.moves, place)[m.task]
                = [tasks[m.task] EXCEPT !.version = @ + 1, !.slot = place[m]]
      /\ \A t \in Task :
            (\A m \in b.moves : m.task # t) => MovedTo(tasks, b.moves, place)[t] = tasks[t]
  BY <1>0, <1>1, MovedRows
<1> QED BY <1>1, <1>2, <1>3

\* A batch of previewed moves follows the tasks it moved.
LEMMA NewBatch ==
    ASSUME NEW op \in Operation, NEW moves \in SUBSET TaskMove, moves # {}
    PROVE  [op |-> op, status |-> "applied", moves |-> moves] \in Batch
<1>1. moves \in (SUBSET TaskMove) \ {{}}
  OBVIOUS
<1>2. "applied" \in {"applied", "reverted"}
  OBVIOUS
<1> QED BY <1>1, <1>2 DEF Batch

\* A repair that is applied is of tasks that are as they were previewed.
LEMMA RepairKeeps ==
    ASSUME RepairInv, NEW v \in WorkerRow, PreviewFollows(v, tasks),
           v.at \in {"apply", "request"}, NEW pol,
           Applicable(pol, v.preview.op, v.preview.moves),
           Repair(v.preview.op, v.preview.moves)
    PROVE  /\ tasks' \in [Task -> TaskRow] /\ Advance(tasks, tasks')
           /\ batches' \subseteq Batch /\ OneBatchPerOperation'
           /\ \A b \in batches' : BatchFollows(b, tasks')
<1> DEFINE op == v.preview.op
           moves == v.preview.moves
           b == [op |-> op, status |-> "applied", moves |-> moves]
<1>1. tasks \in [Task -> TaskRow] /\ batches \subseteq Batch
  BY DEF RepairInv, TypeOKRepairs, ScheduleOK
<1>2. op \in Operation /\ moves \in SUBSET TaskMove
  BY DEF WorkerRow, PreviewOf
<1>3. moves # {} /\ MovesAreApart(moves)
  BY DEF PreviewFollows
<1>4. /\ tasks' \in [Task -> TaskRow] /\ Advance(tasks, tasks')
      /\ \A m \in moves :
            tasks'[m.task] = [tasks[m.task] EXCEPT !.version = @ + 1, !.slot = m.to]
  BY <1>1, <1>2, <1>3, RepairMoves
<1>5. batches' = batches \union {b}
  BY DEF Repair
<1>6. b \in Batch
  <2> HIDE DEF op, moves
  <2> QED BY <1>2, <1>3, NewBatch
<1>7. b.op = op /\ b.moves = moves
  OBVIOUS
<1>8. ASSUME NEW m \in moves
      PROVE  /\ MoveOfRow(m) /\ m.version < tasks'[m.task].version
             /\ tasks'[m.task] = MovedRow(m)
  <2>1. m \in TaskMove /\ tasks[m.task] \in TaskRow
    BY <1>1, <1>2 DEF TaskMove
  <2>2. m.to \in Interval
    BY <2>1 DEF TaskMove
  <2>3. MoveOfRow(m) /\ tasks[m.task].version = m.version /\ tasks[m.task] = m.row
    BY DEF PreviewFollows, Applicable, Unchanged
  <2>4. LET row == [tasks[m.task] EXCEPT !.version = @ + 1, !.slot = m.to]
        IN /\ row = [tasks[m.task] EXCEPT !.slot = m.to, !.version = @ + 1]
           /\ row.version > tasks[m.task].version
    BY <2>1, <2>2, ChangedPlace
  <2>5. m.version \in Nat /\ tasks'[m.task].version \in Nat
    BY <1>4, <2>1 DEF TaskMove, TaskRow
  <2>6. tasks'[m.task] = MovedRow(m)
    BY <1>4, <2>3, <2>4 DEF MovedRow
  <2>7. tasks'[m.task].version > m.version
    BY <1>4, <2>3, <2>4
  <2> QED BY <2>3, <2>5, <2>6, <2>7
<1>9. BatchFollows(b, tasks')
  BY <1>3, <1>7, <1>8 DEF BatchFollows
<1> HIDE DEF b, op, moves
<1>10. \A c \in batches : BatchFollows(c, tasks')
  <2>1. \A c \in batches : c \in Batch /\ BatchFollows(c, tasks)
    BY <1>1 DEF RepairInv
  <2> QED BY <1>1, <1>4, <2>1, BatchAdvances
<1>11. OneBatchPerOperation'
  <2>1. \A c \in batches : c.op # op
    BY DEF Applicable, Known, op
  <2>2. \A c, d \in batches : c.op = d.op => c = d
    BY DEF RepairInv, OneBatchPerOperation
  <2>3. \A c, d \in batches' : c.op = d.op => c = d
    BY <1>5, <1>7, <2>1, <2>2
  <2> QED BY <2>3 DEF OneBatchPerOperation
<1> QED BY <1>1, <1>4, <1>5, <1>6, <1>9, <1>10, <1>11

\* Reverting keeps the batches right.
LEMMA RevertKeeps ==
    ASSUME RepairInv, NEW b \in batches, Revert(b)
    PROVE  /\ tasks' \in [Task -> TaskRow] /\ Advance(tasks, tasks')
           /\ batches' \subseteq Batch /\ OneBatchPerOperation'
           /\ \A c \in batches' : BatchFollows(c, tasks')
<1> DEFINE new == [b EXCEPT !.status = "reverted"]
<1>1. tasks \in [Task -> TaskRow] /\ batches \subseteq Batch
  BY DEF RepairInv, TypeOKRepairs, ScheduleOK
<1>2. \A c \in batches : c \in Batch /\ BatchFollows(c, tasks)
  BY <1>1 DEF RepairInv
<1>3. b \in Batch /\ MovesAreApart(b.moves)
  BY <1>2 DEF BatchFollows
<1>4. tasks' \in [Task -> TaskRow] /\ Advance(tasks, tasks')
  BY <1>1, <1>3, RevertMoves
<1>5. batches' = (batches \ {b}) \union {new}
  BY DEF Revert
<1>6. /\ new \in Batch /\ new.op = b.op /\ new.moves = b.moves /\ new.status = "reverted"
  BY <1>3 DEF Batch
<1> HIDE DEF new
<1>7. \A c \in batches : BatchFollows(c, tasks')
  BY <1>1, <1>2, <1>4, BatchAdvances
<1>8. BatchFollows(new, tasks')
  <2>1. BatchFollows(b, tasks')
    BY <1>7
  <2>2. new.status # "applied"
    BY <1>6
  <2> QED BY <1>6, <2>1, <2>2 DEF BatchFollows
<1>9. OneBatchPerOperation'
  <2>1. \A c, d \in batches : c.op = d.op => c = d
    BY DEF RepairInv, OneBatchPerOperation
  <2>2. \A c, d \in batches' : c.op = d.op => c = d
    BY <1>5, <1>6, <2>1
  <2> QED BY <2>2 DEF OneBatchPerOperation
<1> QED BY <1>1, <1>4, <1>5, <1>6, <1>7, <1>8, <1>9

\* A step of one worker.
LEMMA WorkerStep ==
    ASSUME RepairInv, tasks' \in [Task -> TaskRow], Advance(tasks, tasks'),
           NEW w \in Worker, NEW r \in WorkerRow, PreviewFollows(r, tasks'),
           worker' = [worker EXCEPT ![w] = r]
    PROVE  /\ worker' \in [Worker -> WorkerRow]
           /\ \A v \in Worker : PreviewFollows(worker'[v], tasks')
<1>1. worker \in [Worker -> WorkerRow] /\ tasks \in [Task -> TaskRow]
  BY DEF RepairInv, TypeOKRepairs, ScheduleOK
<1>2. worker' \in [Worker -> WorkerRow]
  BY <1>1
<1>3. ASSUME NEW v \in Worker PROVE PreviewFollows(worker'[v], tasks')
  <2>1. CASE v = w
    BY <1>1, <2>1
  <2>2. CASE v # w
    <3>1. worker'[v] = worker[v] /\ worker[v] \in WorkerRow
      BY <1>1, <2>2
    <3>2. PreviewFollows(worker[v], tasks)
      BY DEF RepairInv
    <3> QED BY <1>1, <3>1, <3>2, PreviewAdvances
  <2> QED BY <2>1, <2>2
<1> QED BY <1>2, <1>3

\* While batches stay, they keep saying what they say.
LEMMA BatchesStay ==
    ASSUME RepairInv, tasks' \in [Task -> TaskRow], Advance(tasks, tasks'), batches' = batches
    PROVE  /\ batches' \subseteq Batch /\ OneBatchPerOperation'
           /\ \A b \in batches' : BatchFollows(b, tasks')
<1>1. tasks \in [Task -> TaskRow] /\ batches \subseteq Batch
  BY DEF RepairInv, TypeOKRepairs, ScheduleOK
<1>2. \A b \in batches : b \in Batch /\ BatchFollows(b, tasks)
  BY <1>1 DEF RepairInv
<1>3. \A b \in batches : BatchFollows(b, tasks')
  BY <1>1, <1>2, BatchAdvances
<1> QED BY <1>1, <1>3 DEF RepairInv, OneBatchPerOperation

\* Nothing is said of an empty preview.
LEMMA NoPreviewFollows ==
    ASSUME NEW r, r.at \in {"rest", "next"}, r.preview = NoPreview, NEW rows
    PROVE  PreviewFollows(r, rows)
BY DEF PreviewFollows, NoPreview, MovesAreApart

LEMMA RestingIsWorker ==
    /\ Resting \in WorkerRow /\ NoPreview \in PreviewOf
    /\ Resting.at = "rest" /\ Resting.preview = NoPreview
<1>1. NoPreview \in PreviewOf
  BY DEF NoPreview, PreviewOf, Operation
<1>2. [on |-> FALSE, auto |-> FALSE, allowed |-> {}] \in Policy
  BY DEF Policy
<1> QED BY <1>1, <1>2 DEF Resting, WorkerRow

\* Disruptions are what they say.
LEMMA DisruptionsAreDisruptions ==
    ASSUME ScheduleOK
    PROVE  Disruptions \subseteq Disruption
<1> DEFINE At(t, e) == [task |-> t, version |-> tasks[t].version, event |-> e,
                        blocked |-> Span(Max({tasks[t].slot.start, e.at.start}),
                                         Min({tasks[t].slot.end, e.at.end}))]
<1> SUFFICES ASSUME NEW t \in Task, NEW e \in events, Disrupted(t, e)
             PROVE  At(t, e) \in Disruption
  <2>1. Disruptions = UNION {{At(t, e) : e \in {f \in events : Disrupted(t, f)}} : t \in Task}
    BY DEF Disruptions
  <2> HIDE DEF At
  <2> QED BY <2>1
<1>1. tasks[t] \in TaskRow /\ e \in Event
  BY DEF ScheduleOK
<1>2. tasks[t].version \in Nat /\ tasks[t].slot \in Interval /\ e.at \in Interval
  BY <1>1 DEF TaskRow, Event
<1> DEFINE a == tasks[t].slot
           i == e.at
<1>3. /\ a.start \in Nat /\ a.end \in Nat /\ a.start <= a.end
      /\ i.start \in Nat /\ i.end \in Nat /\ i.start <= i.end
      /\ a.start < i.end /\ a.end > i.start
  BY <1>2 DEF Interval, Disrupted, Overlap
<1> DEFINE s == Max({a.start, i.start})
           f == Min({a.end, i.end})
<1>4. s \in Nat /\ f \in Nat /\ s <= f
  <2>1. s = IF a.start >= i.start THEN a.start ELSE i.start
    BY <1>3, MaxOfTwo
  <2>2. f = IF a.end <= i.end THEN a.end ELSE i.end
    BY <1>3, MinOfTwo
  <2> HIDE DEF s, f
  <2> QED BY <1>3, <2>1, <2>2
<1> HIDE DEF s, f
<1>5. Span(s, f) \in Interval
  BY <1>4, SpanIsInterval
<1> QED BY <1>1, <1>2, <1>5 DEF Disruption, s, f

\* The new record of a worker that acts, and what becomes of the tasks and the
\* batches: enough for the invariant.
LEMMA ActionKeeps ==
    ASSUME RepairInv, tasks' \in [Task -> TaskRow], Advance(tasks, tasks'),
           UNCHANGED <<now, events, writes, policy>>, crashes' \in 0..MaxCrashes,
           batches' \subseteq Batch, OneBatchPerOperation',
           \A b \in batches' : BatchFollows(b, tasks'),
           NEW w \in Worker, NEW r \in WorkerRow, PreviewFollows(r, tasks'),
           worker' = [worker EXCEPT ![w] = r]
    PROVE  RepairInv'
<1>1. /\ worker' \in [Worker -> WorkerRow]
      /\ \A v \in Worker : PreviewFollows(worker'[v], tasks')
  BY WorkerStep
<1>2. ScheduleOK'
  BY DEF RepairInv, TypeOKRepairs, ScheduleOK
<1>3. TypeOKRepairs'
  BY <1>1, <1>2 DEF RepairInv, TypeOKRepairs
<1> QED BY <1>1, <1>3 DEF RepairInv

\* The same when only the worker changes.
LEMMA QuietActionKeeps ==
    ASSUME RepairInv, UNCHANGED <<scheduleVars, policy, batches>>, crashes' \in 0..MaxCrashes,
           NEW w \in Worker, NEW r \in WorkerRow, PreviewFollows(r, tasks),
           worker' = [worker EXCEPT ![w] = r]
    PROVE  RepairInv'
<1>1. UNCHANGED <<now, tasks, events, writes, policy, batches>>
  BY DEF scheduleVars
<1>2. tasks' \in [Task -> TaskRow] /\ Advance(tasks, tasks')
  BY <1>1 DEF RepairInv, TypeOKRepairs, ScheduleOK, Advance
<1>3. /\ batches' \subseteq Batch /\ OneBatchPerOperation'
      /\ \A b \in batches' : BatchFollows(b, tasks')
  BY <1>1, <1>2, BatchesStay
<1>4. PreviewFollows(r, tasks')
  BY <1>1
<1> QED BY <1>1, <1>2, <1>3, <1>4, ActionKeeps

\* A dispatcher's run begins.
LEMMA BeginRunKeeps ==
    ASSUME RepairInv, NEW w \in Worker, BeginRun(w)
    PROVE  RepairInv'
<1> DEFINE found == {d \in Disruptions : d.task \in policy.allowed}
           r1 == [worker[w] EXCEPT !.at = "next"]
           r2 == [r1 EXCEPT !.queue = found]
           r == [r2 EXCEPT !.policy = policy]
<1>1. worker[w] \in WorkerRow /\ worker[w].preview = NoPreview
  <2>1. worker[w] = Resting
    BY DEF BeginRun
  <2> QED BY <2>1, RestingIsWorker
<1>2. r1 \in WorkerRow /\ r1.at = "next" /\ r1.preview = NoPreview
  BY <1>1, WorkerAt
<1>3. found \in SUBSET Disruption
  BY DisruptionsAreDisruptions DEF RepairInv, TypeOKRepairs
<1>4. policy \in Policy
  BY DEF RepairInv, TypeOKRepairs
<1>5. worker' = [worker EXCEPT ![w] = r]
  BY DEF BeginRun
<1> HIDE DEF r1, found
<1>6. r2 \in WorkerRow /\ r2.at = "next" /\ r2.preview = NoPreview
  BY <1>2, <1>3, WorkerQueue
<1> HIDE DEF r2
<1>7. r \in WorkerRow /\ r.at = "next" /\ r.preview = NoPreview
  BY <1>4, <1>6, WorkerPolicy
<1> HIDE DEF r
<1>8. PreviewFollows(r, tasks)
  BY <1>7, NoPreviewFollows
<1>9. UNCHANGED <<scheduleVars, policy, batches>> /\ crashes' \in 0..MaxCrashes
  BY DEF BeginRun, RepairInv, TypeOKRepairs
<1> QED BY <1>5, <1>7, <1>8, <1>9, QuietActionKeeps

\* A preview that is not empty is right for the tasks as they are.
LEMMA PreviewFollowsNow ==
    ASSUME ScheduleOK, NEW op \in Operation, NEW moves \in SUBSET TaskMove, moves # {},
           MovesAreApart(moves), \A m \in moves : IsPreviewed(m),
           NEW r, r.at \in {"apply", "request"}, r.preview = [op |-> op, moves |-> moves]
    PROVE  PreviewFollows(r, tasks)
<1>1. r.preview.moves = moves
  OBVIOUS
<1>2. ASSUME NEW m \in moves
      PROVE  /\ MoveOfRow(m) /\ m.version <= tasks[m.task].version /\ tasks[m.task] = m.row
  <2>1. IsPreviewed(m) /\ m.version \in Nat
    BY DEF TaskMove
  <2> QED BY <2>1 DEF IsPreviewed, MoveOfRow
<1> QED BY <1>1, <1>2 DEF PreviewFollows

\* It previews the repair of the next task.
LEMMA PreviewNextKeeps ==
    ASSUME RepairInv, NEW w \in Worker, NEW d \in worker[w].queue, PreviewNext(w, d)
    PROVE  RepairInv'
<1> DEFINE moves == IF Skipped(w, d) THEN {} ELSE Preview(<<d.task>>, d.blocked)
           next == IF moves = {} THEN "next" ELSE "apply"
           preview == IF moves = {} THEN NoPreview ELSE [op |-> d, moves |-> moves]
           queue == worker[w].queue \ {d}
           r1 == [worker[w] EXCEPT !.queue = queue]
           r2 == [r1 EXCEPT !.at = next]
           r == [r2 EXCEPT !.preview = preview]
<1>1. worker[w] \in WorkerRow /\ ScheduleOK
  BY DEF RepairInv, TypeOKRepairs
<1>2. d \in Disruption /\ queue \in SUBSET Disruption
  BY <1>1 DEF WorkerRow
<1>3. /\ moves \in SUBSET TaskMove /\ MovesAreApart(moves)
      /\ \A m \in moves : IsPreviewed(m)
  <2>1. <<d.task>> \in Seq(Task) /\ Len(<<d.task>>) = 1 /\ d.blocked \in Interval
    BY <1>2 DEF Disruption
  <2>2. \A i, j \in 1..Len(<<d.task>>) : i # j => <<d.task>>[i] # <<d.task>>[j]
    BY <2>1
  <2>3. LET p == Preview(<<d.task>>, d.blocked)
        IN p \in SUBSET TaskMove /\ MovesAreApart(p) /\ \A m \in p : IsPreviewed(m)
    BY <1>1, <2>1, <2>2, PreviewIsPreviewed
  <2> QED BY <2>3 DEF MovesAreApart
<1>4. worker' = [worker EXCEPT ![w] = r]
  <2> DEFINE Acting(m) == [worker[w] EXCEPT !.queue = queue,
                                           !.at = IF m = {} THEN "next" ELSE "apply",
                                           !.preview = IF m = {} THEN NoPreview
                                                       ELSE [op |-> d, moves |-> m]]
  <2>1. \E m \in {moves} : worker' = [worker EXCEPT ![w] = Acting(m)]
    BY DEF PreviewNext
  <2> HIDE DEF moves
  <2>2. Acting(moves) = r
    OBVIOUS
  <2> HIDE DEF Acting, r
  <2> QED BY <2>1, <2>2
<1>5. UNCHANGED <<scheduleVars, policy, batches>> /\ crashes' \in 0..MaxCrashes
  BY DEF PreviewNext, RepairInv, TypeOKRepairs
<1>0. /\ next \in {"rest", "next", "apply", "request"}
      /\ next = (IF moves = {} THEN "next" ELSE "apply")
  OBVIOUS
<1> HIDE DEF moves, next
<1>6. preview \in PreviewOf
  <2>1. d \in Operation
    BY <1>2 DEF Operation
  <2> QED BY <1>3, <2>1, RestingIsWorker DEF PreviewOf
<1> HIDE DEF preview, queue
<1>7. r1 \in WorkerRow
  BY <1>1, <1>2, WorkerQueue
<1> HIDE DEF r1
<1>8. r2 \in WorkerRow /\ r2.at = next
  BY <1>0, <1>7, WorkerAt
<1> HIDE DEF r2
<1>9. r \in WorkerRow /\ r.at = next /\ r.preview = preview
  BY <1>6, <1>8, WorkerPreview
<1> HIDE DEF r
<1>10. PreviewFollows(r, tasks)
  <2>1. CASE moves = {}
    <3>1. r.at = "next" /\ r.preview = NoPreview
      BY <1>0, <1>9, <2>1 DEF preview
    <3> QED BY <3>1, NoPreviewFollows
  <2>2. CASE moves # {}
    <3>1. r.at = "apply" /\ r.preview = [op |-> d, moves |-> moves]
      BY <1>0, <1>9, <2>2 DEF preview
    <3>2. d \in Operation
      BY <1>2 DEF Operation
    <3> QED BY <1>1, <1>3, <2>2, <3>1, <3>2, PreviewFollowsNow
  <2> QED BY <2>1, <2>2
<1> QED BY <1>4, <1>5, <1>9, <1>10, QuietActionKeeps

\* A user asks for a repair.
LEMMA BeginRequestKeeps ==
    ASSUME RepairInv, NEW w \in Worker, NEW op \in Request, NEW ts \in SUBSET Task,
           NEW order \in SetToSeqs(ts), NEW at \in SpanChoices,
           BeginRequest(w, op, order, at)
    PROVE  RepairInv'
<1> DEFINE moves == Preview(order, at)
           preview == [op |-> op, moves |-> moves]
           r1 == [worker[w] EXCEPT !.at = "request"]
           r2 == [r1 EXCEPT !.policy = policy]
           r == [r2 EXCEPT !.preview = preview]
<1>1. worker[w] \in WorkerRow /\ ScheduleOK /\ policy \in Policy
  BY DEF RepairInv, TypeOKRepairs
<1>2. /\ moves \in SUBSET TaskMove /\ MovesAreApart(moves)
      /\ \A m \in moves : IsPreviewed(m)
  <2>1. IsFiniteSet(ts)
    BY PlannerAssumption, FS_Subset
  <2>2. Cardinality(ts) \in Nat
    BY <2>1, FS_CardinalityType
  <2>3. /\ order \in [1..Cardinality(ts) -> ts]
        /\ \A i, j \in 1..Cardinality(ts) : i # j => order[i] # order[j]
    BY DEF SetToSeqs
  <2>4. order \in Seq(Task) /\ Len(order) = Cardinality(ts)
    BY <2>2, <2>3
  <2>5. \A i, j \in 1..Len(order) : i # j => order[i] # order[j]
    BY <2>3, <2>4
  <2>6. at \in Interval
    BY ScheduleAssumption
  <2> QED BY <1>1, <2>4, <2>5, <2>6, PreviewIsPreviewed
<1>3. moves # {} /\ worker' = [worker EXCEPT ![w] = r]
  BY DEF BeginRequest
<1>4. UNCHANGED <<scheduleVars, policy, batches>> /\ crashes' \in 0..MaxCrashes
  BY DEF BeginRequest, RepairInv, TypeOKRepairs
<1>5. op \in Operation
  BY DEF Operation
<1> HIDE DEF moves
<1>6. preview \in PreviewOf
  BY <1>2, <1>5 DEF PreviewOf
<1> HIDE DEF preview
<1>7. r1 \in WorkerRow /\ r1.at = "request"
  BY <1>1, WorkerAt
<1> HIDE DEF r1
<1>8. r2 \in WorkerRow /\ r2.at = "request"
  BY <1>1, <1>7, WorkerPolicy
<1> HIDE DEF r2
<1>9. r \in WorkerRow /\ r.at = "request" /\ r.preview = preview
  BY <1>6, <1>8, WorkerPreview
<1> HIDE DEF r
<1>10. PreviewFollows(r, tasks)
  BY <1>1, <1>2, <1>3, <1>5, <1>9, PreviewFollowsNow DEF preview
<1> QED BY <1>3, <1>4, <1>9, <1>10, QuietActionKeeps

\* A run ends, or its worker dies.
LEMMA RestKeeps ==
    ASSUME RepairInv, NEW w \in Worker, EndRun(w) \/ Crash(w)
    PROVE  RepairInv'
<1>1. worker' = [worker EXCEPT ![w] = Resting] /\ UNCHANGED <<scheduleVars, policy, batches>>
  BY DEF EndRun, Crash
<1>2. crashes' \in 0..MaxCrashes
  BY ReplanningAssumption DEF EndRun, Crash, RepairInv, TypeOKRepairs
<1>3. Resting \in WorkerRow /\ Resting.at = "rest" /\ Resting.preview = NoPreview
  BY RestingIsWorker
<1>4. PreviewFollows(Resting, tasks)
  BY <1>3, NoPreviewFollows
<1> QED BY <1>1, <1>2, <1>3, <1>4, QuietActionKeeps

\* Whether a worker applies its preview or is refused.
LEMMA ApplyingKeeps ==
    ASSUME RepairInv, NEW w \in Worker, worker[w].at \in {"apply", "request"},
           IF Applicable(worker[w].policy, worker[w].preview.op, worker[w].preview.moves)
           THEN Repair(worker[w].preview.op, worker[w].preview.moves)
           ELSE UNCHANGED <<tasks, batches>>
    PROVE  /\ tasks' \in [Task -> TaskRow] /\ Advance(tasks, tasks')
           /\ batches' \subseteq Batch /\ OneBatchPerOperation'
           /\ \A b \in batches' : BatchFollows(b, tasks')
<1>1. worker[w] \in WorkerRow /\ PreviewFollows(worker[w], tasks)
  BY DEF RepairInv, TypeOKRepairs
<1>2. CASE Applicable(worker[w].policy, worker[w].preview.op, worker[w].preview.moves)
  BY <1>1, <1>2, RepairKeeps
<1>3. CASE UNCHANGED <<tasks, batches>>
  <2>1. tasks' \in [Task -> TaskRow] /\ Advance(tasks, tasks') /\ batches' = batches
    BY <1>3 DEF RepairInv, TypeOKRepairs, ScheduleOK, Advance
  <2> QED BY <2>1, BatchesStay
<1> QED BY <1>2, <1>3

\* The dispatcher applies what it previewed.
LEMMA ApplyNextKeeps ==
    ASSUME RepairInv, NEW w \in Worker, ApplyNext(w)
    PROVE  RepairInv'
<1> DEFINE p == worker[w].preview
           moved == IF Known(p.op) \/ Applicable(worker[w].policy, p.op, p.moves)
                    THEN worker[w].moved \union {m.task : m \in p.moves} ELSE worker[w].moved
           r1 == [worker[w] EXCEPT !.at = "next"]
           r2 == [r1 EXCEPT !.preview = NoPreview]
           r == [r2 EXCEPT !.moved = moved]
<1>1. worker[w] \in WorkerRow
  BY DEF RepairInv, TypeOKRepairs
<1>2. moved \in SUBSET Task
  <2>1. worker[w].moved \in SUBSET Task /\ p \in PreviewOf
    BY <1>1 DEF WorkerRow
  <2>2. p.moves \in SUBSET TaskMove
    BY <2>1 DEF PreviewOf
  <2>3. {m.task : m \in p.moves} \in SUBSET Task
    BY <2>2 DEF TaskMove
  <2> QED BY <2>1, <2>3
<1>3. worker' = [worker EXCEPT ![w] = r]
  <2> DEFINE after == [worker[w] EXCEPT
                         !.at = "next", !.preview = NoPreview,
                         !.moved = IF \/ Known(p.op)
                                      \/ Applicable(worker[w].policy, p.op, p.moves)
                                   THEN worker[w].moved \union {m.task : m \in p.moves}
                                   ELSE worker[w].moved]
  <2>1. worker' = [worker EXCEPT ![w] = after]
    BY DEF ApplyNext
  <2>2. after = r
    OBVIOUS
  <2> HIDE DEF after, r
  <2> QED BY <2>1, <2>2
<1> HIDE DEF moved
<1>4. r1 \in WorkerRow /\ r1.at = "next"
  BY <1>1, WorkerAt
<1> HIDE DEF r1
<1>5. r2 \in WorkerRow /\ r2.at = "next" /\ r2.preview = NoPreview
  BY <1>4, RestingIsWorker, WorkerPreview
<1> HIDE DEF r2
<1>6. r \in WorkerRow /\ r.at = "next" /\ r.preview = NoPreview
  BY <1>2, <1>5, WorkerMoved
<1> HIDE DEF r
<1>7. PreviewFollows(r, tasks')
  BY <1>6, NoPreviewFollows
<1>8. /\ tasks' \in [Task -> TaskRow] /\ Advance(tasks, tasks')
      /\ batches' \subseteq Batch /\ OneBatchPerOperation'
      /\ \A b \in batches' : BatchFollows(b, tasks')
  BY ApplyingKeeps DEF ApplyNext
<1>9. UNCHANGED <<now, events, writes, policy>> /\ crashes' \in 0..MaxCrashes
  BY DEF ApplyNext, RepairInv, TypeOKRepairs
<1> QED BY <1>3, <1>6, <1>7, <1>8, <1>9, ActionKeeps

\* So does the request of a user.
LEMMA ApplyRequestKeeps ==
    ASSUME RepairInv, NEW w \in Worker, ApplyRequest(w)
    PROVE  RepairInv'
<1>1. Resting \in WorkerRow /\ Resting.at = "rest" /\ Resting.preview = NoPreview
  BY RestingIsWorker
<1>2. PreviewFollows(Resting, tasks')
  BY <1>1, NoPreviewFollows
<1>3. /\ tasks' \in [Task -> TaskRow] /\ Advance(tasks, tasks')
      /\ batches' \subseteq Batch /\ OneBatchPerOperation'
      /\ \A b \in batches' : BatchFollows(b, tasks')
  BY ApplyingKeeps DEF ApplyRequest
<1>4. UNCHANGED <<now, events, writes, policy>> /\ crashes' \in 0..MaxCrashes
  BY DEF ApplyRequest, RepairInv, TypeOKRepairs
<1>5. worker' = [worker EXCEPT ![w] = Resting]
  BY DEF ApplyRequest
<1> QED BY <1>1, <1>2, <1>3, <1>4, <1>5, ActionKeeps

\* What leaves the workers alone.
LEMMA OthersKeep ==
    ASSUME RepairInv, ScheduleOK', Advance(tasks, tasks'), policy' \in Policy,
           batches' \subseteq Batch, OneBatchPerOperation',
           \A b \in batches' : BatchFollows(b, tasks'),
           UNCHANGED <<worker, crashes>>
    PROVE  RepairInv'
<1>1. TypeOKRepairs'
  BY DEF RepairInv, TypeOKRepairs
<1>2. ASSUME NEW w \in Worker PROVE PreviewFollows(worker'[w], tasks')
  <2>1. worker[w] \in WorkerRow /\ PreviewFollows(worker[w], tasks) /\ worker'[w] = worker[w]
    BY DEF RepairInv, TypeOKRepairs
  <2>2. tasks \in [Task -> TaskRow] /\ tasks' \in [Task -> TaskRow]
    BY DEF RepairInv, TypeOKRepairs, ScheduleOK
  <2> QED BY <2>1, <2>2, PreviewAdvances
<1> QED BY <1>1, <1>2 DEF RepairInv

\* RepairInv is inductive as it stands.
LEMMA RepairInvInduction ==
    ASSUME RepairInv, [NextRepairs]_repairVars
    PROVE  RepairInv'
<1>1. ASSUME NEW w \in Worker, Dispatch(w) \/ Crash(w) PROVE RepairInv'
  <2>1. CASE BeginRun(w)
    BY <2>1, BeginRunKeeps
  <2>2. CASE \E d \in worker[w].queue : PreviewNext(w, d)
    BY <2>2, PreviewNextKeeps
  <2>3. CASE ApplyNext(w)
    BY <2>3, ApplyNextKeeps
  <2>4. CASE EndRun(w) \/ Crash(w)
    BY <2>4, RestKeeps
  <2>5. CASE ApplyRequest(w)
    BY <2>5, ApplyRequestKeeps
  <2> QED BY <1>1, <2>1, <2>2, <2>3, <2>4, <2>5 DEF Dispatch
<1>2. ASSUME NEW w \in Worker, NEW op \in Request, NEW ts \in (SUBSET Task) \ {{}},
             NEW at \in SpanChoices, NEW order \in SetToSeqs(ts),
             BeginRequest(w, op, order, at)
      PROVE  RepairInv'
  BY <1>2, BeginRequestKeeps
<1>3. ASSUME NEW b \in batches, Revert(b) PROVE RepairInv'
  <2>1. /\ tasks' \in [Task -> TaskRow] /\ Advance(tasks, tasks')
        /\ batches' \subseteq Batch /\ OneBatchPerOperation'
        /\ \A c \in batches' : BatchFollows(c, tasks')
    BY <1>3, RevertKeeps
  <2>2. UNCHANGED <<now, events, writes, policy, worker, crashes>>
    BY <1>3 DEF Revert
  <2>3. ScheduleOK' /\ policy' \in Policy
    BY <2>1, <2>2 DEF RepairInv, TypeOKRepairs, ScheduleOK
  <2> QED BY <2>1, <2>2, <2>3, OthersKeep
<1>4. ASSUME NEW new \in PolicyChoices, SetPolicy(new) PROVE RepairInv'
  <2>1. UNCHANGED <<now, tasks, events, batches, worker, crashes>> /\ policy' = new /\ Write
    BY <1>4 DEF SetPolicy
  <2>2. policy' \in Policy
    <3>1. [on |-> FALSE, auto |-> FALSE, allowed |-> Task] \in Policy
      BY DEF Policy
    <3>2. [on |-> TRUE, auto |-> FALSE, allowed |-> {}] \in Policy
      BY DEF Policy
    <3>3. [on |-> TRUE, auto |-> TRUE, allowed |-> Task] \in Policy
      BY DEF Policy
    <3> HIDE DEF Policy
    <3> QED BY <2>1, <3>1, <3>2, <3>3 DEF PolicyChoices
  <2>3. ScheduleOK'
    BY <2>1, ScheduleAssumption DEF RepairInv, TypeOKRepairs, ScheduleOK, Write
  <2>4. tasks' \in [Task -> TaskRow] /\ Advance(tasks, tasks')
    BY <2>1, <2>3 DEF ScheduleOK, Advance
  <2>5. /\ batches' \subseteq Batch /\ OneBatchPerOperation'
        /\ \A b \in batches' : BatchFollows(b, tasks')
    BY <2>1, <2>4, BatchesStay
  <2> QED BY <2>1, <2>2, <2>3, <2>4, <2>5, OthersKeep
<1>5. ASSUME ChangeSchedule, UNCHANGED replanVars PROVE RepairInv'
  <2>1. UNCHANGED <<policy, batches, worker, crashes>>
    BY <1>5 DEF replanVars
  <2>2. ScheduleOK' /\ Advance(tasks, tasks')
    BY <1>5, ChangesAdvance DEF RepairInv, TypeOKRepairs
  <2>3. tasks' \in [Task -> TaskRow] /\ policy' \in Policy
    BY <2>1, <2>2 DEF RepairInv, TypeOKRepairs, ScheduleOK
  <2>4. /\ batches' \subseteq Batch /\ OneBatchPerOperation'
        /\ \A b \in batches' : BatchFollows(b, tasks')
    BY <2>1, <2>2, <2>3, BatchesStay
  <2> QED BY <2>1, <2>2, <2>3, <2>4, OthersKeep
<1>6. CASE UNCHANGED repairVars
  <2>1. UNCHANGED <<now, tasks, events, writes, policy, batches, worker, crashes>>
    BY <1>6 DEF repairVars, scheduleVars, replanVars
  <2> QED BY <2>1 DEF RepairInv, TypeOKRepairs, ScheduleOK, OneBatchPerOperation
<1> QED BY <1>1, <1>2, <1>3, <1>4, <1>5, <1>6 DEF NextRepairs

\* The tables of batches and the previews of the workers: a batch carries the
\* tasks as it found them and left them, one operation makes one batch, and a
\* task that still has the version of a preview is the task previewed.
THEOREM BatchesAreKept == SpecRepairs => []RepairInv
<1>1. ASSUME InitRepairs PROVE RepairInv
  <2>1. ScheduleOK
    BY <1>1, InitialSchedule DEF InitRepairs
  <2>2. [on |-> TRUE, auto |-> TRUE, allowed |-> Task] \in Policy
    BY DEF Policy
  <2>3. worker \in [Worker -> WorkerRow] /\ \A w \in Worker : worker[w] = Resting
    BY <1>1, RestingIsWorker DEF InitRepairs
  <2>4. crashes \in 0..MaxCrashes /\ batches = {}
    BY <1>1, ReplanningAssumption DEF InitRepairs
  <2>5. PreviewFollows(Resting, tasks)
    BY RestingIsWorker, NoPreviewFollows
  <2>6. TypeOKRepairs
    BY <1>1, <2>1, <2>2, <2>3, <2>4 DEF InitRepairs, TypeOKRepairs
  <2> QED BY <2>3, <2>4, <2>5, <2>6 DEF RepairInv, OneBatchPerOperation
<1>2. RepairInv /\ [NextRepairs]_repairVars => RepairInv'
  BY RepairInvInduction
<1> QED BY <1>1, <1>2, PTL DEF SpecRepairs

\* Batches come from a worker that applies its preview, and from revert_batch.
MadeBy(w, b) ==
    /\ worker[w].at \in {"apply", "request"}
    /\ Applicable(worker[w].policy, worker[w].preview.op, worker[w].preview.moves)
    /\ Repair(worker[w].preview.op, worker[w].preview.moves)
    /\ UNCHANGED events
    /\ b.status = "applied" /\ b.moves = worker[w].preview.moves

\* A batch that is new was made from a preview that still held.
LEMMA WhereBatchesComeFrom ==
    ASSUME RepairInv, [NextRepairs]_repairVars, NEW b \in NewBatches
    PROVE  \/ \E w \in Worker : MadeBy(w, b)
           \/ b.status = "reverted" /\ \E c \in batches : Revert(c) /\ b.moves = c.moves
<1>0. b \in batches' /\ b \notin batches
  BY DEF NewBatches
<1>1. ASSUME NEW w \in Worker, ApplyNext(w) \/ ApplyRequest(w) PROVE MadeBy(w, b)
  <2> DEFINE p == worker[w].preview
             new == [op |-> p.op, status |-> "applied", moves |-> p.moves]
  <2>1. /\ worker[w].at \in {"apply", "request"} /\ UNCHANGED events
        /\ IF Applicable(worker[w].policy, p.op, p.moves)
           THEN Repair(p.op, p.moves) ELSE UNCHANGED <<tasks, batches>>
    BY <1>1 DEF ApplyNext, ApplyRequest
  <2>2. Applicable(worker[w].policy, p.op, p.moves) /\ Repair(p.op, p.moves)
    BY <1>0, <2>1
  <2>3. b = new
    BY <1>0, <2>2 DEF Repair
  <2> QED BY <2>1, <2>2, <2>3 DEF MadeBy
<1>2. ASSUME NEW w \in Worker, Dispatch(w) \/ Crash(w), ~ApplyNext(w), ~ApplyRequest(w)
      PROVE  batches' = batches
  <2>1. CASE BeginRun(w)
    BY <2>1 DEF BeginRun
  <2>2. CASE \E d \in worker[w].queue : PreviewNext(w, d)
    BY <2>2 DEF PreviewNext
  <2>3. CASE EndRun(w) \/ Crash(w)
    BY <2>3 DEF EndRun, Crash
  <2> QED BY <1>2, <2>1, <2>2, <2>3 DEF Dispatch
<1>3. ASSUME NEW c \in batches, Revert(c)
      PROVE  b.status = "reverted" /\ b.moves = c.moves
  <2> DEFINE new == [c EXCEPT !.status = "reverted"]
  <2>1. b = new
    BY <1>0, <1>3 DEF Revert
  <2>2. c \in Batch
    BY DEF RepairInv, TypeOKRepairs
  <2> QED BY <2>1, <2>2 DEF Batch
<1>4. ASSUME NEW w \in Worker, NEW op \in Request, NEW ts \in (SUBSET Task) \ {{}},
             NEW at \in SpanChoices, NEW order \in SetToSeqs(ts),
             BeginRequest(w, op, order, at)
      PROVE  batches' = batches
  BY <1>4 DEF BeginRequest
<1>5. ASSUME NEW new \in PolicyChoices, SetPolicy(new) PROVE batches' = batches
  BY <1>5 DEF SetPolicy
<1>6. CASE UNCHANGED replanVars
  BY <1>0, <1>6 DEF replanVars
<1>7. CASE UNCHANGED repairVars
  BY <1>0, <1>7 DEF repairVars, replanVars
<1> QED BY <1>0, <1>1, <1>2, <1>3, <1>4, <1>5, <1>6, <1>7 DEF NextRepairs

\* Facts of a repair at the moment it is made.
LEMMA MadeFromWhatWas ==
    ASSUME RepairInv, NEW w \in Worker, NEW b, MadeBy(w, b)
    PROVE  /\ b.moves \in SUBSET TaskMove /\ MovesAreApart(b.moves)
           /\ \A m \in b.moves :
                 /\ m.task \in Task /\ m.to \in Interval /\ tasks[m.task] = m.row
                 /\ Clear(m.to, Busy({n.task : n \in b.moves}))
                 /\ tasks'[m.task].slot = m.to
           /\ \A t \in Task : (\A m \in b.moves : m.task # t) => tasks'[t] = tasks[t]
<1> DEFINE moves == worker[w].preview.moves
           op == worker[w].preview.op
<1>1. /\ worker[w] \in WorkerRow /\ PreviewFollows(worker[w], tasks)
      /\ tasks \in [Task -> TaskRow]
  BY DEF RepairInv, TypeOKRepairs, ScheduleOK
<1>2. b.moves = moves /\ moves \in SUBSET TaskMove
  BY <1>1 DEF MadeBy, WorkerRow, PreviewOf
<1>3. MovesAreApart(moves)
  BY <1>1 DEF PreviewFollows
<1>4. Unchanged(moves) /\ Room(moves) /\ Repair(op, moves)
  BY DEF MadeBy, Applicable
<1>5. /\ \A m \in moves :
            tasks'[m.task] = [tasks[m.task] EXCEPT !.version = @ + 1, !.slot = m.to]
      /\ \A t \in Task : (\A m \in moves : m.task # t) => tasks'[t] = tasks[t]
  BY <1>1, <1>2, <1>3, <1>4, RepairMoves
<1>6. ASSUME NEW m \in moves
      PROVE  /\ m.task \in Task /\ m.to \in Interval /\ tasks[m.task] = m.row
             /\ Clear(m.to, Busy({n.task : n \in moves}))
             /\ tasks'[m.task].slot = m.to
  <2>1. m.task \in Task /\ m.to \in Interval /\ tasks[m.task] \in TaskRow
    BY <1>1, <1>2 DEF TaskMove
  <2>2. tasks[m.task] = m.row
    BY <1>1, <1>4 DEF PreviewFollows, Unchanged
  <2>3. Clear(m.to, Busy({n.task : n \in moves}))
    BY <1>4 DEF Room, SlotsAreFree
  <2>4. LET row == [tasks[m.task] EXCEPT !.version = @ + 1, !.slot = m.to]
        IN row = [state |-> tasks[m.task].state, slot |-> m.to,
                  version |-> tasks[m.task].version + 1]
    BY <2>1, ChangedPlace
  <2>5. tasks'[m.task].slot = m.to
    BY <1>5, <2>4
  <2> QED BY <2>1, <2>2, <2>3, <2>5
<1> QED BY <1>2, <1>3, <1>5, <1>6

\* A repair is made where it fits and on what it was made for, whoever else
\* changes the schedule between its preview and its transaction.
THEOREM RepairsStaySafe == SpecRepairs => RepairsAreSafe
<1> DEFINE Fit == \A b \in NewBatches : b.status = "applied" =>
                     \A m \in b.moves :
                        /\ Clear(tasks'[m.task].slot, EventSpans)
                        /\ \A t \in Task \ {m.task} :
                              tasks'[t].state = "active" =>
                                  ~Overlap(tasks'[m.task].slot, tasks'[t].slot)
           Same == \A b \in NewBatches : b.status = "applied" =>
                      \A m \in b.moves : tasks[m.task] = m.row
<1>1. RepairInv /\ [NextRepairs]_repairVars => Fit /\ Same
  <2> SUFFICES ASSUME RepairInv, [NextRepairs]_repairVars,
                      NEW b \in NewBatches, b.status = "applied", NEW m \in b.moves
               PROVE  /\ Clear(tasks'[m.task].slot, EventSpans)
                      /\ \A t \in Task \ {m.task} :
                            tasks'[t].state = "active" =>
                                ~Overlap(tasks'[m.task].slot, tasks'[t].slot)
                      /\ tasks[m.task] = m.row
    OBVIOUS
  <2>1. PICK w \in Worker : MadeBy(w, b)
    BY WhereBatchesComeFrom
  <2>2. /\ b.moves \in SUBSET TaskMove /\ MovesAreApart(b.moves)
        /\ \A n \in b.moves :
              /\ n.task \in Task /\ n.to \in Interval /\ tasks[n.task] = n.row
              /\ Clear(n.to, Busy({k.task : k \in b.moves}))
              /\ tasks'[n.task].slot = n.to
        /\ \A t \in Task : (\A n \in b.moves : n.task # t) => tasks'[t] = tasks[t]
    BY <2>1, MadeFromWhatWas
  <2>3. /\ Clear(m.to, EventSpans)
        /\ \A t \in Task \ {k.task : k \in b.moves} :
              tasks[t].state = "active" => ~Overlap(m.to, tasks[t].slot)
    <3>1. ScheduleOK
      BY DEF RepairInv, TypeOKRepairs
    <3>2. m.to \in Interval /\ Clear(m.to, Busy({k.task : k \in b.moves}))
      BY <2>2
    <3> QED BY <3>1, <3>2, ClearOfBusy
  <2>4. ASSUME NEW t \in Task \ {m.task}, tasks'[t].state = "active"
        PROVE  ~Overlap(m.to, tasks'[t].slot)
    <3>1. CASE \E n \in b.moves : n.task = t
      <4>1. PICK n \in b.moves : n.task = t
        BY <3>1
      <4>2. tasks'[t].slot = n.to /\ n # m
        BY <2>2, <4>1
      <4>3. ~Overlap(m.to, n.to)
        BY <2>2, <4>2 DEF MovesAreApart
      <4> QED BY <4>2, <4>3
    <3>2. CASE \A n \in b.moves : n.task # t
      <4>1. tasks'[t] = tasks[t] /\ t \in Task \ {k.task : k \in b.moves}
        BY <2>2, <3>2
      <4> QED BY <2>3, <2>4, <4>1
    <3> QED BY <3>1, <3>2
  <2> QED BY <2>2, <2>3, <2>4
<1>2. RepairInv /\ [NextRepairs]_repairVars => [Fit]_repairVars /\ [Same]_repairVars
  BY <1>1
<1> HIDE DEF Fit, Same
<1>3. SpecRepairs => [][Fit]_repairVars /\ [][Same]_repairVars
  BY <1>2, BatchesAreKept, PTL DEF SpecRepairs
<1> QED BY <1>3 DEF Fit, Same, RepairsAreSafe, RepairsFit, RepairsOverwriteNothing

\* Reverting restores the prior schedule, exactly.
THEOREM RevertsAreExact == SpecRepairs => RevertRestores
<1>1. RepairInv /\ [NextRepairs]_repairVars =>
          [\A b \in NewBatches : b.status = "reverted" =>
             \A m \in b.moves : /\ tasks[m.task] = [m.row EXCEPT !.slot = m.to,
                                                                !.version = @ + 1]
                                /\ tasks'[m.task].slot = m.from]_repairVars
  <2> SUFFICES ASSUME RepairInv, [NextRepairs]_repairVars,
                      NEW b \in NewBatches, b.status = "reverted", NEW m \in b.moves
               PROVE  /\ tasks[m.task] = [m.row EXCEPT !.slot = m.to, !.version = @ + 1]
                      /\ tasks'[m.task].slot = m.from
    OBVIOUS
  <2>1. PICK c \in batches : Revert(c) /\ b.moves = c.moves
    BY WhereBatchesComeFrom DEF MadeBy
  <2>2. /\ tasks \in [Task -> TaskRow] /\ c \in Batch /\ BatchFollows(c, tasks)
        /\ MovesAreApart(c.moves)
    BY DEF RepairInv, TypeOKRepairs, ScheduleOK, BatchFollows
  <2>3. m \in TaskMove /\ m \in c.moves
    BY <2>1, <2>2 DEF Batch
  <2>4. m.task \in Task /\ m.from \in Interval /\ tasks[m.task] \in TaskRow
    BY <2>2, <2>3 DEF TaskMove
  <2>5. c.status = "applied" /\ tasks[m.task].version = m.version + 1
    BY <2>1, <2>3 DEF Revert, Revertible
  <2>6. tasks[m.task] = MovedRow(m)
    BY <2>2, <2>3, <2>5 DEF BatchFollows
  <2>7. tasks'[m.task] = [tasks[m.task] EXCEPT !.version = @ + 1, !.slot = m.from]
    BY <2>1, <2>2, <2>3, RevertMoves
  <2>8. LET row == [tasks[m.task] EXCEPT !.version = @ + 1, !.slot = m.from]
        IN row = [state |-> tasks[m.task].state, slot |-> m.from,
                  version |-> tasks[m.task].version + 1]
    BY <2>4, ChangedPlace
  <2>9. tasks'[m.task].slot = m.from
    BY <2>7, <2>8
  <2> QED BY <2>6, <2>9 DEF MovedRow
<1> QED BY <1>1, BatchesAreKept, PTL DEF SpecRepairs, RevertRestores
=============================================================================
