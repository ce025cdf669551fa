----------------------- MODULE SemanticMemory_proofs -----------------------
(***************************************************************************)
(* One active row to a key, and exact decisions, for any number of keys,   *)
(* values, proposals and workers, and whether or not the database lets a   *)
(* proposal be undone.                                                     *)
(*                                                                         *)
(* Rows are appended and keep their key, so a proposal can name what it    *)
(* replaced and what it made by their rows.  An approval finds its target  *)
(* active, hence alone, and puts its own row in the target's place; an     *)
(* undo finds its own row active, hence alone, and puts the target back.   *)
(***************************************************************************)
EXTENDS SemanticMemory, TLAPS

-----------------------------------------------------------------------------
LEMMA Appending ==
    ASSUME NEW S, NEW s \in Seq(S), NEW e \in S
    PROVE  /\ Append(s, e) \in Seq(S)
           /\ DOMAIN Append(s, e) = DOMAIN s \union {Len(s) + 1}
           /\ \A i \in DOMAIN s : Append(s, e)[i] = s[i]
           /\ Append(s, e)[Len(s) + 1] = e
           /\ Len(s) + 1 \notin DOMAIN s /\ Len(Append(s, e)) = Len(s) + 1
           /\ Len(s) \in Nat /\ DOMAIN s = 1..Len(s)
OBVIOUS

LEMMA Replacing ==
    ASSUME NEW S, NEW s \in Seq(S), NEW i \in DOMAIN s, NEW e \in S
    PROVE  /\ [s EXCEPT ![i] = e] \in Seq(S)
           /\ DOMAIN [s EXCEPT ![i] = e] = DOMAIN s
           /\ Len([s EXCEPT ![i] = e]) = Len(s)
           /\ \A j \in DOMAIN s : [s EXCEPT ![i] = e][j] = IF j = i THEN e ELSE s[j]
OBVIOUS

\* The active row of a key is one of its rows, and the only one that is active.
LEMMA ActiveRow ==
    ASSUME MemoryInv, NEW k \in Key
    PROVE  /\ TheActive(k) = None => Active(k) = {} /\ Remembered(k) = {}
           /\ TheActive(k) # None =>
                 /\ TheActive(k) \in DOMAIN memories /\ TheActive(k) \in Nat
                 /\ memories[TheActive(k)].status = "active"
                 /\ memories[TheActive(k)].key = k
                 /\ Active(k) = {TheActive(k)}
                 /\ Remembered(k) = {memories[TheActive(k)].value}
<1>1. CASE Active(k) = {}
  BY <1>1 DEF TheActive, Remembered
<1>2. CASE Active(k) # {}
  <2>1. TheActive(k) \in Active(k)
    BY <1>2 DEF TheActive
  <2>2. Active(k) = {TheActive(k)}
    BY <2>1 DEF MemoryInv, OneActiveRow
  <2>3. TheActive(k) \in DOMAIN memories /\ TheActive(k) \in Nat /\ TheActive(k) # None
    BY <2>1 DEF Active, MemoryInv, TypeOK, None
  <2> QED BY <2>1, <2>2, <2>3 DEF Active, Remembered
<1> QED BY <1>1, <1>2

-----------------------------------------------------------------------------
(* The rows after each kind of step.  All of them keep the keys and values *)
(* of the rows there are.                                                  *)

Kept == /\ memories' \in Seq(Row)
        /\ \A m \in DOMAIN memories :
              /\ m \in DOMAIN memories'
              /\ memories'[m].key = memories[m].key
              /\ memories'[m].value = memories[m].value

LEMMA OneProposal ==
    ASSUME TypeOK, NEW p \in DOMAIN proposals
    PROVE  /\ proposals[p] \in Proposal
           /\ proposals[p].key \in Key /\ proposals[p].value \in Value
           /\ proposals[p].target \in Nat /\ proposals[p].applied \in Nat
<1>1. proposals[p] \in Proposal
  BY DEF TypeOK
<1> QED BY <1>1 DEF Proposal

LEMMA NewVersion ==
    ASSUME NEW r \in Row, NEW status \in {"active", "superseded", "deleted"},
           NEW version \in Nat \ {0}
    PROVE  /\ [r EXCEPT !.status = status, !.version = version] \in Row
           /\ [r EXCEPT !.status = status, !.version = version].key = r.key
           /\ [r EXCEPT !.status = status, !.version = version].value = r.value
           /\ [r EXCEPT !.status = status, !.version = version].status = status
BY DEF Row

\* What is remembered when the proposal has been approved.
Proposed(row) == IF row.op = "delete" THEN {} ELSE {row.value}

\* The proposal names the row that was active and the row that it made.
Recorded(row, new) ==
    /\ row.target = TheActive(row.key)
    /\ new.applied \in DOMAIN memories' /\ new.applied \in Nat
    /\ memories'[new.applied] \in Row /\ memories'[new.applied].key = row.key
    /\ new.changed => (row.op = "delete" <=> new.applied = row.target)

\* A proposal that is applied leaves one active row of its key or none, and no
\* other key has changed.
LEMMA ApplyRows ==
    ASSUME MemoryInv, NEW p \in DOMAIN proposals, proposals[p].status = "pending", Approve(p),
           NEW k \in Key, k = proposals[p].key
    PROVE  /\ Kept /\ OneActiveRow'
           /\ Remembered(k)' = Proposed(proposals[p])
           /\ \A q \in Key \ {k} : Active(q)' = Active(q)
           /\ Recorded(proposals[p], proposals'[p])
<1> DEFINE row == proposals[p]
           m == TheActive(k)
           same == row.op # "delete" /\ Remembered(k) = {row.value}
           result == IF row.op = "delete" \/ same THEN m ELSE Len(memories) + 1
<1> USE DEF MemoryInv
<1>1. row \in Proposal /\ row.key = k /\ row.value \in Value /\ row.target \in Nat
  BY OneProposal
<1>2. row.target = m
  BY DEF Approve, Conflicted
<1>3. /\ proposals'[p].applied = result /\ proposals'[p].changed = ~same
      /\ memories' = IF same THEN memories ELSE Applied(row)
  BY <1>1 DEF Approve, TypeOK, Proposal
<1>4. memories \in Seq(Row) /\ DOMAIN memories = 1..Len(memories) /\ Len(memories) \in Nat
  BY DEF TypeOK
<1>5. CASE same
  <2>1. m # None
    BY <1>1, <1>5, ActiveRow
  <2>2. m \in DOMAIN memories /\ memories[m].key = k
    BY <1>1, <2>1, ActiveRow
  <2>3. memories' = memories /\ result = m
    BY <1>3, <1>5
  <2>4. OneActiveRow'
    BY <2>3 DEF OneActiveRow, Active
  <2>5. Kept
    BY <1>4, <2>3 DEF Kept
  <2>6. memories[m] \in Row /\ m \in Nat
    BY <1>4, <2>2
  <2>7. Remembered(k)' = {row.value} /\ \A q \in Key : Active(q)' = Active(q)
    BY <1>5, <2>3 DEF Remembered, Active
  <2>8. Recorded(row, proposals'[p])
    BY <1>1, <1>2, <1>3, <1>5, <2>2, <2>3, <2>6 DEF Recorded
  <2>9. Proposed(row) = {row.value}
    BY <1>5 DEF Proposed
  <2> HIDE DEF same, result, row
  <2> QED BY <2>4, <2>5, <2>7, <2>8, <2>9 DEF row
<1>6. CASE row.op = "delete"
  <2>1. m # None
    BY <1>2, <1>6 DEF TargetFits
  <2>2. m \in DOMAIN memories /\ memories[m].key = k /\ Active(k) = {m}
    BY <1>1, <2>1, ActiveRow
  <2> DEFINE gone == [memories[m] EXCEPT !.status = "deleted", !.version = @ + 1]
  <2>3. memories[m] \in Row
    BY <1>4, <2>2
  <2>4. gone \in Row /\ gone.status = "deleted" /\ gone.key = k /\ gone.value = memories[m].value
    <3>1. memories[m].version + 1 \in Nat \ {0}
      BY <2>3 DEF Row
    <3>2. gone = [memories[m] EXCEPT !.status = "deleted", !.version = memories[m].version + 1]
      BY <2>3 DEF Row
    <3> DEFINE r == memories[m]
               v == memories[m].version + 1
    <3>3. r \in Row /\ v \in Nat \ {0}
      BY <2>3, <3>1
    <3> HIDE DEF gone, r, v
    <3>4. /\ [r EXCEPT !.status = "deleted", !.version = v] \in Row
          /\ [r EXCEPT !.status = "deleted", !.version = v].key = r.key
          /\ [r EXCEPT !.status = "deleted", !.version = v].value = r.value
          /\ [r EXCEPT !.status = "deleted", !.version = v].status = "deleted"
      BY <3>3, NewVersion, Zenon
    <3>5. gone = [r EXCEPT !.status = "deleted", !.version = v]
      BY <3>2 DEF r, v
    <3> QED BY <2>2, <3>4, <3>5 DEF r
  <2>5. memories' = [memories EXCEPT ![m] = gone] /\ result = m
    BY <1>1, <1>3, <1>6, <2>2 DEF Applied, gone
  <2>6. /\ memories' \in Seq(Row) /\ DOMAIN memories' = DOMAIN memories
        /\ \A j \in DOMAIN memories : memories'[j] = IF j = m THEN gone ELSE memories[j]
    BY <1>4, <2>2, <2>4, <2>5, Replacing
  <2> HIDE DEF gone
  <2>8. \A q \in Key : Active(q)' \subseteq Active(q)
    BY <2>4, <2>6 DEF Active
  <2>9. OneActiveRow'
    BY <2>8 DEF OneActiveRow
  <2>10. Kept
    BY <2>2, <2>4, <2>6 DEF Kept
  <2>11. m \in Nat
    BY <1>4, <2>2
  <2>12. Remembered(k)' = {} /\ \A q \in Key \ {k} : Active(q)' = Active(q)
    <3>1. Active(k)' = {}
      BY <2>2, <2>4, <2>6, <2>8, <1>1 DEF Active
    <3> QED BY <2>2, <2>4, <2>6, <3>1 DEF Active, Remembered
  <2>13. Recorded(row, proposals'[p])
    BY <1>1, <1>2, <1>3, <1>6, <2>2, <2>4, <2>5, <2>6, <2>11 DEF Recorded
  <2>14. Proposed(row) = {}
    BY <1>6 DEF Proposed
  <2> HIDE DEF same, result, row
  <2> QED BY <2>9, <2>10, <2>12, <2>13, <2>14 DEF row
<1>7. CASE row.op # "delete" /\ ~same
  <2> DEFINE fresh == [status |-> "active", key |-> k, value |-> row.value,
                       version |-> IF m = None THEN 1 ELSE memories[m].version + 1]
             old == IF m = None THEN memories ELSE [memories EXCEPT ![m].status = "superseded"]
  <2>1. m # None => m \in DOMAIN memories /\ memories[m] \in Row /\ Active(k) = {m}
    BY <1>1, <1>4, ActiveRow
  <2>2. fresh \in Row
    BY <1>1, <2>1 DEF Row
  <2>3. /\ old \in Seq(Row) /\ DOMAIN old = DOMAIN memories /\ Len(old) = Len(memories)
        /\ \A j \in DOMAIN memories :
              /\ old[j].key = memories[j].key /\ old[j].value = memories[j].value
              /\ j # m => old[j] = memories[j]
              /\ j = m => old[j].status = "superseded"
    <3>1. CASE m = None
      BY <1>4, <3>1 DEF None
    <3>2. CASE m # None
      <4> DEFINE e == [memories[m] EXCEPT !.status = "superseded"]
      <4>1. e \in Row /\ e.key = memories[m].key /\ e.value = memories[m].value
            /\ e.status = "superseded"
        BY <2>1, <3>2 DEF Row
      <4>2. old = [memories EXCEPT ![m] = e]
        BY <3>2
      <4> HIDE DEF e
      <4> QED BY <1>4, <2>1, <3>2, <4>1, <4>2, Replacing
    <3> QED BY <3>1, <3>2
  <2>4. memories' = Append(old, fresh) /\ result = Len(old) + 1
    <3>1. memories' = Append(old, fresh)
      BY <1>1, <1>3, <1>7 DEF Applied
    <3> QED BY <1>3, <1>7, <2>3, <3>1
  <2> HIDE DEF old, fresh
  <2>5. /\ memories' \in Seq(Row)
        /\ DOMAIN memories' = DOMAIN memories \union {result}
        /\ \A i \in DOMAIN memories : memories'[i] = old[i]
        /\ memories'[result] = fresh /\ result \notin DOMAIN memories
    BY <2>2, <2>3, <2>4, Appending
  <2>6. fresh.key = k
    BY DEF fresh
  <2>7. \A q \in Key : q # k => Active(q)' \subseteq Active(q)
    BY <2>1, <2>3, <2>5, <2>6, <1>1, ActiveRow DEF Active
  <2>8. Active(k)' \subseteq {result}
    <3>1. ASSUME NEW j \in DOMAIN memories, memories'[j].status = "active", memories'[j].key = k
          PROVE  FALSE
      <4>1. j # m /\ memories[j].status = "active" /\ memories[j].key = k
        BY <2>3, <2>5, <3>1
      <4>2. j \in Active(k)
        BY <4>1 DEF Active
      <4> QED BY <1>1, <4>1, <4>2, ActiveRow
    <3> QED BY <2>5, <3>1 DEF Active
  <2>9. OneActiveRow'
    <3>1. \A a, b \in Active(k)' : a = b
      BY <2>8
    <3>2. \A q \in Key : q # k => \A a, b \in Active(q)' : a = b
      BY <2>7 DEF OneActiveRow
    <3> QED BY <3>1, <3>2 DEF OneActiveRow
  <2>10. Kept
    BY <2>3, <2>5 DEF Kept
  <2>11. result # m
    BY <2>1, <2>3, <2>4, <2>5, <1>4 DEF None
  <2>12. Remembered(k)' = {row.value}
    <3>1. result \in Active(k)' /\ fresh.value = row.value
      BY <2>5, <2>6 DEF Active, fresh
    <3>2. Active(k)' = {result}
      BY <2>8, <3>1
    <3> QED BY <2>5, <3>1, <3>2 DEF Remembered
  <2>13. ASSUME NEW q \in Key \ {k}
         PROVE  Active(q)' = Active(q)
    <3>1. ASSUME NEW j \in Active(q)
          PROVE  j \in Active(q)'
      <4>1. j \in DOMAIN memories /\ memories[j].status = "active" /\ memories[j].key = q
        BY <3>1 DEF Active
      <4>2. j # m
        BY <1>1, <2>1, <2>13, <4>1, ActiveRow DEF None
      <4> QED BY <2>3, <2>5, <4>1, <4>2 DEF Active
    <3> QED BY <2>7, <3>1
  <2>14. Recorded(row, proposals'[p])
    BY <1>1, <1>2, <1>3, <1>4, <1>7, <2>2, <2>5, <2>6, <2>11 DEF Recorded
  <2>15. Proposed(row) = {row.value}
    BY <1>7 DEF Proposed
  <2> HIDE DEF same, result, row
  <2> QED BY <2>9, <2>10, <2>12, <2>13, <2>14, <2>15 DEF row
<1> QED BY <1>5, <1>6, <1>7

\* An undo puts the target in the place of what was applied.
LEMMA UndoRows ==
    ASSUME MemoryInv, NEW p \in DOMAIN proposals, Undo(p), NEW k \in Key, k = proposals[p].key
    PROVE  /\ Kept /\ DOMAIN memories' = DOMAIN memories
           /\ \A q \in Key : q # k => Active(q)' = Active(q)
           /\ Active(k)' = IF proposals[p].op = "delete" THEN {proposals[p].applied}
                           ELSE IF proposals[p].target = None THEN {}
                           ELSE {proposals[p].target}
<1> DEFINE row == proposals[p]
           m == row.applied
           t == row.target
<1> USE DEF MemoryInv
<1>1. /\ row \in Proposal /\ row.status = "applied" /\ row.changed
      /\ Untouched(row) /\ Restorable(row) /\ memories' = Restored(row)
  BY OneProposal DEF Undo
<1>2. /\ m \in DOMAIN memories /\ memories[m].key = k
      /\ row.op = "delete" <=> m = t
  BY <1>1 DEF AppliedIsOnRecord
<1>3. memories \in Seq(Row) /\ memories[m] \in Row /\ memories[m].version + 1 \in Nat \ {0}
  <2>1. memories \in Seq(Row) /\ memories[m] \in Row
    BY <1>2 DEF TypeOK
  <2> QED BY <2>1 DEF Row
<1>4. CASE row.op = "delete" \/ t = None
  <2> DEFINE st == IF row.op = "delete" THEN "active" ELSE "deleted"
             v == memories[m].version + 1
             r == memories[m]
             e == [r EXCEPT !.status = st, !.version = v]
  <2>1. memories' = [memories EXCEPT ![m].status = st, ![m].version = v]
    BY <1>1, <1>4 DEF Restored
  <2>2. memories' = [memories EXCEPT ![m] = e]
    BY <1>2, <1>3, <2>1 DEF Row
  <2>3. e \in Row /\ e.key = k /\ e.value = memories[m].value /\ e.status = st
    <3>1. r \in Row /\ v \in Nat \ {0}
      BY <1>3
    <3> HIDE DEF r, v
    <3>2. CASE st = "active"
      <4> DEFINE d == [r EXCEPT !.status = "active", !.version = v]
      <4>1. d \in Row /\ d.key = r.key /\ d.value = r.value /\ d.status = "active"
        BY <3>1 DEF Row
      <4>2. e = d
        BY <3>2
      <4> QED BY <1>2, <3>2, <4>1, <4>2 DEF r
    <3>3. CASE st = "deleted"
      <4> DEFINE d == [r EXCEPT !.status = "deleted", !.version = v]
      <4>1. d \in Row /\ d.key = r.key /\ d.value = r.value /\ d.status = "deleted"
        BY <3>1, NewVersion, Zenon
      <4>2. e = d
        BY <3>3
      <4> QED BY <1>2, <3>3, <4>1, <4>2 DEF r
    <3> QED BY <3>2, <3>3
  <2> HIDE DEF e
  <2>4. /\ memories' \in Seq(Row) /\ DOMAIN memories' = DOMAIN memories
        /\ \A j \in DOMAIN memories : memories'[j] = IF j = m THEN e ELSE memories[j]
    BY <1>2, <1>3, <2>2, <2>3, Replacing
  <2>5. Kept /\ \A q \in Key : q # k => Active(q)' = Active(q)
    <3>1. Kept
      BY <1>2, <2>3, <2>4 DEF Kept
    <3> QED BY <1>2, <2>3, <2>4, <3>1 DEF Active
  <2>6. CASE row.op = "delete"
    <3>1. Active(k) = {}
      BY <1>1, <2>6 DEF Restorable
    <3>2. Active(k)' = {m}
      BY <1>2, <2>3, <2>4, <2>6, <3>1 DEF Active
    <3> QED BY <2>4, <2>5, <2>6, <3>2
  <2>7. CASE row.op # "delete"
    <3>1. m \in Active(k)
      BY <1>1, <1>2, <2>7 DEF Untouched, Active
    <3>2. Active(k) = {m}
      BY <3>1 DEF OneActiveRow
    <3>3. Active(k)' = {}
      BY <2>3, <2>4, <2>7, <3>2 DEF Active
    <3> QED BY <1>4, <2>4, <2>5, <2>7, <3>3
  <2> QED BY <2>6, <2>7
<1>5. CASE row.op # "delete" /\ t # None
  <2>1. /\ t \in DOMAIN memories /\ t # m /\ memories[t].key = k
    BY <1>1, <1>2, <1>5 DEF TargetFits
  <2>2. memories[t] \in Row /\ memories[t].version \in Nat \ {0}
    <3>1. memories[t] \in Row
      BY <1>3, <2>1
    <3> QED BY <3>1 DEF Row
  <2> DEFINE r == memories[m]
             s == memories[t]
             v == memories[m].version + 1
             w == (IF memories[t].version > v THEN memories[t].version ELSE v) + 1
             e == [r EXCEPT !.status = "superseded", !.version = v]
             f == [s EXCEPT !.status = "active", !.version = w]
             middle == [memories EXCEPT ![m] = e]
  <2>3. memories' = [memories EXCEPT ![m].status = "superseded", ![m].version = v,
                                     ![t].status = "active", ![t].version = w]
    BY <1>1, <1>2, <1>3, <1>5, <2>1, <2>2 DEF Restored
  <2>4. memories' = [middle EXCEPT ![t] = f]
    BY <1>2, <1>3, <2>1, <2>2, <2>3 DEF Row
  <2>5. /\ e \in Row /\ e.key = k /\ e.value = r.value /\ e.status = "superseded"
        /\ f \in Row /\ f.key = k /\ f.value = s.value /\ f.status = "active"
    <3>1. r \in Row /\ v \in Nat \ {0} /\ s \in Row /\ w \in Nat \ {0}
      BY <1>3, <2>2
    <3> HIDE DEF r, s, v, w
    <3>2. e \in Row /\ e.key = r.key /\ e.value = r.value /\ e.status = "superseded"
      BY <3>1, NewVersion, Zenon
    <3>3. f \in Row /\ f.key = s.key /\ f.value = s.value /\ f.status = "active"
      BY <3>1 DEF Row
    <3> QED BY <1>2, <2>1, <3>2, <3>3 DEF r, s
  <2> HIDE DEF e, f
  <2>6. /\ middle \in Seq(Row) /\ DOMAIN middle = DOMAIN memories
        /\ \A j \in DOMAIN memories : middle[j] = IF j = m THEN e ELSE memories[j]
    BY <1>2, <1>3, <2>5, Replacing
  <2> HIDE DEF middle
  <2>7. /\ memories' \in Seq(Row) /\ DOMAIN memories' = DOMAIN memories
        /\ \A j \in DOMAIN memories :
              memories'[j] = IF j = t THEN f ELSE IF j = m THEN e ELSE memories[j]
    BY <2>1, <2>4, <2>5, <2>6, Replacing
  <2>8. \A q \in Key : q # k => Active(q)' = Active(q)
    BY <1>2, <2>1, <2>5, <2>7 DEF Active
  <2>9. Active(k) = {m}
    <3>1. m \in Active(k)
      BY <1>1, <1>2, <1>5 DEF Untouched, Active
    <3> QED BY <3>1 DEF OneActiveRow
  <2>10. Active(k)' = {t}
    BY <2>1, <2>5, <2>7, <2>9 DEF Active
  <2>11. Kept
    BY <1>2, <2>1, <2>5, <2>7 DEF Kept
  <2> QED BY <1>5, <2>7, <2>8, <2>10, <2>11
<1> QED BY <1>4, <1>5

-----------------------------------------------------------------------------
(* The invariant *)

\* What was true of a proposal stays true: rows keep their key and value.
LEMMA StillOnRecord ==
    ASSUME Kept, NEW p, TargetFits(p), AppliedIsOnRecord(p)
    PROVE  TargetFits(p)' /\ AppliedIsOnRecord(p)'
<1>1. TargetFits(p)'
  BY DEF Kept, TargetFits
<1>2. ASSUME p.status = "applied"
      PROVE  /\ p.applied \in DOMAIN memories' /\ memories'[p.applied].key = p.key
             /\ p.changed =>
                   (p.op = "delete" <=> p.applied = p.target)
  <2>1. p.applied \in DOMAIN memories /\ memories[p.applied].key = p.key
    BY <1>2 DEF AppliedIsOnRecord
  <2> QED BY <1>2, <2>1 DEF Kept, AppliedIsOnRecord
<1> QED BY <1>1, <1>2 DEF AppliedIsOnRecord

\* A step that replaces one proposal has to give it what it stands for.
LEMMA OneProposalChanges ==
    ASSUME MemoryInv, Kept, OneActiveRow', NEW p \in DOMAIN proposals, NEW e \in Proposal,
           proposals' = [proposals EXCEPT ![p] = e], TargetFits(e)', AppliedIsOnRecord(e)',
           messages' \in 0..MaxMessages, mishaps' \in 0..MaxMishaps, job' = job
    PROVE  MemoryInv'
<1>1. /\ proposals' \in Seq(Proposal) /\ DOMAIN proposals' = DOMAIN proposals
      /\ Len(proposals') = Len(proposals)
      /\ \A j \in DOMAIN proposals : proposals'[j] = IF j = p THEN e ELSE proposals[j]
  BY Replacing DEF MemoryInv, TypeOK
<1>2. TypeOK'
  BY <1>1 DEF MemoryInv, TypeOK, Kept
<1>3. ASSUME NEW j \in DOMAIN proposals
      PROVE  TargetFits(proposals[j])' /\ AppliedIsOnRecord(proposals[j])'
  <2>1. PICK q : q = proposals'[j]
    OBVIOUS
  <2>2. TargetFits(q)' /\ AppliedIsOnRecord(q)'
    <3>1. CASE j = p
      BY <1>1, <2>1, <3>1
    <3>2. CASE j # p
      <4>1. q = proposals[j]
        BY <1>1, <2>1, <3>2
      <4>2. TargetFits(q) /\ AppliedIsOnRecord(q)
        BY <4>1 DEF MemoryInv
      <4> QED BY <4>2, StillOnRecord
    <3> QED BY <3>1, <3>2
  <2> QED BY <2>1, <2>2 DEF TargetFits, AppliedIsOnRecord
<1> QED BY <1>1, <1>2, <1>3 DEF MemoryInv

LEMMA Enqueueing ==
    ASSUME MemoryInv, EnqueueProjection
    PROVE  messages' \in 0..MaxMessages /\ mishaps' \in 0..MaxMishaps
BY MemoryAssumption DEF MemoryInv, TypeOK, EnqueueProjection, Send, Mishap

LEMMA CreateKeeps ==
    ASSUME MemoryInv, NEW op \in {"create", "update", "delete"}, NEW k \in Key, NEW v \in Value,
           Create(op, k, v)
    PROVE  MemoryInv'
<1> DEFINE t == TheActive(k)
<1>1. PICK status \in {"pending", "rejected"} :
         /\ op # "create" /\ t = None => status = "rejected"
         /\ proposals' = Append(proposals,
               [status |-> status, op |-> op, key |-> k, value |-> v, target |-> t,
                targetVersion |-> IF t = None THEN 0 ELSE memories[t].version,
                applied |-> None, appliedVersion |-> 0, changed |-> FALSE])
  BY DEF Create
<1> DEFINE e == [status |-> status, op |-> op, key |-> k, value |-> v, target |-> t,
                 targetVersion |-> IF t = None THEN 0 ELSE memories[t].version,
                 applied |-> None, appliedVersion |-> 0, changed |-> FALSE]
<1>2. t # None => t \in DOMAIN memories /\ t \in Nat /\ memories[t].key = k /\ memories[t] \in Row
  BY ActiveRow DEF MemoryInv, TypeOK
<1>3. t \in Nat /\ (IF t = None THEN 0 ELSE memories[t].version) \in Nat
  BY <1>2 DEF None, Row
<1>4. e \in Proposal
  BY <1>3 DEF Proposal, None
<1>5. memories' = memories /\ messages' = messages /\ job' = job /\ mishaps' = mishaps
  BY DEF Create
<1>6. PICK q : q = e
  OBVIOUS
<1>7. TargetFits(q) /\ AppliedIsOnRecord(q)
  BY <1>1, <1>2, <1>6 DEF TargetFits, AppliedIsOnRecord
<1>8. q \in Proposal /\ proposals' = Append(proposals, q)
  BY <1>1, <1>4, <1>6
<1> HIDE DEF e
<1>9. /\ proposals' \in Seq(Proposal) /\ Len(proposals') <= MaxProposals
      /\ DOMAIN proposals' = DOMAIN proposals \union {Len(proposals) + 1}
      /\ \A j \in DOMAIN proposals : proposals'[j] = proposals[j]
      /\ proposals'[Len(proposals) + 1] = q
  <2>1. proposals \in Seq(Proposal) /\ Len(proposals) < MaxProposals /\ Len(proposals) \in Nat
    BY DEF MemoryInv, TypeOK, Create
  <2> QED BY <1>8, <2>1, Appending, MemoryAssumption
<1>10. TypeOK'
  BY <1>5, <1>9 DEF MemoryInv, TypeOK
<1>11. OneActiveRow'
  BY <1>5 DEF MemoryInv, OneActiveRow, Active
<1>12. ASSUME NEW j \in DOMAIN proposals'
       PROVE  TargetFits(proposals[j])' /\ AppliedIsOnRecord(proposals[j])'
  <2>1. PICK r : r = proposals'[j]
    OBVIOUS
  <2>2. TargetFits(r) /\ AppliedIsOnRecord(r)
    BY <1>7, <1>9, <2>1 DEF MemoryInv
  <2> QED BY <1>5, <2>1, <2>2 DEF TargetFits, AppliedIsOnRecord
<1> QED BY <1>10, <1>11, <1>12 DEF MemoryInv

LEMMA RefuseKeeps ==
    ASSUME MemoryInv, NEW p \in DOMAIN proposals, proposals[p].status = "pending",
           NEW status \in {"rejected", "conflicted"}, Refuse(p, status)
    PROVE  MemoryInv'
<1> DEFINE e == [proposals[p] EXCEPT !.status = status]
<1>1. proposals[p] \in Proposal /\ TargetFits(proposals[p])
  BY OneProposal DEF MemoryInv
<1>2. /\ memories' = memories /\ messages' = messages /\ job' = job /\ mishaps' = mishaps
      /\ proposals' = [proposals EXCEPT ![p] = e]
  BY <1>1 DEF Refuse, Proposal
<1>3. e \in Proposal
  BY <1>1 DEF Proposal
<1>4. PICK q : q = e
  OBVIOUS
<1>5. /\ q.status = status /\ q.op = proposals[p].op /\ q.key = proposals[p].key
      /\ q.target = proposals[p].target
  BY <1>1, <1>4 DEF Proposal
<1>6. TargetFits(q) /\ AppliedIsOnRecord(q)
  BY <1>1, <1>5 DEF TargetFits, AppliedIsOnRecord
<1>7. Kept /\ OneActiveRow'
  BY <1>2 DEF MemoryInv, TypeOK, Kept, OneActiveRow, Active
<1>8. TargetFits(q)' /\ AppliedIsOnRecord(q)'
  BY <1>6, <1>7, StillOnRecord
<1>9. messages' \in 0..MaxMessages /\ mishaps' \in 0..MaxMishaps
  BY <1>2 DEF MemoryInv, TypeOK
<1> HIDE DEF e
<1>10. q \in Proposal /\ proposals' = [proposals EXCEPT ![p] = q]
  BY <1>2, <1>3, <1>4
<1> QED BY <1>2, <1>7, <1>8, <1>9, <1>10, OneProposalChanges

LEMMA ApproveKeeps ==
    ASSUME MemoryInv, NEW p \in DOMAIN proposals, proposals[p].status = "pending", Approve(p)
    PROVE  MemoryInv'
<1>0. PICK k \in Key : k = proposals[p].key
  BY OneProposal DEF MemoryInv
<1> DEFINE row == proposals[p]
           m == TheActive(k)
           result == proposals'[p].applied
<1>1. /\ row \in Proposal /\ TargetFits(row)
  BY OneProposal DEF MemoryInv
<1>2. /\ Kept /\ OneActiveRow'
      /\ result \in DOMAIN memories' /\ result \in Nat
      /\ memories'[result] \in Row /\ memories'[result].key = k
      /\ row.target = m
      /\ proposals'[p].changed => (row.op = "delete" <=> result = m)
  BY <1>0, ApplyRows DEF Recorded
<1>3. PICK q : q = proposals'[p]
  OBVIOUS
<1>4. /\ q = [row EXCEPT !.status = "applied", !.applied = q.applied,
                         !.appliedVersion = memories'[q.applied].version,
                         !.changed = q.changed]
      /\ q.changed \in BOOLEAN
      /\ proposals' = [proposals EXCEPT ![p] = q]
  BY <1>0, <1>1, <1>3 DEF Approve, MemoryInv, TypeOK, Proposal
<1>5. memories'[q.applied].version \in Nat /\ q.applied \in Nat
  BY <1>2, <1>3 DEF Row
<1>6. /\ q \in Proposal
      /\ q.status = "applied" /\ q.op = row.op /\ q.key = k /\ q.target = m
  <2> DEFINE a == q.applied
             b == memories'[q.applied].version
             c == q.changed
  <2>1. a \in Nat /\ b \in Nat /\ c \in BOOLEAN
    BY <1>4, <1>5
  <2>2. q = [row EXCEPT !.status = "applied", !.applied = a, !.appliedVersion = b,
                        !.changed = c]
    BY <1>4
  <2> HIDE DEF a, b, c
  <2>3. q \in Proposal /\ q.status = "applied" /\ q.op = row.op /\ q.key = row.key
        /\ q.target = row.target
    BY <1>1, <2>1, <2>2 DEF Proposal
  <2> QED BY <1>0, <1>2, <2>3
<1>7. TargetFits(q)'
  <2>1. TargetFits(q)
    BY <1>0, <1>1, <1>2, <1>6 DEF TargetFits
  <2> QED BY <1>2, <2>1 DEF Kept, TargetFits
<1>8. AppliedIsOnRecord(q)'
  <2>1. /\ q.applied \in DOMAIN memories' /\ memories'[q.applied].key = q.key
        /\ q.changed => (q.op = "delete" <=> q.applied = q.target)
    BY <1>2, <1>3, <1>6
  <2> QED BY <2>1 DEF AppliedIsOnRecord
<1>9. messages' \in 0..MaxMessages /\ mishaps' \in 0..MaxMishaps /\ job' = job
  BY Enqueueing DEF Approve
<1> QED BY <1>2, <1>4, <1>6, <1>7, <1>8, <1>9, OneProposalChanges

LEMMA UndoKeeps ==
    ASSUME MemoryInv, NEW p \in DOMAIN proposals, Undo(p)
    PROVE  MemoryInv'
<1>0. PICK k \in Key : k = proposals[p].key
  BY OneProposal DEF MemoryInv
<1> DEFINE row == proposals[p]
           e == [row EXCEPT !.status = "undone"]
<1>1. row \in Proposal /\ TargetFits(row) /\ row.status = "applied"
  BY OneProposal DEF MemoryInv, Undo
<1>2. /\ Kept
      /\ \A q \in Key : q # k => Active(q)' = Active(q)
      /\ Active(k)' = IF row.op = "delete" THEN {row.applied}
                      ELSE IF row.target = None THEN {} ELSE {row.target}
  BY <1>0, UndoRows
<1>3. OneActiveRow'
  <2>1. \A a, b \in Active(k)' : a = b
    BY <1>2
  <2>2. \A q \in Key : q # k => \A a, b \in Active(q)' : a = b
    BY <1>2 DEF MemoryInv, OneActiveRow
  <2> QED BY <2>1, <2>2 DEF OneActiveRow
<1>4. PICK q : q = e
  OBVIOUS
<1>5. /\ q \in Proposal /\ q.status = "undone" /\ q.op = row.op /\ q.key = row.key
      /\ q.target = row.target
  BY <1>1, <1>4 DEF Proposal
<1>6. proposals' = [proposals EXCEPT ![p] = q]
  BY <1>1, <1>4 DEF Undo, Proposal
<1>7. TargetFits(q) /\ AppliedIsOnRecord(q)
  BY <1>1, <1>5 DEF TargetFits, AppliedIsOnRecord
<1>8. TargetFits(q)' /\ AppliedIsOnRecord(q)'
  BY <1>2, <1>7, StillOnRecord
<1>9. messages' \in 0..MaxMessages /\ mishaps' \in 0..MaxMishaps /\ job' = job
  BY Enqueueing DEF Undo
<1> QED BY <1>2, <1>3, <1>5, <1>6, <1>8, <1>9, OneProposalChanges

LEMMA Invariance ==
    MemoryInv /\ [Next]_vars => MemoryInv'
<1> SUFFICES ASSUME MemoryInv, [Next]_vars PROVE MemoryInv'
  OBVIOUS
<1>1. ASSUME NEW op \in {"create", "update", "delete"}, NEW k \in Key, NEW v \in Value,
             Create(op, k, v)
      PROVE  MemoryInv'
  BY <1>1, CreateKeeps
<1>2. ASSUME NEW p \in DOMAIN proposals, Decide(p)
      PROVE  MemoryInv'
  BY <1>2, RefuseKeeps, ApproveKeeps DEF Decide
<1>3. ASSUME NEW p \in DOMAIN proposals, Undo(p)
      PROVE  MemoryInv'
  BY <1>3, UndoKeeps
<1>4. ASSUME memories' = memories, proposals' = proposals, TypeOK'
      PROVE  MemoryInv'
  BY <1>4 DEF MemoryInv, OneActiveRow, Active, TargetFits, AppliedIsOnRecord
<1>5. ASSUME NEW w \in Worker, Read(w)
      PROVE  MemoryInv'
  <2>1. memories' = memories /\ proposals' = proposals
    BY <1>5 DEF Read
  <2>2. TypeOK'
    BY <1>5, MemoryAssumption DEF MemoryInv, TypeOK, Read
  <2> QED BY <1>4, <2>1, <2>2
<1>6. ASSUME NEW w \in Worker, StoreProjection(w)
      PROVE  MemoryInv'
  <2>1. memories' = memories /\ proposals' = proposals
    BY <1>6 DEF StoreProjection
  <2>2. TypeOK'
    BY <1>6 DEF MemoryInv, TypeOK, StoreProjection, Idle
  <2> QED BY <1>4, <2>1, <2>2
<1>7. ASSUME NEW w \in Worker, Crash(w)
      PROVE  MemoryInv'
  <2>1. memories' = memories /\ proposals' = proposals
    BY <1>7 DEF Crash
  <2>2. TypeOK'
    BY <1>7, MemoryAssumption DEF MemoryInv, TypeOK, Crash, Idle, Send, Mishap
  <2> QED BY <1>4, <2>1, <2>2
<1>8. ASSUME NEW w \in Worker, Fail(w)
      PROVE  MemoryInv'
  <2>1. memories' = memories /\ proposals' = proposals
    BY <1>8 DEF Fail
  <2>2. TypeOK'
    BY <1>8, MemoryAssumption DEF MemoryInv, TypeOK, Fail, Idle, Mishap
  <2> QED BY <1>4, <2>1, <2>2
<1>9. CASE UNCHANGED vars
  BY <1>4, <1>9 DEF MemoryInv, TypeOK, vars
<1> QED BY <1>1, <1>2, <1>3, <1>5, <1>6, <1>7, <1>8, <1>9 DEF Next

\* One row to a key is active in whatever order proposals are decided and
\* undone, so the assistant never remembers two things of a kind, and every
\* applied proposal still names the rows it replaced and made.
THEOREM OneMemoryToAKey == Spec => []MemoryInv
<1>1. Init => MemoryInv
  BY MemoryAssumption
     DEF Init, MemoryInv, TypeOK, OneActiveRow, Active, Idle
<1> QED BY <1>1, Invariance, PTL DEF Spec

-----------------------------------------------------------------------------
(* What a decision changes *)

\* A proposal becomes applied by its approval alone.
LEMMA WhoAppliesIt ==
    ASSUME MemoryInv, [Next]_vars, NEW p \in DOMAIN proposals, proposals'[p] # proposals[p],
           proposals'[p].status = "applied"
    PROVE  Approve(p) /\ proposals[p].status = "pending"
<1>1. ASSUME NEW op \in {"create", "update", "delete"}, NEW k \in Key, NEW v \in Value,
             Create(op, k, v)
      PROVE  FALSE
  <2>1. PICK e : proposals' = Append(proposals, e)
    BY <1>1 DEF Create
  <2>2. proposals'[p] = proposals[p]
    BY <2>1 DEF MemoryInv, TypeOK
  <2> QED BY <2>2
<1>2. ASSUME NEW q \in DOMAIN proposals, q # p, Decide(q) \/ Undo(q)
      PROVE  FALSE
  <2>1. PICK e : proposals' = [proposals EXCEPT ![q] = e]
    BY <1>2 DEF Decide, Refuse, Approve, Undo
  <2> QED BY <1>2, <2>1 DEF MemoryInv, TypeOK
<1>3. proposals[p] \in Proposal
  BY OneProposal DEF MemoryInv
<1>4. ASSUME NEW status, Refuse(p, status)
      PROVE  proposals'[p].status = status
  BY <1>3, <1>4 DEF Refuse, Proposal
<1>5. ASSUME Undo(p)
      PROVE  FALSE
  BY <1>3, <1>5 DEF Undo, Proposal
<1>6. proposals' # proposals
  OBVIOUS
<1>7. Decide(p)
  BY <1>1, <1>2, <1>5, <1>6 DEF Next, vars, Read, StoreProjection, Fail, Crash
<1> QED BY <1>4, <1>7 DEF Decide

LEMMA ApprovalIsExact ==
    ASSUME MemoryInv, NEW p \in DOMAIN proposals, proposals[p].status = "pending", Approve(p)
    PROVE  ApprovedAsShown(proposals[p])
<1>0. PICK k \in Key : k = proposals[p].key
  BY OneProposal DEF MemoryInv
<1> DEFINE row == proposals[p]
<1>1. /\ Kept
      /\ Remembered(k)' = IF row.op = "delete" THEN {} ELSE {row.value}
      /\ \A q \in Key \ {k} : Active(q)' = Active(q)
      /\ row.target = TheActive(k)
  BY <1>0, ApplyRows DEF Recorded, Proposed
<1>2. row.target # None => memories[row.target].version = row.targetVersion
  BY <1>0, <1>1 DEF Approve, Conflicted
<1>3. Active(k) = IF row.target = None THEN {} ELSE {row.target}
  BY <1>1, ActiveRow
<1>4. ASSUME NEW q \in Key \ {k}
      PROVE  Remembered(q)' = Remembered(q)
  <2>1. \A j \in Active(q) : memories'[j].value = memories[j].value
    BY <1>1 DEF Active, Kept
  <2>2. Active(q)' = Active(q)
    BY <1>1
  <2> QED BY <2>1, <2>2 DEF Remembered
<1>5. /\ Active(row.key) = IF row.target = None THEN {} ELSE {row.target}
      /\ Remembered(row.key)' = IF row.op = "delete" THEN {} ELSE {row.value}
      /\ \A q \in Key \ {row.key} : Remembered(q)' = Remembered(q)
  <2>1. proposals'[p].key = k
    <3>1. proposals[p] \in Proposal
      BY OneProposal DEF MemoryInv
    <3>2. PICK a, b, c :
             proposals' = [proposals EXCEPT ![p] =
                 [proposals[p] EXCEPT !.status = "applied", !.applied = a,
                                      !.appliedVersion = b, !.changed = c]]
      BY DEF Approve
    <3> QED BY <1>0, <3>1, <3>2 DEF MemoryInv, TypeOK, Proposal
  <2>2. Remembered(row.key)' = Remembered(k)'
    BY <2>1 DEF Remembered, Active
  <2> QED BY <1>0, <1>1, <1>3, <1>4, <2>2
<1> QED BY <1>2, <1>5 DEF ApprovedAsShown

\* An approval replaces the row, at the version, that the user was shown, by what
\* was proposed, and touches no other key: whatever else is decided and undone in
\* between.
THEOREM DecisionsStayExact == Spec => DecisionsAreExact
<1>1. ASSUME MemoryInv, [Next]_vars
      PROVE  \A p \in DOMAIN proposals :
                proposals'[p] # proposals[p] /\ proposals'[p].status = "applied"
                => ApprovedAsShown(proposals[p])
  BY <1>1, WhoAppliesIt, ApprovalIsExact
<1>2. MemoryInv /\ [Next]_vars =>
         [\A p \in DOMAIN proposals :
             proposals'[p] # proposals[p] /\ proposals'[p].status = "applied"
             => ApprovedAsShown(proposals[p])]_vars
  BY <1>1
<1> QED BY <1>2, OneMemoryToAKey, PTL DEF Spec, DecisionsAreExact
=============================================================================
