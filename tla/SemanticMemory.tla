--------------------------- MODULE SemanticMemory ---------------------------
(***************************************************************************)
(* What the assistant remembers of a user in words (SemanticMemoryService):*)
(* proposals that the user or a policy decides, the rows they create,      *)
(* supersede and delete, undoing them in any order where the database      *)
(* allows it, and the projection of the active rows into the LangGraph     *)
(* store.                                                                  *)
(*                                                                         *)
(* Each of create_proposal, decide_proposal and undo_proposal is one       *)
(* transaction that locks the rows it decides on.  Two creations that lock *)
(* nothing, because there is no row yet, meet at the unique constraint on  *)
(* active rows, which rolls one of them back.                              *)
(***************************************************************************)
EXTENDS Naturals, Sequences, FiniteSets

CONSTANTS
    Key,                \* a category and a key in it
    Value,
    Worker,
    OuterJoinsLock,     \* the database locks rows it reads through an outer join
    MaxProposals,       \* bound
    MaxMessages,        \* bound: further copies of the message change nothing
    MaxMishaps          \* bound: messages lost, workers killed, rebuilds failed

ASSUME MemoryAssumption ==
    /\ OuterJoinsLock \in BOOLEAN
    /\ MaxProposals \in Nat /\ MaxMessages \in Nat \ {0} /\ MaxMishaps \in Nat

VARIABLES
    memories,           \* SemanticMemory rows, in the order of creation
    proposals,          \* MemoryProposal rows, in the order of creation
    messages,           \* rebuild_semantic_memory_projection on their way
    job,                \* what a worker has read, and is about to write
    store,              \* the projection
    mishaps,
    behind              \* history: nobody is left to bring the projection up to date

vars == <<memories, proposals, messages, job, store, mishaps, behind>>

Row == [status : {"active", "superseded", "deleted"}, key : Key, value : Value,
        version : Nat \ {0}]

Proposal == [status : {"pending", "rejected", "conflicted", "applied", "undone"},
             op : {"create", "update", "delete"}, key : Key, value : Value,
             target : Nat, targetVersion : Nat, applied : Nat, appliedVersion : Nat,
             changed : BOOLEAN]

None == 0               \* no row

Active(k) == {m \in DOMAIN memories : memories[m].status = "active" /\ memories[m].key = k}
TheActive(k) == IF Active(k) = {} THEN None ELSE CHOOSE m \in Active(k) : TRUE

\* The value that is remembered, as a set of at most one.
Remembered(k) == {memories[m].value : m \in Active(k)}

\* SemanticMemoryService.list_active
Listed == {<<memories[m].key, memories[m].value, memories[m].version>> :
             m \in UNION {Active(k) : k \in Key}}

Idle == [at |-> "rest", read |-> {}]

TypeOK ==
    /\ memories \in Seq(Row)
    /\ proposals \in Seq(Proposal) /\ Len(proposals) <= MaxProposals
    /\ messages \in 0..MaxMessages
    /\ DOMAIN job = Worker /\ \A w \in Worker : job[w].at \in {"rest", "write", "late"}
    /\ mishaps \in 0..MaxMishaps

Init ==
    /\ memories = <<>>
    /\ proposals = <<>>
    /\ messages = 0
    /\ job = [w \in Worker |-> Idle]
    /\ store = {}
    /\ mishaps = 0
    /\ behind = FALSE

Send == messages' = IF messages < MaxMessages THEN messages + 1 ELSE messages
Mishap == mishaps < MaxMishaps /\ mishaps' = mishaps + 1

-----------------------------------------------------------------------------
(* Proposals *)

\* on_commit: a refused message is logged.
EnqueueProjection ==
    \/ Send /\ UNCHANGED <<mishaps, behind>>
    \/ Mishap /\ messages' = messages /\ behind' = TRUE

\* create_proposal, once for each idempotency key.  The policy applies it at
\* once, which is Decide right after, leaves it to the user or rejects it.
Create(op, k, v) ==
    LET target == TheActive(k) IN
    /\ Len(proposals) < MaxProposals
    /\ \E status \in {"pending", "rejected"} :
          /\ op # "create" /\ target = None => status = "rejected"
          /\ proposals' = Append(proposals,
                [status |-> status, op |-> op, key |-> k, value |-> v,
                 target |-> target,
                 targetVersion |-> IF target = None THEN 0 ELSE memories[target].version,
                 applied |-> None, appliedVersion |-> 0, changed |-> FALSE])
    /\ UNCHANGED <<memories, messages, job, store, mishaps, behind>>

\* There is an active row now and was none then, or the other way round.
ConflictedByPresence(p) == (TheActive(p.key) = None) # (p.target = None)

\* The active row is not the one that was proposed against.
Conflicted(p) ==
    LET current == TheActive(p.key) IN
    \/ current # p.target
    \/ current # None /\ memories[current].version # p.targetVersion

Refuse(p, status) ==
    /\ proposals' = [proposals EXCEPT ![p].status = status]
    /\ UNCHANGED <<memories, messages, job, store, mishaps, behind>>

\* _apply_approved_proposal: what becomes of the row that is active.
Applied(p) ==
    LET m == TheActive(p.key) IN
    IF p.op = "delete"
    THEN [memories EXCEPT ![m].status = "deleted", ![m].version = @ + 1]
    ELSE Append(IF m = None THEN memories ELSE [memories EXCEPT ![m].status = "superseded"],
                [status |-> "active", key |-> p.key, value |-> p.value,
                 version |-> IF m = None THEN 1 ELSE memories[m].version + 1])

Approve(p) ==
    LET row == proposals[p]
        m == TheActive(row.key)
        same == row.op # "delete" /\ Remembered(row.key) = {row.value}
        result == IF row.op = "delete" \/ same THEN m ELSE Len(memories) + 1
    IN /\ ~Conflicted(row)
       /\ memories' = IF same THEN memories ELSE Applied(row)
       /\ proposals' = [proposals EXCEPT ![p] =
             [row EXCEPT !.status = "applied", !.applied = result,
                         !.appliedVersion = memories'[result].version, !.changed = ~same]]
       /\ EnqueueProjection
       /\ UNCHANGED <<job, store>>

\* decide_proposal: what is decided already is returned as it is.
Decide(p) ==
    /\ proposals[p].status = "pending"
    /\ \/ Refuse(p, "rejected")
       \/ Conflicted(proposals[p]) /\ Refuse(p, "conflicted")
       \/ Approve(p)

-----------------------------------------------------------------------------
(* Undoing *)

\* "Memory changed after this proposal was applied", and the row is still what
\* the proposal made of it.
Untouched(p) ==
    /\ memories[p.applied].version = p.appliedVersion
    /\ memories[p.applied].status = IF p.op = "delete" THEN "deleted" ELSE "active"

\* Taking a delete back over a newer row.
RestorableAnyway(p) == TRUE

\* "A newer active memory already exists", "Previous memory changed after this
\* proposal was applied".
Restorable(p) ==
    IF p.op = "delete" THEN Active(p.key) = {}
    ELSE p.target # None => /\ memories[p.target].status = "superseded"
                            /\ memories[p.target].version = p.targetVersion

Restored(p) ==
    LET m == p.applied
        t == p.target
        newer == memories[m].version + 1
    IN IF p.op = "delete"
       THEN [memories EXCEPT ![m].status = "active", ![m].version = newer]
       ELSE IF t = None
       THEN [memories EXCEPT ![m].status = "deleted", ![m].version = newer]
       ELSE [memories EXCEPT
               ![m].status = "superseded", ![m].version = newer,
               ![t].status = "active",
               ![t].version = (IF @ > newer THEN @ ELSE newer) + 1]

\* undo_proposal asks for a lock on the proposal together with its two rows, which
\* may be missing.  SQLite knows no such locks; PostgreSQL refuses the query, and
\* nothing is undone.
Undo(p) ==
    LET row == proposals[p] IN
    /\ OuterJoinsLock
    /\ row.status = "applied" /\ row.changed
    /\ Untouched(row) /\ Restorable(row)
    /\ memories' = Restored(row)
    /\ proposals' = [proposals EXCEPT ![p].status = "undone"]
    /\ EnqueueProjection
    /\ UNCHANGED <<job, store>>

-----------------------------------------------------------------------------
(* SemanticMemoryProjection.rebuild *)

\* The message is acknowledged when the task is done.  Rebuilds of two messages
\* may overlap, and the one that has read earlier is late.
Read(w) ==
    /\ job[w].at = "rest" /\ messages > 0
    /\ job' = [o \in Worker |->
                 IF o = w THEN [at |-> "write", read |-> Listed]
                 ELSE IF job[o].at = "write" THEN [job[o] EXCEPT !.at = "late"]
                 ELSE job[o]]
    /\ messages' = messages - 1
    /\ UNCHANGED <<memories, proposals, store, mishaps, behind>>

\* What is written last stays: a late rebuild may take the projection back.
StoreProjection(w) ==
    /\ job[w].at \in {"write", "late"}
    /\ store' = job[w].read
    /\ behind' = IF job[w].read = Listed /\ \A o \in Worker \ {w} : job[o] = Idle
                 THEN FALSE
                 ELSE behind \/ (job[w].read # Listed /\ job[w].at = "late")
    /\ job' = [job EXCEPT ![w] = Idle]
    /\ UNCHANGED <<memories, proposals, messages, mishaps>>

\* The rebuild raises or runs out of time: that acknowledges its message, and
\* nothing sends another.
Fail(w) ==
    /\ job[w].at \in {"write", "late"}
    /\ Mishap
    /\ job' = [job EXCEPT ![w] = Idle]
    /\ behind' = TRUE
    /\ UNCHANGED <<memories, proposals, messages, store>>

\* A message that is acknowledged when the task begins.
CrashAcknowledged(w) ==
    /\ job[w].at \in {"write", "late"}
    /\ Mishap
    /\ job' = [job EXCEPT ![w] = Idle]
    /\ UNCHANGED <<memories, proposals, messages, store, behind>>

\* acks_late: a message that was not acknowledged is delivered again.
Crash(w) ==
    /\ job[w].at \in {"write", "late"}
    /\ Mishap
    /\ job' = [job EXCEPT ![w] = Idle]
    /\ Send
    /\ UNCHANGED <<memories, proposals, store, behind>>

-----------------------------------------------------------------------------
Next ==
    \/ \E op \in {"create", "update", "delete"}, k \in Key, v \in Value : Create(op, k, v)
    \/ \E p \in DOMAIN proposals : Decide(p) \/ Undo(p)
    \/ \E w \in Worker : Read(w) \/ StoreProjection(w) \/ Fail(w) \/ Crash(w)

Spec == Init /\ [][Next]_vars

FairSpec ==
    Spec /\ \A w \in Worker : WF_vars(Read(w)) /\ WF_vars(StoreProjection(w))

-----------------------------------------------------------------------------
(* Properties *)

\* The assistant never remembers two things of the same kind, in whatever order
\* proposals are decided and undone: the unique constraint never has to refuse
\* an undo.
OneActiveRow == \A k \in Key : \A m, n \in Active(k) : m = n

\* The row a proposal was made for is one of its key, and only creations have none.
TargetFits(p) ==
    /\ p.target # None =>
          p.target \in DOMAIN memories /\ memories[p.target].key = p.key
    /\ p.op # "create" /\ p.status # "rejected" => p.target # None

\* What was applied is on record, and only a deletion is of the target itself.
AppliedIsOnRecord(p) ==
    p.status = "applied" =>
        /\ p.applied \in DOMAIN memories /\ memories[p.applied].key = p.key
        /\ p.changed => (p.op = "delete" <=> p.applied = p.target)

\* One row to a key is active, and every proposal can tell what it changed.
MemoryInv ==
    /\ TypeOK
    /\ OneActiveRow
    /\ \A p \in DOMAIN proposals :
          TargetFits(proposals[p]) /\ AppliedIsOnRecord(proposals[p])

\* What a user approves is what they were shown: the row that is active is the
\* one the proposal was made for, unchanged since, and what is remembered then is
\* what was proposed, whatever else was decided or undone in between.
ApprovedAsShown(p) ==
    /\ Active(p.key) = IF p.target = None THEN {} ELSE {p.target}
    /\ p.target # None => memories[p.target].version = p.targetVersion
    /\ Remembered(p.key)' = IF p.op = "delete" THEN {} ELSE {p.value}
    /\ \A k \in Key \ {p.key} : Remembered(k)' = Remembered(k)

DecisionsAreExact ==
    [][\A p \in DOMAIN proposals :
          proposals'[p] # proposals[p] /\ proposals'[p].status = "applied"
          => ApprovedAsShown(proposals[p])]_vars

\* The projection comes to be what is remembered, with workers killed too.  After
\* a lost message, a failed rebuild or a late one it may stay as it is, but the
\* next rebuild that overlaps no other brings it up to date again.
ProjectionFollows == <>[](behind \/ store = Listed)
=============================================================================
