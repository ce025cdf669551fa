--------------------------- MODULE MCApprovalFlow ---------------------------
EXTENDS ApprovalFlow, TLC

\* Every run talks in the same conversation.
OneConversation == [r \in Run |-> CHOOSE c \in Conversation : TRUE]

\* Runs, task ids, interrupts and positions are interchangeable: a value of one
\* kind is only ever compared with another.
FlowSymmetry == Permutations(Run) \union Permutations(Task)
                \union Permutations(Interrupt) \union Permutations(Position)
=============================================================================
