SPECIFICATION FairSpec
CONSTANTS
    Key = {k1}
    OuterJoinsLock = TRUE
    Value = {v1, v2}
    MaxProposals = 3
    MaxMessages = 2
    Worker = {w1, w2}
    MaxMishaps = 1
INVARIANTS MemoryInv
PROPERTIES DecisionsAreExact ProjectionFollows
CHECK_DEADLOCK FALSE
