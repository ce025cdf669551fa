SPECIFICATION FairSpec
CONSTANTS
    Place = {p1, p2}
    Worker = {w1, w2}
    Client = {c1, c2}
    NoOne = NoOne
    MaxWrites = 4
    MaxMishaps = 2
    MaxMessages = 1
INVARIANTS ProfileInv
PROPERTIES ProfileGetsRight TurnedOffIsForgotten
CHECK_DEADLOCK FALSE
