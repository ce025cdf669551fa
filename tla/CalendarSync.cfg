SPECIFICATION FairSpec
CONSTANTS
    Event = {e1, e2}
    Worker = {w1, w2}
    NoOne = NoOne
    MaxRemote = 3
    MaxWrites = 2
    MaxMishaps = 1
    MaxPolls = 1
INVARIANTS CalendarInv
PROPERTIES OldReadsAreRefused CalendarCatchesUp
CHECK_DEADLOCK FALSE
