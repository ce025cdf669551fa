SPECIFICATION FairSpec
CONSTANTS
    NoStream = NoStream
    MaxEvents = 3
    MaxReconnects = 1
    MaxBreaks = 1
    MaxFollows = 1
INVARIANTS StreamInv NoGapNoDuplicate
PROPERTIES EventsArrive
CHECK_DEADLOCK FALSE
