SPECIFICATION FairSpecRepairs
CONSTANTS
    r1 = r1
    w1 = w1
    w2 = w2
    t1 = t1
    t2 = t2
    Task = {t1, t2}
    NoTask = NoTask
    DayLength = 6
    WorkStart = 1
    WorkEnd = 5
    WorkDays = {0, 1}
    Increment = 2
    DailyLimit = 4
    Duration <- Durations
    Due <- DueTimes
    Before <- NoBuffers
    After <- NoBuffers
    Splittable = {}
    MinChunk <- Chunks
    PlanningLocked = {}
    Rank <- Ranks
    Opening <- Opens
    SpanChoices <- Spans
    Instants = {0, 1}
    MaxWrites = 2
    Worker = {w1, w2}
    Request = {r1}
    Horizon = 11
    MaxMoves = 2
    MaxCrashes = 1
INVARIANTS RepairInv
PROPERTIES RepairsAreSafe RevertRestores DisruptionsGetRepaired
CHECK_DEADLOCK FALSE
