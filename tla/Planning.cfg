SPECIFICATION Spec
CONSTANTS
    t1 = t1
    t2 = t2
    Task = {t1, t2}
    NoTask = NoTask
    Plan = {p1}
    DayLength = 6
    WorkStart = 1
    WorkEnd = 5
    WorkDays = {0, 1}
    Increment = 2
    DailyLimit = 4
    Duration <- Durations
    Due <- DueTimes
    Before <- BuffersBefore
    After <- BuffersAfter
    Splittable = {t2}
    MinChunk <- Chunks
    PlanningLocked = {}
    Rank <- Ranks
    Strategy = {"plan_tasks_only", "create_linked_event_blocks"}
    DecisionChoices <- Decisions
    RangeChoices <- Ranges
    Opening <- Opens
    SpanChoices <- Spans
    Instants = {0, 3}
    PlanTTL = 3
    MaxWrites = 2
    MaxVersion = 2
INVARIANTS PlanInv
PROPERTIES AppliedAsSeen AppliedPlanFits ProposalsAreRight
CHECK_DEADLOCK FALSE
