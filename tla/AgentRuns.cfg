SPECIFICATION FairSpec
CONSTANTS
    Run = {r1}
    Task = {t1, t2, t3}
    NoTask = NoTask
    NoJob = NoJob
    MaxCrashes = 2
    MaxBrokerFailures = 1
INVARIANTS Inv SingleExecutor
PROPERTIES EndedRunsStayEnded ImplementsLifecycle WorkGoesOn
CHECK_DEADLOCK FALSE
