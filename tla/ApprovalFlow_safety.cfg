SPECIFICATION SpecFlow
CONSTANTS
    Run = {r1}
    Task = {t1, t2, t3}
    NoTask = NoTask
    NoJob = NoJob
    MaxCrashes = 2
    MaxBrokerFailures = 0
    Interrupt = {i1, i2}
    NoInterruptYet = NoInterruptYet
    Position = {p1}
    Conversation = {chat}
    ConversationOf <- OneConversation
    Verdict = {"approved", "rejected"}
    Reads = TRUE
    MaxLosses = 1
SYMMETRY FlowSymmetry
INVARIANTS InvFlow NoEffectWithoutApproval EffectsHappenOnce
PROPERTIES ImplementsAgentRuns
CHECK_DEADLOCK FALSE
