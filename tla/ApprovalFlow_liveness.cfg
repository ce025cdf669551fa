SPECIFICATION FairSpecFlow
CONSTANTS
    Run = {r1}
    Task = {t1, t2, t3}
    NoTask = NoTask
    NoJob = NoJob
    MaxCrashes = 0
    MaxBrokerFailures = 0
    Interrupt = {i1}
    NoInterruptYet = NoInterruptYet
    Position = {p1, p2}
    Conversation = {chat}
    ConversationOf <- OneConversation
    Verdict = {"approved", "rejected"}
    Reads = FALSE
    MaxLosses = 0
PROPERTIES ProposalsFollowLifecycle AskedRunResumes
CHECK_DEADLOCK FALSE
