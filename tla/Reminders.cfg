SPECIFICATION FairSpecReminders
CONSTANTS
    Offset = {1}
    Custom = {c1}
    Channel = {email, push}
    NoStart = NoStart
    NoTask = NoTask
    MaxTime = 3
    MaxLateness = 1
    MaxTries = 1
    Batch = 1
    MaxCrashes = 1
INVARIANTS ReminderInv
PROPERTIES NothingAfterTheEnd DueReminderIsTaken
CHECK_DEADLOCK FALSE
