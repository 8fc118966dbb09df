SPECIFICATION Spec
CONSTANTS
    Tasks = {t1, t2, t3}
    MaxJobs = 3
INVARIANTS
    NothingLost
PROPERTIES
    MailboxDrains
CHECK_DEADLOCK FALSE
