SPECIFICATION FairSpec
CONSTANTS
    i1 = i1  i2 = i2  e1 = e1  e2 = e2  e3 = e3
    Instances = {i1, i2}
    Elems = {e1, e2}
    NoElem = NoElem
    InstanceOf <- TwoInstances
    Jobs = {1, 2}
    Priority <- SecondFirst
    AgentElems = {}
    Lenient = TRUE
    Timeouts = {1}
    TimeoutUpdates <- Extensions
    RetryInputs = {0, 1}
    DigestDeadlines = {1, 2}
    MaxJobs = 2
    MaxKey = 2
    MaxTime = 2
INVARIANTS
    IndexSound
PROPERTIES
    LockEventuallyReleased
CHECK_DEADLOCK FALSE
