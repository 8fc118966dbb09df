SPECIFICATION Spec
CONSTANTS
    i1 = i1  i2 = i2  e1 = e1  e2 = e2  e3 = e3
    Instances = {i1}
    Elems = {e1, e2}
    NoElem = NoElem
    InstanceOf <- OneInstance
    Jobs = {1, 2}
    Priority <- SecondFirst
    AgentElems = {}
    Lenient = TRUE
    Timeouts = {1}
    TimeoutUpdates = {}
    RetryInputs = {0}
    DigestDeadlines = {1}
    MaxJobs = 1
    MaxKey = 2
    MaxTime = 1
INVARIANTS
    IndexExact
CHECK_DEADLOCK FALSE
