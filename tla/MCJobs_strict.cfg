SPECIFICATION Spec
CONSTANTS
    i1 = i1  i2 = i2  e1 = e1  e2 = e2  e3 = e3
    Instances = {i1}
    Elems = {e1, e2}
    NoElem = NoElem
    InstanceOf <- OneInstance
    Jobs = {1, 2, 3}
    Priority <- SecondFirst
    AgentElems = {e2}
    Lenient = FALSE
    Timeouts = {1}
    TimeoutUpdates = {}
    RetryInputs <- Answers
    DigestDeadlines = {}
    MaxJobs = 2
    MaxKey = 3
    MaxTime = 2
INVARIANTS
    TypeOK
    TokenHasWork
    JobHasToken
    OneJobPerElement
    LeaseFence
PROPERTIES
    TerminalFinal
    LockNotStolen
CHECK_DEADLOCK FALSE
