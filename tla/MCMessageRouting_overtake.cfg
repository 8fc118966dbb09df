SPECIFICATION Spec
CONSTANTS
    a = a
    b = b
    x = x
    y = y
    Setups <- Overtaking
    NumPartitions = 2
    NumNodes = 2
    Inst = {a, b}
    CorrKey = {x, y}
    MaxKey = 2
    MaxMsg = 1
    MaxFaults = 0
INVARIANTS
    NoStaleSubscription
CHECK_DEADLOCK FALSE
