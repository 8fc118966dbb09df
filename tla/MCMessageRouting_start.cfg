SPECIFICATION Spec
CONSTANTS
    a = a
    b = b
    x = x
    y = y
    Setups <- HashedAway
    NumPartitions = 2
    NumNodes = 2
    Inst = {a, b}
    CorrKey = {x, y}
    MaxKey = 2
    MaxMsg = 1
    MaxFaults = 0
INVARIANTS
    NoDuplicateStart
CHECK_DEADLOCK FALSE
