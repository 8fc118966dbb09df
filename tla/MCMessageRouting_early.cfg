SPECIFICATION Spec
CONSTANTS
    a = a
    b = b
    x = x
    y = y
    Setups <- EarlyCrash
    NumPartitions = 2
    NumNodes = 2
    Inst = {a, b}
    CorrKey = {x, y}
    MaxKey = 2
    MaxMsg = 1
    MaxFaults = 1
INVARIANTS
    DeliveredOnce
CHECK_DEADLOCK FALSE
