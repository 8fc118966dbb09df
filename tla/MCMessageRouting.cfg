SPECIFICATION Spec
CONSTANTS
    a = a
    b = b
    x = x
    y = y
    Setups <- Sound
    NumPartitions = 2
    NumNodes = 2
    Inst = {a, b}
    CorrKey = {x, y}
    MaxKey = 2
    MaxMsg = 2
    MaxFaults = 1
INVARIANTS
    DeliveredOnce
    InOrderDisarms
PROPERTIES
    AdvancesWaiting
    OpensArrive
CHECK_DEADLOCK FALSE
