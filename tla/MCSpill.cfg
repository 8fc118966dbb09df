SPECIFICATION Spec
CONSTANTS
    Instances = {1, 2}
    WaitSets <- WaitsAndCalls
    Configs <- Deployed
    MaxWrites = 2
    MaxLog = 4
    MaxCheckpoints = 2
    MaxFaults = 1
INVARIANTS
    LiveIsHeld
    VariablesWhole
PROPERTIES
    TimersFire
CHECK_DEADLOCK FALSE
