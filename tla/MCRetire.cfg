SPECIFICATION Spec
CONSTANTS
    Setups <- Mixed
    MaxRemove = 1
    MaxTombstones = 1
    MaxLog = 3
    MaxLocal = 2
    MaxFrames = 1
INVARIANTS
    KnownIsKept
PROPERTIES
    FollowerDrains
CHECK_DEADLOCK FALSE
