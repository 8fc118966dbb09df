SPECIFICATION Spec
CONSTANTS
    Setups <- Publishing
    MaxRemove = 1
    MaxTombstones = 1
    MaxLog = 4
    MaxLocal = 2
    MaxFrames = 1
INVARIANTS
    FollowerKeepsLive
CHECK_DEADLOCK FALSE
