SPECIFICATION Spec
CONSTANTS
    Setups <- Suspending
    MaxRemove = 1
    MaxTombstones = 1
    MaxLog = 4
    MaxLocal = 2
    MaxFrames = 1
INVARIANTS
    FollowerKeepsLive
CHECK_DEADLOCK FALSE
