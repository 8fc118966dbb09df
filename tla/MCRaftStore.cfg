SPECIFICATION Spec
CONSTANTS
    Setups <- Stores
    SegRecords = 2
    MaxIndex = 4
    MaxTerm = 2
    MaxCrashes = 2
INVARIANTS
    AppliedExactly
    FlushedReadable
    RefusesOnlyTorn
    PurgeRestorable
CONSTRAINT
    Undisturbed
CHECK_DEADLOCK FALSE
