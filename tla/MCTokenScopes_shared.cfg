SPECIFICATION Spec
CONSTANTS
    Definitions <- Shared
    Items = 2
    MaxKey = 24
    NoFlow = "none"
INVARIANTS
    NeverStuck
CHECK_DEADLOCK FALSE
