SPECIFICATION Spec
CONSTANTS
    Definitions <- Structured
    Items = 2
    MaxKey = 24
    NoFlow = "none"
INVARIANTS
    JoinTokensHeld
    ScopeAlive
    NeverStuck
    JoinFiresOnce
CHECK_DEADLOCK FALSE
