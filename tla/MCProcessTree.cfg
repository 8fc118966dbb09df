SPECIFICATION FairSpec
CONSTANTS
    Processes = {"main", "leaf"}
    Initial = {"main"}
    Roots = {"main"}
    Suspendable = {"main"}
    StartEvent <- Starts
    Elements = {"s1", "s2", "b1", "b2", "t1", "t2", "t3", "review", "sign", "seal", "c1", "c2", "stop", "x1", "x2"}
    Kind <- ElementKinds
    Flows <- Shape
    Callee <- Leaf
    Boundary <- Timers
    Listening = {"sign", "seal"}
    NoElement = "none"
    MaxDepth = 2
    MaxKey = 4
    TreeSize = 3
INVARIANTS
    ChildHasParent
    TokenIsDriven
    WorkHasToken
    EmptyCompletes
PROPERTIES
    DrainEnds
CHECK_DEADLOCK FALSE
