SPECIFICATION Spec
CONSTANTS
    Processes = {"main", "leaf"}
    Initial = {"main", "leaf"}
    Roots = {"main"}
    Suspendable = {"leaf"}
    StartEvent <- Starts
    Elements = {"s1", "s2", "b1", "b2", "t1", "t2", "t3", "review", "sign", "seal", "c1", "c2", "stop", "x1", "x2"}
    Kind <- ElementKinds
    Flows <- Shape
    Callee <- Leaf
    Boundary <- Timers
    Listening = {"sign", "seal"}
    NoElement = "none"
    MaxDepth = 2
    MaxKey = 4
    TreeSize = 3
INVARIANT
    ChildHasParent
CHECK_DEADLOCK FALSE
