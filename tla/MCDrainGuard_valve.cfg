SPECIFICATION FairSpec
CONSTANTS
    c1 = c1  c2 = c2  g1 = g1  g2 = g2
    Completers = {c1}
    Granters = {g1}
    Capacity = 2
    Whole = 3
    MintFloor = 2
    Caps = {1}
    EngageBacklog = 2
    ReleaseBacklog = 0
    EngagePct = 100
    ReleasePct = 50
    EngageTicks = 1
    ReleaseTicks = 1
    HaltFloor = 0
    RecoverRate = 1
    HaltMinBacklog = 2
    HaltArmPct = 200
    HaltEngageTicks = 1
    HaltReleaseTicks = 2
    Window = 2
    MaxBacklog = 2
    MaxCompletions = 3
PROPERTY
    IdleEngineAdmits
CHECK_DEADLOCK FALSE
