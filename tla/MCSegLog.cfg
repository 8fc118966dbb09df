SPECIFICATION Spec
CONSTANTS
    p1 = p1
    p2 = p2
    Partitions = {p1, p2}
    Modes = {"sync", "async"}
    MaxBatch = 2
    SegmentRecords = 1
    Failures <- CleanThenAny
    Bad = Bad
    MaxEvents = 2
    MaxBuild = 2
    MaxTicks = 2
INVARIANTS
    SnapshotAtBoundary
    ReadModelInStep
    RefusesOnlyUnreadable
PROPERTIES
    ImplementsDurableLog
    WriterCatchesUp
CHECK_DEADLOCK FALSE
