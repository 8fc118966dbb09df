SPECIFICATION Spec
CONSTANTS
    p1 = p1
    p2 = p2
    Partitions = {p1}
    Modes = {"sync"}
    MaxBatch = 2
    SegmentRecords = 2
    Failures <- TornFirst
    Bad = Bad
    MaxEvents = 3
    MaxBuild = 1
    MaxTicks = 1
PROPERTIES
    AnsweredSurvives
CHECK_DEADLOCK FALSE
