SPECIFICATION FairSegSpec
CONSTANTS
    d1 = d1
    d2 = d2
    DocIDs = {d1, d2}
    Commands <- MixedCommands
    AsyncModes = {TRUE}
    QueueSize = 1
    BatchSize = 2
    MaxVectors = 2
    CompactionFanIn = 2
    MaxLog = 2
    MaxSegmentID = 4
    MaxImmutables = 2
    MaxCrashes = 0
PROPERTIES
    WritesReturn
CHECK_DEADLOCK FALSE
