SPECIFICATION SegSpec
CONSTANTS
    d1 = d1
    d2 = d2
    DocIDs = {d1, d2}
    Commands <- MixedCommands
    AsyncModes = {TRUE, FALSE}
    QueueSize = 1
    BatchSize = 2
    MaxVectors = 2
    CompactionFanIn = 2
    MaxLog = 3
    MaxSegmentID = 4
    MaxImmutables = 2
    MaxCrashes = 1
INVARIANTS
    SegTypeOK
    
    
    DeletedNotFound
CHECK_DEADLOCK FALSE
