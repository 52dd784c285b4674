SPECIFICATION BatchSpec
CONSTANTS
    Calls = {1, 2, 3}
    OptionSets <- AllOptions
    CallerOps <- TwoCalls
    GatewayFaults = {"UNAVAILABLE", "INTERNAL"}
    MaxAttempts = 2
    None = None
    Other = Other
    Points <- PointLists
    BatchSizes = {0, 1, 2}
    Concurrencies = {0, 2}
    BatchBytes = {0, 2}
    DefaultBatchSize = 3
    BatchCalls <- Slots
INVARIANTS
    ClientTypeOK
    WritesAtMostOnce
    ResolvedWritesStand
    
    BatchesPartition
    BatchIsComplete
    WorkersStopAtFailure
PROPERTIES
    PromisesSettle
CHECK_DEADLOCK FALSE
