SPECIFICATION BatchSpec
CONSTANTS
    Calls = {1}
    OptionSets <- HedgedOptions
    CallerOps <- OneRead
    GatewayFaults = {"UNAVAILABLE", "INTERNAL"}
    MaxAttempts = 2
    None = None
    Other = Other
    Points = {}
    BatchSizes = {1}
    Concurrencies = {1}
    BatchBytes = {0}
    DefaultBatchSize = 1
    BatchCalls <- NoSlots
PROPERTY
    FailuresAreThrown
CHECK_DEADLOCK FALSE
