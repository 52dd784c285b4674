SPECIFICATION LoopsSpec
CONSTANTS
    a1 = a1
    a2 = a2
    a3 = a3
    z1 = z1
    r1 = r1
    p1 = p1
    Addrs = {a1, a2, a3}
    FailureDomain <- MCFailureDomain
    Colls = {"c1"}
    RF = 1
    MaxReplicationFactor = 3
    MaxInitialShards = 1
    MaxWorkerID = 4
    MaxShardID = 1
    MaxAssignmentsEpoch = 4
    PDs = {p1}
    InitialWorkers <- ThreeWriters
    InitialShards = {1}
    InitialReplicas <- OnOne
    MaxConcurrentRepairs = 1
    MaxConcurrentMoves = 1
    StableWorkers = {1, 2, 3}
    Disturbances = {"timeout", "proposal", "report", "move", "drain", "delete"}
    MaxDisturbances = 2
INVARIANTS
    LoopsTypeOK
PROPERTIES
    RemovalWaitsForCopy
CHECK_DEADLOCK FALSE
