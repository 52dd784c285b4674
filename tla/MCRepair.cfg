SPECIFICATION FairLoopsSpec
CONSTANTS
    a1 = a1
    a2 = a2
    a3 = a3
    z1 = z1
    r1 = r1
    p1 = p1
    Addrs = {a1, a2, a3}
    FailureDomain <- MCFailureDomain
    Colls = {"c1"}
    RF = 2
    MaxReplicationFactor = 3
    MaxInitialShards = 1
    MaxWorkerID = 4
    MaxShardID = 1
    MaxAssignmentsEpoch = 4
    PDs = {p1}
    InitialWorkers <- ThreeWriters
    InitialShards = {1}
    InitialReplicas <- OnTwo
    MaxConcurrentRepairs = 1
    MaxConcurrentMoves = 1
    StableWorkers = {2, 3}
    Disturbances = {"timeout", "proposal", "move"}
    MaxDisturbances = 1
PROPERTIES
    EveryMoveEnds
    UnderReplicationRepaired
CHECK_DEADLOCK FALSE
