SPECIFICATION FairSyncSpec
CONSTANTS
    a1 = a1
    a2 = a2
    a3 = a3
    z1 = z1
    r1 = r1
    p1 = p1
    p2 = p2
    Addrs = {a1, a2, a3}
    FailureDomain <- MCFailureDomain
    Colls = {"c1"}
    RF = 2
    MaxReplicationFactor = 5
    MaxInitialShards = 2
    MaxWorkerID = 3
    MaxShardID = 2
    MaxAssignmentsEpoch = 6
    PDs = {p1}
    InitialWorkers <- ThreeWriters
    InitialReplicas <- OneShardOnTwo
    Bootstrapped = TRUE
    MovableShards = {1}
    Disturbances = {"add", "remove", "proposal", "lost", "restart", "membership", "election"}
    MaxDisturbances = 2
INVARIANTS
    SyncTypeOK
PROPERTIES
    AssignmentsArrive
    MembershipFollows
    
