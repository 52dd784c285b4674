SPECIFICATION Spec
CONSTANTS
    a1 = a1
    a2 = a2
    a3 = a3
    z1 = z1
    z2 = z2
    r1 = r1
    Addrs = {a1, a2, a3}
    FailureDomain <- MCFailureDomain
    Colls = {"c1"}
    RF = 2
    MaxReplicationFactor = 3
    MaxInitialShards = 1
    MaxWorkerID = 3
    MaxShardID = 2
    MaxAssignmentsEpoch = 4
SYMMETRY SameRack
INVARIANTS
    TypeOK
    ReplicasRegistered
    ReplicaListsSound
    BootstrapLatch
PROPERTIES
    EpochsOrderAssignments
    DrainOnlyShrinks
    ReplicationNeverRegresses
    KeepsPromise
CHECK_DEADLOCK FALSE
