--------------------------- MODULE PlacementProto ---------------------------
(***************************************************************************)
(* The messages of the placement driver, package                           *)
(* vectron.placementdriver.v1 (clientlibs/js/proto/placementdriver). One   *)
(* definition per generated message; the service at the end names the      *)
(* message of each direction of each call.                                 *)
(***************************************************************************)
EXTENDS WireTypes

WorkerState ==
    [WORKER_STATE_UNKNOWN |-> 0, WORKER_STATE_JOINING |-> 1, WORKER_STATE_READY |-> 2,
     WORKER_STATE_DRAINING |-> 3]

GetLeaderRequest == NoFields

GetLeaderResponse == [leaderAddress |-> string(1)]

GetWorkerRequest == [collection |-> string(1), vectorId |-> string(2)]

GetWorkerResponse ==
    [grpcAddress |-> string(1), shardId |-> uint32(2), shardEpoch |-> uint64(3),
     leaseExpiryUnixMs |-> int64(4)]

RegisterWorkerRequest ==
    [grpcAddress |-> string(1), raftAddress |-> string(2),
     capabilities |-> repeated(string(3)), timestamp |-> int64(4),
     cpuCores |-> int32(5), memoryBytes |-> int64(6), diskBytes |-> int64(7),
     rack |-> string(8), zone |-> string(9), region |-> string(10)]

RegisterWorkerResponse == [workerId |-> string(1), success |-> bool(2)]

ShardLeaderInfo == [shardId |-> uint64(1), leaderId |-> uint64(2)]

ShardMembershipInfo ==
    [shardId |-> uint64(1), configChangeId |-> uint64(2),
     nodeIds |-> packed(uint64(3))]

ShardProgressInfo ==
    [shardId |-> uint64(1), appliedIndex |-> uint64(2), shardEpoch |-> uint64(3)]

ShardLeaderTransferAck ==
    [shardId |-> uint64(1), fromNodeId |-> uint64(2), toNodeId |-> uint64(3),
     shardEpoch |-> uint64(4), timestampUnixMs |-> int64(5)]

ShardMetrics ==
    [shardId |-> uint64(1), queriesPerSecond |-> float(2), vectorCount |-> int64(3),
     avgLatencyMs |-> float(4)]

HeartbeatRequest ==
    [workerId |-> string(1), timestamp |-> int64(2), vectorCount |-> int64(3),
     memoryBytes |-> int64(4),
     shardLeaderInfo |-> repeated(message(5, ShardLeaderInfo)),
     cpuUsagePercent |-> float(6), memoryUsagePercent |-> float(7),
     diskUsagePercent |-> float(8), queriesPerSecond |-> float(9),
     activeShards |-> int64(10), shardMetrics |-> repeated(message(11, ShardMetrics)),
     runningShards |-> packed(uint64(12)),
     shardMembership |-> repeated(message(13, ShardMembershipInfo)),
     shardProgress |-> repeated(message(14, ShardProgressInfo)),
     leaderTransferAcks |-> repeated(message(15, ShardLeaderTransferAck))]

HeartbeatResponse ==
    [ok |-> bool(1), message |-> string(2), assignmentsEpoch |-> uint64(3)]

ListWorkersRequest == NoFields

WorkerInfo_MetadataEntry == [key |-> string(1), value |-> string(2)]

WorkerInfo ==
    [workerId |-> string(1), grpcAddress |-> string(2), raftAddress |-> string(3),
     collections |-> repeated(string(4)), lastHeartbeat |-> int64(5),
     healthy |-> bool(6), metadata |-> map(7, WorkerInfo_MetadataEntry),
     state |-> enum(8, WorkerState)]

ListWorkersResponse == [workers |-> repeated(message(1, WorkerInfo))]

RegisterRerankerRequest ==
    [grpcAddress |-> string(1), capabilities |-> repeated(string(2)),
     timestamp |-> int64(3), cpuCores |-> int32(4), memoryBytes |-> int64(5),
     diskBytes |-> int64(6), rack |-> string(7), zone |-> string(8),
     region |-> string(9)]

RegisterRerankerResponse == [rerankerId |-> string(1), success |-> bool(2)]

RerankerHeartbeatRequest ==
    [rerankerId |-> string(1), timestamp |-> int64(2), cpuUsagePercent |-> float(3),
     memoryUsagePercent |-> float(4), diskUsagePercent |-> float(5),
     queriesPerSecond |-> float(6)]

RerankerHeartbeatResponse == [ok |-> bool(1), message |-> string(2)]

ListRerankersRequest == NoFields

RerankerInfo_MetadataEntry == [key |-> string(1), value |-> string(2)]

RerankerInfo ==
    [rerankerId |-> string(1), grpcAddress |-> string(2), lastHeartbeat |-> int64(3),
     healthy |-> bool(4), metadata |-> map(5, RerankerInfo_MetadataEntry)]

ListRerankersResponse == [rerankers |-> repeated(message(1, RerankerInfo))]

GetRerankerRequest == NoFields

GetRerankerResponse == [rerankerId |-> string(1), grpcAddress |-> string(2)]

ListWorkersForCollectionRequest == [collection |-> string(1)]

ListWorkersForCollectionResponse == [grpcAddresses |-> repeated(string(1))]

DrainWorkerRequest == [workerId |-> string(1)]

DrainWorkerResponse == [success |-> bool(1)]

RemoveWorkerRequest == [workerId |-> string(1)]

RemoveWorkerResponse == [success |-> bool(1)]

RebalanceRequest == NoFields

RebalanceResponse == [started |-> bool(1)]

CreateCollectionRequest ==
    [name |-> string(1), dimension |-> int32(2), distance |-> string(3)]

CreateCollectionResponse == [success |-> bool(1)]

ListCollectionsRequest == NoFields

ListCollectionsResponse == [collections |-> repeated(string(1))]

DeleteCollectionRequest == [name |-> string(1)]

DeleteCollectionResponse == [success |-> bool(1)]

GetCollectionStatusRequest == [name |-> string(1)]

ShardStatus ==
    [shardId |-> uint32(1), replicas |-> packed(uint64(2)), leaderId |-> uint64(3),
     ready |-> bool(4), keyRangeStart |-> uint64(5), keyRangeEnd |-> uint64(6),
     shardEpoch |-> uint64(7), leaderGrpcAddress |-> string(8),
     replicaGrpcAddresses |-> repeated(string(9))]

GetCollectionStatusResponse ==
    [name |-> string(1), dimension |-> int32(2), distance |-> string(3),
     shards |-> repeated(message(4, ShardStatus))]

----------------------------------------------------------------------------
(* A call of a service: its request, its response, and which is a stream.  *)

Call(request, response, requestStream, responseStream) ==
    [request |-> request, response |-> response,
     requestStream |-> requestStream, responseStream |-> responseStream]

PlacementService ==
    [getWorker |-> Call(GetWorkerRequest, GetWorkerResponse, FALSE, FALSE),
     registerWorker |-> Call(RegisterWorkerRequest, RegisterWorkerResponse, FALSE, FALSE),
     heartbeat |-> Call(HeartbeatRequest, HeartbeatResponse, FALSE, FALSE),
     listWorkers |-> Call(ListWorkersRequest, ListWorkersResponse, FALSE, FALSE),
     registerReranker |-> Call(RegisterRerankerRequest, RegisterRerankerResponse, FALSE, FALSE),
     rerankerHeartbeat |-> Call(RerankerHeartbeatRequest, RerankerHeartbeatResponse, FALSE, FALSE),
     listRerankers |-> Call(ListRerankersRequest, ListRerankersResponse, FALSE, FALSE),
     getReranker |-> Call(GetRerankerRequest, GetRerankerResponse, FALSE, FALSE),
     listWorkersForCollection |-> Call(ListWorkersForCollectionRequest, ListWorkersForCollectionResponse, FALSE, FALSE),
     drainWorker |-> Call(DrainWorkerRequest, DrainWorkerResponse, FALSE, FALSE),
     removeWorker |-> Call(RemoveWorkerRequest, RemoveWorkerResponse, FALSE, FALSE),
     rebalance |-> Call(RebalanceRequest, RebalanceResponse, FALSE, FALSE),
     createCollection |-> Call(CreateCollectionRequest, CreateCollectionResponse, FALSE, FALSE),
     listCollections |-> Call(ListCollectionsRequest, ListCollectionsResponse, FALSE, FALSE),
     deleteCollection |-> Call(DeleteCollectionRequest, DeleteCollectionResponse, FALSE, FALSE),
     getCollectionStatus |-> Call(GetCollectionStatusRequest, GetCollectionStatusResponse, FALSE, FALSE),
     getLeader |-> Call(GetLeaderRequest, GetLeaderResponse, FALSE, FALSE)]
=============================================================================
