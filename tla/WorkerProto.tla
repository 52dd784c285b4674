---------------------------- MODULE WorkerProto -----------------------------
(***************************************************************************)
(* The messages between the gateway and the workers, package               *)
(* vectron.worker.v1 (clientlibs/js/proto/worker). One definition per      *)
(* generated message; the service at the end names the message of each     *)
(* direction of each call.                                                 *)
(***************************************************************************)
EXTENDS WireTypes

Vector == [id |-> string(1), vector |-> packed(float(2)), metadata |-> bytes(3)]

StoreVectorRequest ==
    [shardId |-> uint64(1), vector |-> message(2, Vector), shardEpoch |-> uint64(3),
     leaseExpiryUnixMs |-> int64(4)]

StoreVectorResponse == NoFields

BatchStoreVectorRequest ==
    [shardId |-> uint64(1), vectors |-> repeated(message(2, Vector)),
     shardEpoch |-> uint64(3), leaseExpiryUnixMs |-> int64(4)]

BatchStoreVectorResponse == [stored |-> int32(1)]

GetVectorRequest ==
    [shardId |-> uint64(1), id |-> string(2), shardEpoch |-> uint64(3),
     leaseExpiryUnixMs |-> int64(4)]

GetVectorResponse == [vector |-> message(1, Vector)]

DeleteVectorRequest ==
    [shardId |-> uint64(1), id |-> string(2), shardEpoch |-> uint64(3),
     leaseExpiryUnixMs |-> int64(4)]

DeleteVectorResponse == NoFields

SearchRequest ==
    [shardId |-> uint64(1), vector |-> packed(float(2)), k |-> int32(3),
     bruteForce |-> bool(4), linearizable |-> bool(5), collection |-> string(6),
     shardEpoch |-> uint64(7), leaseExpiryUnixMs |-> int64(8)]

SearchResponse ==
    [ids |-> repeated(string(1)), scores |-> packed(float(2)),
     metadata |-> repeated(bytes(3))]

BatchSearchRequest == [requests |-> repeated(message(1, SearchRequest))]

BatchSearchResponse == [responses |-> repeated(message(1, SearchResponse))]

HNSWSnapshotRequest == [shardId |-> uint64(1)]

HNSWSnapshotChunk ==
    [shardId |-> uint64(1), snapshotTsUnixNano |-> int64(2), data |-> bytes(3),
     done |-> bool(4)]

HNSWUpdatesRequest == [shardId |-> uint64(1), fromTsUnixNano |-> int64(2)]

HNSWUpdate ==
    [id |-> string(1), value |-> bytes(2), delete |-> bool(3), tsUnixNano |-> int64(4)]

HNSWUpdateBatch == [updates |-> repeated(message(1, HNSWUpdate))]

KeyValuePair == [key |-> bytes(1), value |-> bytes(2)]

PutRequest ==
    [shardId |-> uint64(1), kv |-> message(2, KeyValuePair), shardEpoch |-> uint64(3),
     leaseExpiryUnixMs |-> int64(4)]

PutResponse == NoFields

GetRequest ==
    [shardId |-> uint64(1), key |-> bytes(2), shardEpoch |-> uint64(3),
     leaseExpiryUnixMs |-> int64(4)]

GetResponse == [kv |-> message(1, KeyValuePair)]

DeleteRequest ==
    [shardId |-> uint64(1), key |-> bytes(2), shardEpoch |-> uint64(3),
     leaseExpiryUnixMs |-> int64(4)]

DeleteResponse == NoFields

StatusRequest ==
    [shardId |-> uint64(1), shardEpoch |-> uint64(2), leaseExpiryUnixMs |-> int64(3)]

StatusResponse == [status |-> string(1)]

FlushRequest ==
    [shardId |-> uint64(1), shardEpoch |-> uint64(2), leaseExpiryUnixMs |-> int64(3)]

FlushResponse == NoFields

----------------------------------------------------------------------------
(* A call of a service: its request, its response, and which is a stream.  *)

Call(request, response, requestStream, responseStream) ==
    [request |-> request, response |-> response,
     requestStream |-> requestStream, responseStream |-> responseStream]

WorkerService ==
    [storeVector |-> Call(StoreVectorRequest, StoreVectorResponse, FALSE, FALSE),
     batchStoreVector |-> Call(BatchStoreVectorRequest, BatchStoreVectorResponse, FALSE, FALSE),
     streamBatchStoreVector |-> Call(BatchStoreVectorRequest, BatchStoreVectorResponse, TRUE, FALSE),
     getVector |-> Call(GetVectorRequest, GetVectorResponse, FALSE, FALSE),
     deleteVector |-> Call(DeleteVectorRequest, DeleteVectorResponse, FALSE, FALSE),
     search |-> Call(SearchRequest, SearchResponse, FALSE, FALSE),
     batchSearch |-> Call(BatchSearchRequest, BatchSearchResponse, FALSE, FALSE),
     streamHnswSnapshot |-> Call(HNSWSnapshotRequest, HNSWSnapshotChunk, FALSE, TRUE),
     streamHnswUpdates |-> Call(HNSWUpdatesRequest, HNSWUpdateBatch, FALSE, TRUE),
     put |-> Call(PutRequest, PutResponse, FALSE, FALSE),
     get |-> Call(GetRequest, GetResponse, FALSE, FALSE),
     delete |-> Call(DeleteRequest, DeleteResponse, FALSE, FALSE),
     status |-> Call(StatusRequest, StatusResponse, FALSE, FALSE),
     flush |-> Call(FlushRequest, FlushResponse, FALSE, FALSE)]
=============================================================================
