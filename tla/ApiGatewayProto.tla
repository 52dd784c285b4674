-------------------------- MODULE ApiGatewayProto ---------------------------
(***************************************************************************)
(* The messages of the public API, package vectron.v1, as the JavaScript   *)
(* client encodes and decodes them (clientlibs/js/proto/apigateway). One   *)
(* definition per generated message; the service at the end names the      *)
(* message of each direction of each call.                                 *)
(***************************************************************************)
EXTENDS WireTypes

Auth == INSTANCE AuthProto

CreateCollectionRequest ==
    [name |-> string(1), dimension |-> int32(2), distance |-> string(3)]

CreateCollectionResponse == [success |-> bool(1)]

DeleteCollectionRequest == [name |-> string(1)]

DeleteCollectionResponse == [success |-> bool(1)]

Point_PayloadEntry == [key |-> string(1), value |-> string(2)]

Point ==
    [id |-> string(1), vector |-> packed(float(2)),
     payload |-> map(3, Point_PayloadEntry)]

UpsertRequest == [collection |-> string(1), points |-> repeated(message(2, Point))]

UpsertResponse == [upserted |-> int32(1)]

SearchRequest ==
    [collection |-> string(1), vector |-> repeated(float(2)), topK |-> uint32(3),
     query |-> string(4), timeoutMs |-> uint32(5), includeVectors |-> bool(6),
     includeMetadata |-> bool(7)]

SearchResult_PayloadEntry == [key |-> string(1), value |-> string(2)]

SearchResult ==
    [id |-> string(1), score |-> float(2),
     payload |-> map(3, SearchResult_PayloadEntry), vector |-> packed(float(4))]

SearchResponse == [results |-> repeated(message(1, SearchResult))]

GetRequest == [collection |-> string(1), id |-> string(2)]

GetResponse == [point |-> message(1, Point)]

DeleteRequest == [collection |-> string(1), id |-> string(2)]

DeleteResponse == NoFields

ListCollectionsRequest == NoFields

ListCollectionsResponse == [collections |-> repeated(string(1))]

GetCollectionStatusRequest == [name |-> string(1)]

ShardStatus ==
    [shardId |-> uint32(1), replicas |-> packed(uint64(2)), leaderId |-> uint64(3),
     ready |-> bool(4)]

GetCollectionStatusResponse ==
    [name |-> string(1), dimension |-> int32(2), distance |-> string(3),
     shards |-> repeated(message(4, ShardStatus))]

UpdateUserProfileRequest == [plan |-> enum(1, Auth!Plan)]

UpdateUserProfileResponse == [user |-> message(1, Auth!UserProfile)]

FeedbackItem ==
    [resultId |-> string(1), relevanceScore |-> int32(2), clicked |-> bool(3),
     position |-> int32(4), comment |-> string(5)]

SubmitFeedbackRequest_ContextEntry == [key |-> string(1), value |-> string(2)]

SubmitFeedbackRequest ==
    [collection |-> string(1), query |-> string(2), resultIds |-> repeated(string(3)),
     feedbackItems |-> repeated(message(4, FeedbackItem)),
     context |-> map(5, SubmitFeedbackRequest_ContextEntry)]

SubmitFeedbackResponse == [success |-> bool(1), feedbackId |-> string(2)]

----------------------------------------------------------------------------
(* A call of a service: its request, its response, and which is a stream.  *)

Call(request, response, requestStream, responseStream) ==
    [request |-> request, response |-> response,
     requestStream |-> requestStream, responseStream |-> responseStream]

VectronService ==
    [createCollection |-> Call(CreateCollectionRequest, CreateCollectionResponse, FALSE, FALSE),
     deleteCollection |-> Call(DeleteCollectionRequest, DeleteCollectionResponse, FALSE, FALSE),
     upsert |-> Call(UpsertRequest, UpsertResponse, FALSE, FALSE),
     search |-> Call(SearchRequest, SearchResponse, FALSE, FALSE),
     searchStream |-> Call(SearchRequest, SearchResponse, FALSE, TRUE),
     get |-> Call(GetRequest, GetResponse, FALSE, FALSE),
     delete |-> Call(DeleteRequest, DeleteResponse, FALSE, FALSE),
     listCollections |-> Call(ListCollectionsRequest, ListCollectionsResponse, FALSE, FALSE),
     getCollectionStatus |-> Call(GetCollectionStatusRequest, GetCollectionStatusResponse, FALSE, FALSE),
     updateUserProfile |-> Call(UpdateUserProfileRequest, UpdateUserProfileResponse, FALSE, FALSE),
     submitFeedback |-> Call(SubmitFeedbackRequest, SubmitFeedbackResponse, FALSE, FALSE)]
=============================================================================
