--------------------------- MODULE RerankerProto ----------------------------
(***************************************************************************)
(* The messages of the reranker, package vectron.reranker.v1               *)
(* (clientlibs/js/proto/reranker). One definition per generated message;   *)
(* the service at the end names the message of each direction of each      *)
(* call.                                                                   *)
(***************************************************************************)
EXTENDS WireTypes

Candidate_MetadataEntry == [key |-> string(1), value |-> string(2)]

Candidate ==
    [id |-> string(1), score |-> float(2), vector |-> packed(float(3)),
     metadata |-> map(4, Candidate_MetadataEntry)]

RerankRequest_OptionsEntry == [key |-> string(1), value |-> string(2)]

RerankRequest ==
    [query |-> string(1), candidates |-> repeated(message(2, Candidate)),
     topN |-> int32(3), options |-> map(4, RerankRequest_OptionsEntry)]

ScoredCandidate ==
    [id |-> string(1), rerankScore |-> float(2), originalScore |-> float(3),
     explanation |-> string(4)]

RerankResponse ==
    [results |-> repeated(message(1, ScoredCandidate)), strategyUsed |-> string(2),
     fromCache |-> bool(3), latencyMs |-> int64(4)]

GetStrategyRequest == NoFields

GetStrategyResponse_ConfigEntry == [key |-> string(1), value |-> string(2)]

GetStrategyResponse ==
    [strategyName |-> string(1), version |-> string(2),
     config |-> map(3, GetStrategyResponse_ConfigEntry)]

InvalidateCacheRequest == [query |-> string(1), candidateIds |-> repeated(string(2))]

InvalidateCacheResponse == [entriesCleared |-> int32(1)]

----------------------------------------------------------------------------
(* A call of a service: its request, its response, and which is a stream.  *)

Call(request, response, requestStream, responseStream) ==
    [request |-> request, response |-> response,
     requestStream |-> requestStream, responseStream |-> responseStream]

RerankService ==
    [rerank |-> Call(RerankRequest, RerankResponse, FALSE, FALSE),
     getStrategy |-> Call(GetStrategyRequest, GetStrategyResponse, FALSE, FALSE),
     invalidateCache |-> Call(InvalidateCacheRequest, InvalidateCacheResponse, FALSE, FALSE)]
=============================================================================
