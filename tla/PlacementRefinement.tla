------------------------- MODULE PlacementRefinement -------------------------
(***************************************************************************)
(* The state machine of the placement driver as an implementation of       *)
(* ReplicaSets.  The mapping forgets leaders, bootstrap, addresses, roles, *)
(* heartbeats and the order of a replica list; an id was given out when it *)
(* is below its counter.                                                   *)
(***************************************************************************)
EXTENDS PlacementFSM

Group(shard) == [members |-> Range(shard.replicas), epoch |-> shard.epoch]

Promise == INSTANCE ReplicaSets WITH
    WorkerIDs   <- 1..MaxWorkerID,
    ShardIDs    <- 1..MaxShardID,
    Limit       <- MaxReplicationFactor,
    registered  <- DOMAIN workers,
    draining    <- {w \in DOMAIN workers : workers[w].state = "draining"},
    usedWorkers <- 1..(nextWorkerID - 1),
    usedShards  <- 1..(nextShardID - 1),
    groups      <- [s \in DOMAIN shards |-> Group(shards[s])],
    version     <- assignmentsEpoch

\* Every command of FSM.Update does to workers, shards and epochs one thing that
\* ReplicaSets allows, or nothing it can see: ids are never given out twice, so that a
\* late command or report cannot be taken for another worker's or shard's; a member
\* list changes by one worker at a time and never below RF or above the limit; both
\* epochs rise with it by one; a draining worker is given nothing and stays draining.
KeepsPromise == Promise!Spec
=============================================================================
