------------------------------- MODULE PDReplicas -------------------------------
(***************************************************************************)
(* Two placement drivers that apply the same Raft log                      *)
(* (placementdriver/internal/raft, fsm): every copy of the state machine   *)
(* is PlacementFSM, fed by FSM.Update.  What a command does may depend on  *)
(* more than the log: whether a heartbeat is fresh is asked of the clock   *)
(* when the command is applied, and getWorkersSortedByLoad ranges over a   *)
(* Go map, so workers of equal load come in any order.  A placement driver *)
(* that restarts applies the log once more from the start (FSM.Open        *)
(* returns 0).                                                             *)
(*                                                                         *)
(* The leader applies an entry as soon as it is committed; the follower    *)
(* comes behind.                                                           *)
(***************************************************************************)
EXTENDS Naturals, Sequences

CONSTANTS
    Addrs, FailureDomain, Colls, RF, MaxReplicationFactor, MaxInitialShards,
    MaxWorkerID, MaxShardID, MaxAssignmentsEpoch,
    Kinds,        \* command types proposed, and "time" if heartbeats grow old
    MaxLog,       \* bound on the length of the log
    MaxRestarts   \* bound on the follower's restarts

VARIABLES
    log,          \* committed commands
    applied,      \* the follower has applied log[1] to log[applied]
    restarts,
    lWorkers, lFresh, lShards, lAssignmentsEpoch, lNextWorkerID, lNextShardID,
    fWorkers, fFresh, fShards, fAssignmentsEpoch, fNextWorkerID, fNextShardID

lVars == <<lWorkers, lFresh, lShards, lAssignmentsEpoch, lNextWorkerID, lNextShardID>>
fVars == <<fWorkers, fFresh, fShards, fAssignmentsEpoch, fNextWorkerID, fNextShardID>>
pdVars == <<log, applied, restarts, lVars, fVars>>

Leader == INSTANCE PlacementFSM WITH
    workers <- lWorkers, fresh <- lFresh, shards <- lShards,
    assignmentsEpoch <- lAssignmentsEpoch, nextWorkerID <- lNextWorkerID,
    nextShardID <- lNextShardID
Follower == INSTANCE PlacementFSM WITH
    workers <- fWorkers, fresh <- fFresh, shards <- fShards,
    assignmentsEpoch <- fAssignmentsEpoch, nextWorkerID <- fNextWorkerID,
    nextShardID <- fNextShardID

\* What the leader's handlers and loops propose, from what they read of its copy.
Command ==
    {c \in
        [type : {"RegisterWorker"}, addr : Addrs, role : {"write"}]
        \cup [type : {"UpdateWorkerHeartbeat", "UpdateWorkerState", "RemoveWorker"},
              worker : DOMAIN lWorkers]
        \cup [type : {"CreateCollection"}, coll : Colls, initialShards : {1}]
        \cup [type : {"DeleteCollection"}, coll : Colls]
        \cup [type : {"UpdateShardLeader"}, shard : DOMAIN lShards, leader : DOMAIN lWorkers]
        \cup [type : {"AddShardReplica", "RemoveShardReplica"},
              shard : DOMAIN lShards, worker : DOMAIN lWorkers]
     : c.type \in Kinds}

PDInit ==
    /\ log = <<>> /\ applied = 0 /\ restarts = 0
    /\ Leader!Init
    /\ Follower!Init

\* A command is committed and applied by the leader; one that is refused changes nothing.
LeaderApplies(c) ==
    /\ Len(log) < MaxLog
    /\ log' = Append(log, c)
    /\ Leader!Update(c) \/ (Leader!Refused(c) /\ UNCHANGED lVars)
    /\ UNCHANGED <<applied, restarts, fVars>>

FollowerApplies ==
    /\ applied < Len(log)
    /\ applied' = applied + 1
    /\ LET c == log[applied + 1]
       IN  Follower!Update(c) \/ (Follower!Refused(c) /\ UNCHANGED fVars)
    /\ UNCHANGED <<log, restarts, lVars>>

\* The copy is in memory: after a restart it starts from NewFSM again.
FollowerRestarts ==
    /\ restarts < MaxRestarts
    /\ restarts' = restarts + 1
    /\ applied' = 0
    /\ fWorkers' = <<>> /\ fFresh' = {} /\ fShards' = <<>>
    /\ fAssignmentsEpoch' = 1 /\ fNextWorkerID' = 1 /\ fNextShardID' = 1
    /\ UNCHANGED <<log, lVars>>

TimePasses ==
    /\ "time" \in Kinds
    /\ \/ \E w \in lFresh : Leader!HeartbeatExpires(w) /\ UNCHANGED fVars
       \/ \E w \in fFresh : Follower!HeartbeatExpires(w) /\ UNCHANGED lVars
    /\ UNCHANGED <<log, applied, restarts>>

PDNext ==
    \/ \E c \in Command : LeaderApplies(c)
    \/ FollowerApplies
    \/ FollowerRestarts
    \/ TimePasses

PDSpec == PDInit /\ [][PDNext]_pdVars

-----------------------------------------------------------------------------
(* Properties.                                                             *)

CaughtUp == applied = Len(log)

\* The copies agree on who the workers are, their roles and their states, once the
\* follower has caught up, whenever heartbeats were applied and in spite of replays:
\* what applyRegisterWorker, applyUpdateWorkerHeartbeat and applyUpdateWorkerState
\* store (but for the time of the heartbeat) comes from the log alone.
RegistryAgrees ==
    CaughtUp => fWorkers = lWorkers /\ fNextWorkerID = lNextWorkerID

\* The copies agree on where the shards are, and on the epoch that workers compare
\* assignments by.
CopiesAgree ==
    CaughtUp => fShards = lShards /\ fAssignmentsEpoch = lAssignmentsEpoch

===============================================================================
