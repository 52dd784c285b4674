------------------------------- MODULE ShardSync -------------------------------
(***************************************************************************)
(* How assignments reach the workers and become running replicas: the      *)
(* Heartbeat handler of the placement driver (server.go), the worker's     *)
(* client (worker/internal/pd) and its shard manager                       *)
(* (worker/internal/shard/manager.go), over the commands of PlacementFSM.  *)
(*                                                                         *)
(* A worker sends one heartbeat at a time.  The placement driver that gets *)
(* it proposes, then reads its own copy of the state machine, which lags   *)
(* when the proposal failed, first the shards and then the epoch.  The     *)
(* worker filters the answer by that epoch and hands it, over an           *)
(* unbuffered channel, to a second goroutine that synchronises its         *)
(* replicas: the next heartbeat overlaps with that work, and its answer    *)
(* waits for the end of it.                                                *)
(*                                                                         *)
(* A shard's Raft group (Dragonboat) is its set of voting nodes and its    *)
(* leader: a leader, and a change of the nodes, needs a majority of        *)
(* running nodes.                                                          *)
(***************************************************************************)
EXTENDS PlacementFSM, Integers

CONSTANTS
    PDs,               \* placement drivers
    InitialWorkers,    \* worker id -> WorkerInfo
    InitialReplicas,   \* shard id -> replica list
    Bootstrapped,      \* whether the shards start with running groups
    MovableShards,     \* shards whose replicas change
    Disturbances,      \* kinds of disturbance considered, and
    MaxDisturbances    \* how many of them

ASSUME SyncAssumption ==
    /\ Bootstrapped \in BOOLEAN
    /\ MaxDisturbances \in Nat
    /\ InitialWorkers \in Seq(WorkerInfo)
    /\ InitialReplicas \in Seq(Seq(DOMAIN InitialWorkers))
    /\ \A s \in DOMAIN InitialReplicas :
        IsInjective(InitialReplicas[s]) /\ Len(InitialReplicas[s]) \in 1..MaxReplicationFactor
    /\ Disturbances \subseteq {"add", "remove", "proposal", "lost", "restart", "membership",
                        "election"}

VARIABLES
    views,             \* placement driver -> its copy of shards and assignmentsEpoch
    heartbeat,         \* worker -> its heartbeat in progress
    syncing,           \* worker -> assignments SyncShards is at work on (<<>>: none)
    lastAssignmentsEpoch,  \* Client.lastAssignmentsEpoch, per worker
    runningReplicas,   \* Manager.runningReplicas, per worker
    shardEpochs,       \* Manager.shardEpochs, per worker and shard (0: none)
    shardDirs,         \* shards with a data directory, per worker
    group,             \* shard -> nodes, leader and the members nodes were bootstrapped with
    disturbances

workerVars == <<lastAssignmentsEpoch, runningReplicas, shardEpochs, shardDirs>>
syncVars == <<views, heartbeat, syncing, workerVars, group, disturbances>>
allVars == <<vars, syncVars>>

Workers == DOMAIN InitialWorkers
ShardIDs == DOMAIN InitialReplicas

NoHeartbeat == [phase |-> "idle", assignments |-> <<>>, epoch |-> 0]

\* What a heartbeat is answered from.
Copy(sh) ==
    [shards |-> [s \in DOMAIN sh |->
                   [epoch |-> sh[s].epoch, replicas |-> Range(sh[s].replicas),
                    bootstrap |-> IF sh[s].bootstrapped THEN {}
                                  ELSE Range(sh[s].bootstrapMembers)]],
     epoch |-> assignmentsEpoch]

\* A list longer than RF has had replicas added since the collection was created: their
\* places in it.
Additions(s) == (RF + 1)..Len(InitialReplicas[s])
AllAdditions == {a \in ShardIDs \X (1..MaxReplicationFactor) : a[2] \in Additions(a[1])}

SyncInit ==
    /\ workers = InitialWorkers
    /\ fresh = Workers
    /\ \E c \in Colls :
        shards = [s \in ShardIDs |->
                    IF Bootstrapped
                    THEN [NewShard(c, InitialReplicas[s]) EXCEPT
                            !.leader = InitialReplicas[s][1], !.bootstrapped = TRUE,
                            !.bootstrapMembers = <<>>, !.epoch = 1 + Cardinality(Additions(s))]
                    ELSE NewShard(c, InitialReplicas[s])]
    /\ assignmentsEpoch = 2 + Cardinality(AllAdditions)
    /\ nextWorkerID = Cardinality(Workers) + 1
    /\ nextShardID = Cardinality(ShardIDs) + 1
    /\ views = [p \in PDs |-> Copy(shards)]
    /\ heartbeat = [w \in Workers |-> NoHeartbeat]
    /\ syncing = [w \in Workers |-> <<>>]
    /\ lastAssignmentsEpoch = [w \in Workers |-> IF Bootstrapped THEN assignmentsEpoch ELSE 0]
    /\ runningReplicas = [w \in Workers |-> IF Bootstrapped THEN GetShardsOnWorker(w) ELSE {}]
    /\ shardEpochs = [w \in Workers |-> [s \in ShardIDs |->
                        IF s \in runningReplicas[w] THEN shards[s].epoch ELSE 0]]
    /\ shardDirs = runningReplicas
    /\ group = [s \in ShardIDs |->
                 [nodes |-> IF Bootstrapped THEN Range(InitialReplicas[s]) ELSE {},
                  leader |-> IF Bootstrapped THEN InitialReplicas[s][1] ELSE 0,
                  initialMembers |-> <<>>]]
    /\ disturbances = 0

Disturb(kind) ==
    /\ kind \in Disturbances
    /\ disturbances < MaxDisturbances
    /\ disturbances' = disturbances + 1

-----------------------------------------------------------------------------
(* The placement driver.                                                   *)

\* The reconciler or the rebalancer adds a replica.
ReplicaAdded(s, w) ==
    /\ AddShardReplica(s, w)
    /\ Disturb("add")
    /\ UNCHANGED <<views, heartbeat, syncing, workerVars, group>>

\* The rebalancer removes one, having seen the others in the group.
ReplicaRemoved(s, w) ==
    /\ Range(shards[s].replicas) \subseteq group[s].nodes
    /\ RemoveShardReplica(s, w)
    /\ Disturb("remove")
    /\ UNCHANGED <<views, heartbeat, syncing, workerVars, group>>

\* A placement driver applies what has been committed.
CatchUp(p) ==
    /\ views[p] # Copy(shards)
    /\ views' = [views EXCEPT ![p] = Copy(shards)]
    /\ UNCHANGED <<vars, heartbeat, syncing, workerVars, group, disturbances>>

\* What Heartbeat tells w about its shards: the members a replica may be started
\* with are the shard's replicas, and it is to bootstrap while it is one of the
\* bootstrap members.
Assignments(view, w) ==
    [s \in {s \in DOMAIN view.shards : w \in view.shards[s].replicas} |->
        [epoch |-> view.shards[s].epoch, replicas |-> view.shards[s].replicas,
         bootstrap |-> w \in view.shards[s].bootstrap]]

\* Heartbeat: the leaders of w's shards are proposed, and the assignments read.  A
\* proposal that fails is only logged, and the copy stays as old as it was.
HandleHeartbeat(p, w, ok) ==
    /\ heartbeat[w].phase = "idle"
    /\ IF ok
       THEN /\ shards' = [s \in DOMAIN shards |->
                            IF s \in runningReplicas[w] /\ Holds(s, w)
                            THEN LeaderReported(shards[s], group[s].leader)
                            ELSE shards[s]]
            /\ views' = [views EXCEPT ![p] = Copy(shards')]
            /\ UNCHANGED disturbances
       ELSE /\ Disturb("proposal")
            /\ UNCHANGED <<shards, views>>
    /\ heartbeat' = [heartbeat EXCEPT ![w] =
           [phase |-> "read", pd |-> p, assignments |-> Assignments(views'[p], w),
            epoch |-> 0]]
    /\ UNCHANGED <<workers, fresh, assignmentsEpoch, nextWorkerID, nextShardID,
                   syncing, workerVars, group>>

\* Mutant: off by one in the epoch.
AnswerHeartbeat_Next(w) ==
    /\ heartbeat[w].phase = "read"
    /\ heartbeat' = [heartbeat EXCEPT ![w].phase = "answered",
                                      ![w].epoch = views[heartbeat[w].pd].epoch + 1]
    /\ UNCHANGED <<vars, views, syncing, workerVars, group, disturbances>>

\* The end of Heartbeat: GetAssignmentsEpoch, a second read of the copy.
AnswerHeartbeat(w) ==
    /\ heartbeat[w].phase = "read"
    /\ heartbeat' = [heartbeat EXCEPT ![w].phase = "answered",
                                      ![w].epoch = views[heartbeat[w].pd].epoch]
    /\ UNCHANGED <<vars, views, syncing, workerVars, group, disturbances>>

-----------------------------------------------------------------------------
(* The worker.                                                             *)

\* Mutant: an answer must be newer than the last one.
Ignores_NotNewer(w) ==
    \/ heartbeat[w].epoch <= lastAssignmentsEpoch[w]
    \/ heartbeat[w].assignments = <<>>

\* sendHeartbeat: an answer older than the last one is ignored, and one without
\* assignments never gets to the shard manager.
Ignores(w) ==
    \/ heartbeat[w].epoch < lastAssignmentsEpoch[w]
    \/ heartbeat[w].assignments = <<>>

IgnoreAnswer(w) ==
    /\ heartbeat[w].phase = "answered"
    /\ Ignores(w)
    /\ heartbeat' = [heartbeat EXCEPT ![w] = NoHeartbeat]
    /\ lastAssignmentsEpoch' = [lastAssignmentsEpoch EXCEPT ![w] = Max({@, heartbeat[w].epoch})]
    /\ UNCHANGED <<vars, views, syncing, runningReplicas, shardEpochs, shardDirs, group,
                   disturbances>>

\* Mutant: a shard with a data directory counts as started.
SyncShards_SkipsData(w) ==
    LET desired == heartbeat[w].assignments
        toStop == runningReplicas[w] \ DOMAIN desired
        toStart == DOMAIN desired \ (runningReplicas[w] \cup shardDirs[w])
        bootstrapping == {s \in toStart : desired[s].bootstrap}
    IN  /\ heartbeat[w].phase = "answered"
        /\ ~ Ignores(w)
        /\ syncing[w] = <<>>
        /\ lastAssignmentsEpoch' = [lastAssignmentsEpoch EXCEPT ![w] = heartbeat[w].epoch]
        /\ shardEpochs' = [shardEpochs EXCEPT ![w] =
               [s \in ShardIDs |-> IF s \in DOMAIN desired /\ desired[s].epoch > @[s]
                                   THEN desired[s].epoch ELSE @[s]]]
        /\ runningReplicas' = [runningReplicas EXCEPT ![w] = (@ \ toStop) \cup toStart]
        /\ shardDirs' = [shardDirs EXCEPT ![w] = (@ \ toStop) \cup toStart]
        /\ group' = [s \in ShardIDs |->
               IF s \in bootstrapping
               THEN [group[s] EXCEPT
                       !.nodes = IF @ = {} THEN desired[s].replicas ELSE @,
                       !.initialMembers = Put(@, w, desired[s].replicas)]
               ELSE group[s]]
        /\ syncing' = [syncing EXCEPT ![w] = desired]
        /\ heartbeat' = [heartbeat EXCEPT ![w] = NoHeartbeat]
        /\ UNCHANGED <<vars, views, disturbances>>

\* The answer is handed over and SyncShards runs up to its membership phase: replicas
\* that are no longer assigned are stopped and their data deleted, missing ones
\* started.  A replica told to bootstrap starts a group of all the members it is
\* given; the others restart from their data or join.
SyncShards(w) ==
    LET desired == heartbeat[w].assignments
        toStop == runningReplicas[w] \ DOMAIN desired
        toStart == DOMAIN desired \ runningReplicas[w]
        bootstrapping == {s \in toStart : desired[s].bootstrap}
    IN  /\ heartbeat[w].phase = "answered"
        /\ ~ Ignores(w)
        /\ syncing[w] = <<>>
        /\ lastAssignmentsEpoch' = [lastAssignmentsEpoch EXCEPT ![w] = heartbeat[w].epoch]
        /\ shardEpochs' = [shardEpochs EXCEPT ![w] =
               [s \in ShardIDs |-> IF s \in DOMAIN desired /\ desired[s].epoch > @[s]
                                   THEN desired[s].epoch ELSE @[s]]]
        /\ runningReplicas' = [runningReplicas EXCEPT ![w] = (@ \ toStop) \cup toStart]
        /\ shardDirs' = [shardDirs EXCEPT ![w] = (@ \ toStop) \cup toStart]
        /\ group' = [s \in ShardIDs |->
               IF s \in bootstrapping
               THEN [group[s] EXCEPT
                       !.nodes = IF @ = {} THEN desired[s].replicas ELSE @,
                       !.initialMembers = Put(@, w, desired[s].replicas)]
               ELSE group[s]]
        /\ syncing' = [syncing EXCEPT ![w] = desired]
        /\ heartbeat' = [heartbeat EXCEPT ![w] = NoHeartbeat]
        /\ UNCHANGED <<vars, views, disturbances>>

RunningNodes(s) == {w \in group[s].nodes : s \in runningReplicas[w]}
HasQuorum(s) == 2 * Cardinality(RunningNodes(s)) > Cardinality(group[s].nodes)

\* Mutant: the assignment must be newer than what the worker knows.
Reconciles_Newer(w, s) ==
    /\ s \in DOMAIN syncing[w]
    /\ syncing[w][s].epoch > shardEpochs[w][s]
    /\ group[s].leader = w
    /\ w \in RunningNodes(s) /\ HasQuorum(s)

\* reconcileMembership acts on shard s: w leads the group, and what it was told is
\* not older than what it knows.
Reconciles(w, s) ==
    /\ s \in DOMAIN syncing[w]
    /\ syncing[w][s].epoch >= shardEpochs[w][s]
    /\ group[s].leader = w
    /\ w \in RunningNodes(s) /\ HasQuorum(s)

Missing(w, s) == syncing[w][s].replicas \ group[s].nodes
Surplus(w, s) == group[s].nodes \ syncing[w][s].replicas

\* requestAddNode and requestDeleteNode; every missing node comes first.
AddNode(w, s, n) ==
    /\ Reconciles(w, s)
    /\ n \in Missing(w, s)
    /\ group' = [group EXCEPT ![s].nodes = @ \cup {n}]
    /\ UNCHANGED <<vars, views, heartbeat, syncing, workerVars, disturbances>>

DeleteNode(w, s, n) ==
    /\ Reconciles(w, s)
    /\ Missing(w, s) = {}
    /\ n \in Surplus(w, s)
    /\ group' = [group EXCEPT ![s].nodes = @ \ {n}]
    /\ UNCHANGED <<vars, views, heartbeat, syncing, workerVars, disturbances>>

\* The membership phase is over, with nothing left to do or after an error.
SyncEnds(w) ==
    /\ syncing[w] # <<>>
    /\ syncing' = [syncing EXCEPT ![w] = <<>>]
    /\ IF \E s \in ShardIDs : Reconciles(w, s) /\ Missing(w, s) \cup Surplus(w, s) # {}
       THEN Disturb("membership")
       ELSE UNCHANGED disturbances
    /\ UNCHANGED <<vars, views, heartbeat, workerVars, group>>

\* The answer to a heartbeat is lost on its way.
LoseAnswer(w) ==
    /\ heartbeat[w].phase = "answered"
    /\ heartbeat' = [heartbeat EXCEPT ![w] = NoHeartbeat]
    /\ Disturb("lost")
    /\ UNCHANGED <<vars, views, syncing, workerVars, group>>

\* The process restarts: only the data directories are left, and the placement
\* driver's answer, if any, is lost.
WorkerRestarts(w) ==
    /\ runningReplicas' = [runningReplicas EXCEPT ![w] = {}]
    /\ lastAssignmentsEpoch' = [lastAssignmentsEpoch EXCEPT ![w] = 0]
    /\ shardEpochs' = [shardEpochs EXCEPT ![w] = [s \in ShardIDs |-> 0]]
    /\ heartbeat' = [heartbeat EXCEPT ![w] = NoHeartbeat]
    /\ syncing' = [syncing EXCEPT ![w] = <<>>]
    /\ Disturb("restart")
    /\ UNCHANGED <<vars, views, shardDirs, group>>

-----------------------------------------------------------------------------
(* Raft groups of shards.                                                  *)

\* A leader that has stopped or lost its quorum is replaced; leadership may also
\* move without that.
Elect(s, l) ==
    /\ l \in RunningNodes(s) /\ HasQuorum(s)
    /\ group[s].leader # l
    /\ IF group[s].leader \in RunningNodes(s)
       THEN Disturb("election")
       ELSE UNCHANGED disturbances
    /\ group' = [group EXCEPT ![s].leader = l]
    /\ UNCHANGED <<vars, views, heartbeat, syncing, workerVars>>

LeaderLost(s) ==
    /\ group[s].leader # 0
    /\ group[s].leader \notin RunningNodes(s) \/ ~ HasQuorum(s)
    /\ group' = [group EXCEPT ![s].leader = 0]
    /\ UNCHANGED <<vars, views, heartbeat, syncing, workerVars, disturbances>>

WorkerStep(w) ==
    \/ AnswerHeartbeat(w)
    \/ IgnoreAnswer(w)
    \/ SyncShards(w)
    \/ \E s \in ShardIDs, n \in Workers : AddNode(w, s, n) \/ DeleteNode(w, s, n)

SyncNext ==
    \/ \E w \in Workers :
        \/ \E p \in PDs, ok \in BOOLEAN : HandleHeartbeat(p, w, ok)
        \/ WorkerStep(w)
        \/ SyncEnds(w)
        \/ LoseAnswer(w)
        \/ WorkerRestarts(w)
    \/ \E s \in MovableShards, w \in Workers : ReplicaAdded(s, w) \/ ReplicaRemoved(s, w)
    \/ \E p \in PDs : CatchUp(p)
    \/ \E s \in ShardIDs : LeaderLost(s) \/ \E l \in Workers : Elect(s, l)

\* Heartbeats are sent for ever, some proposals of them succeed, placement drivers
\* catch up, and a group with a quorum elects a leader.
SyncFairness ==
    /\ \A w \in Workers :
        /\ WF_allVars(\E p \in PDs : HandleHeartbeat(p, w, TRUE))
        /\ WF_allVars(WorkerStep(w))
        /\ WF_allVars(SyncEnds(w) /\ UNCHANGED disturbances)
    /\ \A p \in PDs : WF_allVars(CatchUp(p))
    /\ \A s \in ShardIDs :
        WF_allVars(group[s].leader \notin RunningNodes(s) /\ \E l \in Workers : Elect(s, l))

SyncSpec == SyncInit /\ [][SyncNext]_allVars
FairSyncSpec == SyncSpec /\ SyncFairness

-----------------------------------------------------------------------------
(* Properties.                                                             *)

\* The workers' state is well formed: a running replica has a data directory, and
\* what a worker knows of epochs was handed out by the placement driver.
SyncTypeOK ==
    /\ \A w \in Workers :
        /\ runningReplicas[w] \subseteq shardDirs[w]
        /\ shardDirs[w] \subseteq ShardIDs
        /\ lastAssignmentsEpoch[w] \in 0..assignmentsEpoch
        /\ \A s \in ShardIDs : shardEpochs[w][s] \in 0..shards[s].epoch
    /\ \A s \in ShardIDs : group[s].leader \in group[s].nodes \cup {0}

\* Assignments arrive: once the placement driver leaves a shard's replicas alone,
\* every worker with some assignment runs exactly what it is assigned, in spite of
\* answers that lag or pair old assignments with a new epoch.
AssignmentsArrive ==
    <>[](\A w \in Workers :
            GetShardsOnWorker(w) # {} => runningReplicas[w] = GetShardsOnWorker(w))

\* The group follows: in the end its nodes are the shard's replicas, those of a
\* group aside whose leader has lost its last assignment and is told nothing more.
MembershipFollows ==
    <>[](\A s \in ShardIDs : GetShardsOnWorker(group[s].leader) # {} =>
            group[s].nodes = Range(shards[s].replicas))

\* A shard is never without a leader for ever: the placement driver takes away no
\* replica that the group's majority still depends on.
ShardStaysAvailable ==
    \A s \in ShardIDs : []<>(group[s].leader \in RunningNodes(s) /\ HasQuorum(s))

\* All members of a group are bootstrapped with the same initial members.
OneBootstrap ==
    \A s \in ShardIDs : \A v, w \in DOMAIN group[s].initialMembers :
        group[s].initialMembers[v] = group[s].initialMembers[w]

===============================================================================
