----------------------------- MODULE PlacementFSM -----------------------------
(***************************************************************************)
(* The placement driver's replicated state machine                        *)
(* (placementdriver/internal/fsm): the registry of workers, the shards of  *)
(* every collection with their replica lists, and the two kinds of epoch   *)
(* that tell workers which assignment is the newer one.                    *)
(*                                                                         *)
(* One action stands for one command of FSM.Update.  A command the code    *)
(* answers with an error changes nothing; here it is simply not enabled.   *)
(* Wall-clock time enters the code only through time.Since(LastHeartbeat), *)
(* so the model keeps the set of workers whose heartbeat is fresh, that is *)
(* younger than WorkerTimeout; time takes a worker out of it.              *)
(* Load and capacity metrics only order the candidate workers of a new     *)
(* collection; the order is left open.                                     *)
(***************************************************************************)
EXTENDS Naturals, Sequences, FiniteSets, SequencesExt

CONSTANTS
    Addrs,                 \* network addresses of worker processes
    FailureDomain,         \* address -> <<zone, rack>>
    Colls,                 \* collection names
    RF,                    \* ReplicationFactor()
    MaxReplicationFactor,  \* hard limit on a replica list
    MaxInitialShards,      \* largest InitialShards of a CreateCollection
    MaxWorkerID,           \* bounds of the model on the three counters
    MaxShardID,
    MaxAssignmentsEpoch

ASSUME FSMAssumption ==
    /\ RF \in Nat \ {0}
    /\ MaxReplicationFactor \in Nat
    /\ RF <= MaxReplicationFactor
    /\ MaxInitialShards \in Nat \ {0}
    /\ MaxWorkerID \in Nat /\ MaxShardID \in Nat /\ MaxAssignmentsEpoch \in Nat

VARIABLES
    workers,           \* FSM.Workers: worker id -> WorkerInfo
    fresh,             \* workers with time.Since(LastHeartbeat) < WorkerTimeout
    shards,            \* FSM.Collections, flattened: shard id -> ShardInfo
    assignmentsEpoch,  \* FSM.AssignmentsEpoch
    nextWorkerID,      \* FSM.NextWorkerID
    nextShardID        \* FSM.NextShardID

vars == <<workers, fresh, shards, assignmentsEpoch, nextWorkerID, nextShardID>>

WorkerState == {"joining", "ready", "draining"}
Role == {"write", "search_only"}

WorkerInfo == [addr : Addrs, state : WorkerState, role : Role]

\* A leader id of 0 means that no leader is known.
ShardInfo == [coll : Colls, replicas : Seq(Nat), leader : Nat, epoch : Nat,
              bootstrapped : BOOLEAN, bootstrapMembers : Seq(Nat)]

Put(f, k, v) == [x \in DOMAIN f \cup {k} |-> IF x = k THEN v ELSE f[x]]
Drop(f, S) == [x \in DOMAIN f \ S |-> f[x]]

Init ==
    /\ workers = <<>>
    /\ fresh = {}
    /\ shards = <<>>
    /\ assignmentsEpoch = 1
    /\ nextWorkerID = 1
    /\ nextShardID = 1

-----------------------------------------------------------------------------
(* Queries.                                                                *)

IsWorkerHealthy(w) ==
    w \in DOMAIN workers /\ workers[w].state = "ready" /\ w \in fresh

IsWorkerEligibleForPlacement(w) ==
    IsWorkerHealthy(w) /\ workers[w].role # "search_only"

Eligible == {w \in DOMAIN workers : IsWorkerEligibleForPlacement(w)}

Holds(s, w) == w \in Range(shards[s].replicas)

GetShardsOnWorker(w) == {s \in DOMAIN shards : Holds(s, w)}

HealthyReplicas(s) == {w \in Range(shards[s].replicas) : IsWorkerHealthy(w)}

Zone(w) == FailureDomain[workers[w].addr][1]
Rack(w) == FailureDomain[workers[w].addr]

\* What selectReplicasWithFailureDomain can return for n replicas, over all the
\* orders in which getWorkersSortedByLoad may list the candidates: first workers
\* of pairwise different zones, then of new racks, then any others; a pass is
\* left early only when n workers have been picked.
PlacementChoices(candidates, n) ==
    {r \in [1..n -> candidates] :
        /\ IsInjective(r)
        /\ \E k \in 0..n : \E m \in k..n :
            /\ \A i, j \in 1..k : i # j => Zone(r[i]) # Zone(r[j])
            /\ k < n => \A w \in candidates : \E i \in 1..k : Zone(w) = Zone(r[i])
            /\ \A i \in (k+1)..m : \A j \in 1..(i-1) : Rack(r[i]) # Rack(r[j])
            /\ m < n => \A w \in candidates : \E i \in 1..m : Rack(w) = Rack(r[i])}

-----------------------------------------------------------------------------
(* Worker commands.                                                        *)

\* Mutant: re-registration restarts the life cycle.
ReRegisterWorker_ResetsState(a, role) ==
    \E w \in DOMAIN workers :
        /\ workers[w].addr = a
        /\ workers' = [workers EXCEPT ![w].role = role, ![w].state = "joining"]
        /\ fresh' = fresh \cup {w}
        /\ UNCHANGED <<shards, assignmentsEpoch, nextWorkerID, nextShardID>>

\* applyRegisterWorker, addresses already known: the worker keeps its id and its
\* state (a draining worker goes on draining); role and heartbeat are refreshed.
ReRegisterWorker(a, role) ==
    \E w \in DOMAIN workers :
        /\ workers[w].addr = a
        /\ workers' = [workers EXCEPT ![w].role = role]
        /\ fresh' = fresh \cup {w}
        /\ UNCHANGED <<shards, assignmentsEpoch, nextWorkerID, nextShardID>>

\* Mutants: the counter is not advanced; the smallest free id is taken.
RegisterNewWorker_KeepsCounter(a, role) ==
    /\ nextWorkerID <= MaxWorkerID
    /\ \A w \in DOMAIN workers : workers[w].addr # a
    /\ workers' = Put(workers, nextWorkerID, [addr |-> a, state |-> "joining", role |-> role])
    /\ fresh' = fresh \cup {nextWorkerID}
    /\ UNCHANGED <<shards, assignmentsEpoch, nextWorkerID, nextShardID>>

RegisterNewWorker_ReusesId(a, role) ==
    LET id == Min((1..nextWorkerID) \ DOMAIN workers)
    IN  /\ nextWorkerID <= MaxWorkerID
        /\ \A w \in DOMAIN workers : workers[w].addr # a
        /\ workers' = Put(workers, id, [addr |-> a, state |-> "joining", role |-> role])
        /\ fresh' = fresh \cup {id}
        /\ nextWorkerID' = nextWorkerID + 1
        /\ UNCHANGED <<shards, assignmentsEpoch, nextShardID>>

\* applyRegisterWorker, new addresses: a new id, waiting for its first heartbeat.
RegisterNewWorker(a, role) ==
    /\ nextWorkerID <= MaxWorkerID
    /\ \A w \in DOMAIN workers : workers[w].addr # a
    /\ workers' = Put(workers, nextWorkerID, [addr |-> a, state |-> "joining", role |-> role])
    /\ fresh' = fresh \cup {nextWorkerID}
    /\ nextWorkerID' = nextWorkerID + 1
    /\ UNCHANGED <<shards, assignmentsEpoch, nextShardID>>

\* Mutant: a late heartbeat does not make a worker ready.
UpdateWorkerHeartbeat_Late(w) ==
    /\ w \in DOMAIN workers
    /\ workers' = [workers EXCEPT ![w].state = IF @ = "joining" /\ w \in fresh THEN "ready" ELSE @]
    /\ fresh' = fresh \cup {w}
    /\ UNCHANGED <<shards, assignmentsEpoch, nextWorkerID, nextShardID>>

\* applyUpdateWorkerHeartbeat.
UpdateWorkerHeartbeat(w) ==
    /\ w \in DOMAIN workers
    /\ workers' = [workers EXCEPT ![w].state = IF @ = "joining" THEN "ready" ELSE @]
    /\ fresh' = fresh \cup {w}
    /\ UNCHANGED <<shards, assignmentsEpoch, nextWorkerID, nextShardID>>

\* applyUpdateWorkerState; the only state a caller sends is draining.
UpdateWorkerState(w) ==
    /\ w \in DOMAIN workers
    /\ workers' = [workers EXCEPT ![w].state = "draining"]
    /\ UNCHANGED <<fresh, shards, assignmentsEpoch, nextWorkerID, nextShardID>>

\* Mutant: no shard check.
RemoveWorker_Unchecked(w) ==
    /\ w \in DOMAIN workers
    /\ workers' = Drop(workers, {w})
    /\ fresh' = fresh \ {w}
    /\ UNCHANGED <<shards, assignmentsEpoch, nextWorkerID, nextShardID>>

\* applyRemoveWorker: refused while a shard still lists the worker.
RemoveWorker(w) ==
    /\ w \in DOMAIN workers
    /\ GetShardsOnWorker(w) = {}
    /\ workers' = Drop(workers, {w})
    /\ fresh' = fresh \ {w}
    /\ UNCHANGED <<shards, assignmentsEpoch, nextWorkerID, nextShardID>>

-----------------------------------------------------------------------------
(* Collection and shard commands.                                          *)

\* bumpAssignmentsEpochLocked (the 64-bit wrap to 1 is out of reach).
BumpAssignmentsEpoch ==
    /\ assignmentsEpoch < MaxAssignmentsEpoch
    /\ assignmentsEpoch' = assignmentsEpoch + 1

ActualReplication ==
    IF Cardinality(Eligible) < RF THEN Cardinality(Eligible) ELSE RF

NewShard(c, replicas) ==
    [coll |-> c, replicas |-> replicas, leader |-> 0, epoch |-> 1,
     bootstrapped |-> FALSE, bootstrapMembers |-> replicas]

\* applyCreateCollection: every shard of the collection gets the same replica
\* list, as long as min(RF, eligible workers).
CreateCollection(c, numShards) ==
    /\ nextShardID + numShards <= MaxShardID + 1
    /\ \A s \in DOMAIN shards : shards[s].coll # c
    /\ Eligible # {}
    /\ \E replicas \in PlacementChoices(Eligible, ActualReplication) :
        shards' = [s \in DOMAIN shards \cup nextShardID..(nextShardID + numShards - 1) |->
                      IF s \in DOMAIN shards THEN shards[s] ELSE NewShard(c, replicas)]
    /\ nextShardID' = nextShardID + numShards
    /\ BumpAssignmentsEpoch
    /\ UNCHANGED <<workers, fresh, nextWorkerID>>

\* applyDeleteCollection.
DeleteCollection(c) ==
    /\ \E s \in DOMAIN shards : shards[s].coll = c
    /\ shards' = Drop(shards, {s \in DOMAIN shards : shards[s].coll = c})
    /\ BumpAssignmentsEpoch
    /\ UNCHANGED <<workers, fresh, nextWorkerID, nextShardID>>

\* Mutant: the bootstrap members are not cleared.
UpdateShardLeader_KeepsMembers(s, l) ==
    /\ s \in DOMAIN shards
    /\ shards' = [shards EXCEPT ![s].leader = l, ![s].bootstrapped = @ \/ l # 0]
    /\ UNCHANGED <<workers, fresh, assignmentsEpoch, nextWorkerID, nextShardID>>

\* A shard with the reported leader id, stored as it is; the first known leader ends
\* the shard's bootstrap.
LeaderReported(shard, l) ==
    [shard EXCEPT !.leader = l, !.bootstrapped = @ \/ l # 0,
                  !.bootstrapMembers = IF l # 0 THEN <<>> ELSE @]

\* applyUpdateShardLeader.
UpdateShardLeader(s, l) ==
    /\ s \in DOMAIN shards
    /\ shards' = [shards EXCEPT ![s] = LeaderReported(@, l)]
    /\ UNCHANGED <<workers, fresh, assignmentsEpoch, nextWorkerID, nextShardID>>

\* Mutant: only the shard's own epoch is raised.
SetReplicas_NoBump(s, replicas) ==
    /\ shards' = [shards EXCEPT ![s].replicas = replicas, ![s].epoch = @ + 1]
    /\ UNCHANGED <<workers, fresh, assignmentsEpoch, nextWorkerID, nextShardID>>

\* The tail shared by the two replica commands: new list, new epochs.
SetReplicas(s, replicas) ==
    /\ shards' = [shards EXCEPT ![s].replicas = replicas, ![s].epoch = @ + 1]
    /\ BumpAssignmentsEpoch
    /\ UNCHANGED <<workers, fresh, nextWorkerID, nextShardID>>

\* Mutant: no check that the worker is already listed.
AddShardReplica_Repeats(s, w) ==
    /\ s \in DOMAIN shards
    /\ IsWorkerHealthy(w)
    /\ Len(shards[s].replicas) < MaxReplicationFactor
    /\ SetReplicas(s, Append(shards[s].replicas, w))

\* applyAddShardReplica: adding a replica twice is a silent no-op.
AddShardReplica(s, w) ==
    /\ s \in DOMAIN shards
    /\ IsWorkerHealthy(w)
    /\ ~ Holds(s, w)
    /\ Len(shards[s].replicas) < MaxReplicationFactor
    /\ SetReplicas(s, Append(shards[s].replicas, w))

\* Mutant: off by one in the minimum.
RemoveShardReplica_OffByOne(s, w) ==
    /\ s \in DOMAIN shards
    /\ Len(shards[s].replicas) >= RF
    /\ \E i \in 1..Len(shards[s].replicas) :
        /\ shards[s].replicas[i] = w
        /\ SetReplicas(s, RemoveAt(shards[s].replicas, i))

\* applyRemoveShardReplica: only while more than RF replicas are listed.
RemoveShardReplica(s, w) ==
    /\ s \in DOMAIN shards
    /\ Len(shards[s].replicas) > RF
    /\ \E i \in 1..Len(shards[s].replicas) :
        /\ shards[s].replicas[i] = w
        /\ \A j \in 1..(i-1) : shards[s].replicas[j] # w
        /\ SetReplicas(s, RemoveAt(shards[s].replicas, i))

\* Time passes without a heartbeat of w.
HeartbeatExpires(w) ==
    /\ w \in fresh
    /\ fresh' = fresh \ {w}
    /\ UNCHANGED <<workers, shards, assignmentsEpoch, nextWorkerID, nextShardID>>

\* Update, one log entry: the command is dispatched on its type.
Update(c) ==
    \/ /\ c.type = "RegisterWorker"
       /\ ReRegisterWorker(c.addr, c.role) \/ RegisterNewWorker(c.addr, c.role)
    \/ c.type = "UpdateWorkerHeartbeat" /\ UpdateWorkerHeartbeat(c.worker)
    \/ c.type = "UpdateWorkerState" /\ UpdateWorkerState(c.worker)
    \/ c.type = "RemoveWorker" /\ RemoveWorker(c.worker)
    \/ c.type = "CreateCollection" /\ CreateCollection(c.coll, c.initialShards)
    \/ c.type = "DeleteCollection" /\ DeleteCollection(c.coll)
    \/ c.type = "UpdateShardLeader" /\ UpdateShardLeader(c.shard, c.leader)
    \/ c.type = "AddShardReplica" /\ AddShardReplica(c.shard, c.worker)
    \/ c.type = "RemoveShardReplica" /\ RemoveShardReplica(c.shard, c.worker)

\* The command is answered with an error, or is a silent no-op.  (A registration never
\* is, but for the bound on the ids.)
Refused(c) ==
    CASE c.type = "RegisterWorker" ->
             ~ (nextWorkerID <= MaxWorkerID) /\ \A w \in DOMAIN workers : workers[w].addr # c.addr
      [] c.type \in {"UpdateWorkerHeartbeat", "UpdateWorkerState"} -> c.worker \notin DOMAIN workers
      [] OTHER -> ~ ENABLED Update(c)

Next ==
    \/ \E a \in Addrs, role \in Role :
        ReRegisterWorker(a, role) \/ RegisterNewWorker(a, role)
    \/ \E w \in DOMAIN workers :
        \/ UpdateWorkerHeartbeat(w)
        \/ UpdateWorkerState(w)
        \/ RemoveWorker(w)
        \/ HeartbeatExpires(w)
    \/ \E c \in Colls :
        \/ \E numShards \in 1..MaxInitialShards : CreateCollection(c, numShards)
        \/ DeleteCollection(c)
    \/ \E s \in DOMAIN shards :
        \/ \E l \in 0..(nextWorkerID - 1) : UpdateShardLeader(s, l)
        \/ \E w \in DOMAIN workers : AddShardReplica(s, w) \/ RemoveShardReplica(s, w)

Spec == Init /\ [][Next]_vars

-----------------------------------------------------------------------------
(* Properties.                                                             *)

\* The state is well formed: every id below its counter.
TypeOK ==
    /\ assignmentsEpoch \in Nat \ {0}
    /\ nextWorkerID \in Nat \ {0}
    /\ nextShardID \in Nat \ {0}
    /\ DOMAIN workers \subseteq 1..(nextWorkerID - 1)
    /\ workers \in [DOMAIN workers -> WorkerInfo]
    /\ fresh \subseteq DOMAIN workers
    /\ DOMAIN shards \subseteq 1..(nextShardID - 1)
    /\ shards \in [DOMAIN shards -> ShardInfo]

\* Every replica of every shard is a registered worker: AddShardReplica and
\* CreateCollection admit only registered ones and RemoveWorker lets none go that
\* a shard still lists.  Heartbeat builds a shard's member addresses from the
\* registry and silently leaves out a replica it does not find there.
ReplicasRegistered ==
    \A s \in DOMAIN shards : Range(shards[s].replicas) \subseteq DOMAIN workers

\* A replica list names every worker once, is never empty and never longer than
\* the limit: counts of replicas (health checks, the removal guard) count workers.
ReplicaListsSound ==
    \A s \in DOMAIN shards :
        /\ IsInjective(shards[s].replicas)
        /\ Len(shards[s].replicas) \in 1..MaxReplicationFactor

\* Bootstrap is a latch: a shard is waiting for its bootstrap exactly while it
\* has bootstrap members, and a shard with a known leader has left it, so
\* Heartbeat cannot tell a worker to bootstrap a group that is already running.
BootstrapLatch ==
    \A s \in DOMAIN shards :
        /\ shards[s].bootstrapped <=> shards[s].bootstrapMembers = <<>>
        /\ shards[s].leader # 0 => shards[s].bootstrapped

Assignment == [s \in DOMAIN shards |-> shards[s].replicas]

\* Epochs order assignments: a step that changes which worker holds which shard
\* raises AssignmentsEpoch, and a surviving shard's own Epoch rises exactly when
\* its replica list changes.  Workers drop heartbeat answers with an older
\* AssignmentsEpoch and membership changes with an older shard Epoch.
EpochsOrderAssignments ==
    [][/\ Assignment' # Assignment => assignmentsEpoch' > assignmentsEpoch
       /\ \A s \in DOMAIN shards \cap DOMAIN shards' :
            IF shards'[s].replicas = shards[s].replicas
            THEN shards'[s].epoch = shards[s].epoch
            ELSE shards'[s].epoch > shards[s].epoch]_vars

\* Draining is one-way and monotone: until it is removed a draining worker stays
\* draining (heartbeats and re-registration included) and gains no shard.
DrainOnlyShrinks ==
    [][\A w \in DOMAIN workers \cap DOMAIN workers' :
        workers[w].state = "draining" =>
            /\ workers'[w].state = "draining"
            /\ GetShardsOnWorker(w)' \subseteq GetShardsOnWorker(w)]_vars

\* A shard that has reached the replication factor never falls below it again,
\* whoever proposes the removals and in whatever order they are applied.
ReplicationNeverRegresses ==
    [][\A s \in DOMAIN shards \cap DOMAIN shards' :
        Len(shards[s].replicas) >= RF => Len(shards'[s].replicas) >= RF]_vars

=============================================================================
