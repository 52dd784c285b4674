----------------------------- MODULE Reconciliation -----------------------------
(***************************************************************************)
(* The placement driver's two background loops                             *)
(* (placementdriver/internal/server/reconciliation.go) over the replicated *)
(* state machine of PlacementFSM: the Reconciler, which repairs            *)
(* under-replicated shards and cleans up after dead workers, and the       *)
(* RebalanceManager, which moves shards off draining and overloaded        *)
(* workers.  Every placement driver runs both, leader or not.              *)
(*                                                                         *)
(* A loop reads the state machine, decides, and proposes commands; other   *)
(* proposals are applied in between.  Propose reports only failures of     *)
(* Raft: a command that the state machine refuses looks like a success,    *)
(* and one that timed out may have been applied.                           *)
(*                                                                         *)
(* The shards' own Raft groups are seen as the workers report them in      *)
(* their heartbeats; each placement driver keeps only the reports sent to  *)
(* it, for 30 seconds.  Retry backoff only delays a step and is left out,  *)
(* as is the pause after slow proposals (detectCompaction).                *)
(***************************************************************************)
EXTENDS PlacementFSM, Integers

CONSTANTS
    PDs,                   \* placement drivers
    InitialWorkers,        \* worker id -> WorkerInfo
    InitialShards,         \* ids of the shards of the one collection
    InitialReplicas,       \* where they were placed
    MaxConcurrentRepairs,
    MaxConcurrentMoves,
    StableWorkers,         \* workers whose processes stay up
    Disturbances,          \* kinds of disturbance considered, and
    MaxDisturbances        \* how many of them (moves that expire are not counted)

ASSUME LoopsAssumption ==
    /\ MaxConcurrentRepairs \in Nat \ {0}
    /\ MaxConcurrentMoves \in Nat \ {0}
    /\ MaxDisturbances \in Nat
    /\ InitialWorkers \in Seq(WorkerInfo) /\ InitialReplicas # <<>>
    /\ IsFiniteSet(InitialShards) /\ InitialShards = 1..Cardinality(InitialShards)
    /\ Disturbances \subseteq {"timeout", "proposal", "report", "move", "drain", "delete"}

VARIABLES
    dead,           \* workers with time.Since(LastHeartbeat) >= WorkerCleanupTimeout
    group,          \* shard id -> its Raft group: nodes, configChangeID, caughtUp nodes
    pass,           \* placement driver -> what is left of its reconcile() pass
    reports,        \* placement driver -> shard id -> last report of the group, or NoReport
    inflightMoves,  \* placement driver -> shard id -> inflightMove
    disturbances

loopVars == <<dead, group, pass, reports, inflightMoves, disturbances>>
allVars == <<vars, loopVars>>

NoReport == [nodes |-> {}, configChangeID |-> 0, caughtUp |-> {}, epoch |-> 0]

IdlePass == [under |-> {}, healthy |-> {}, deadReplicas |-> {}, deadWorkers |-> {},
             todo |-> <<>>, repaired |-> 0]

\* All workers registered and heard of, the collection created and bootstrapped.
LoopsInit ==
    /\ workers = InitialWorkers
    /\ fresh = DOMAIN InitialWorkers
    /\ InitialReplicas \in PlacementChoices(Eligible, ActualReplication)
    /\ \E c \in Colls :
        shards = [s \in InitialShards |->
                     [NewShard(c, InitialReplicas) EXCEPT
                         !.leader = InitialReplicas[1], !.bootstrapped = TRUE,
                         !.bootstrapMembers = <<>>]]
    /\ assignmentsEpoch = 2
    /\ nextWorkerID = Cardinality(DOMAIN InitialWorkers) + 1
    /\ nextShardID = Cardinality(InitialShards) + 1
    /\ dead = {}
    /\ group = [s \in InitialShards |->
                   [nodes |-> Range(shards[s].replicas), configChangeID |-> 1,
                    caughtUp |-> Range(shards[s].replicas)]]
    /\ pass = [p \in PDs |-> IdlePass]
    /\ reports = [p \in PDs |-> [s \in InitialShards |-> NoReport]]
    /\ inflightMoves = [p \in PDs |-> <<>>]
    /\ disturbances = 0

Disturb(kind) ==
    /\ kind \in Disturbances
    /\ disturbances < MaxDisturbances
    /\ disturbances' = disturbances + 1

-----------------------------------------------------------------------------
(* Proposals.                                                              *)

Command == [type : {"AddShardReplica", "RemoveShardReplica"}, shard : InitialShards, worker : DOMAIN InitialWorkers]
           \cup [type : {"RemoveWorker"}, worker : DOMAIN InitialWorkers]

AddCommand(s, w) == [type |-> "AddShardReplica", shard |-> s, worker |-> w]
RemoveCommand(s, w) == [type |-> "RemoveShardReplica", shard |-> s, worker |-> w]

\* Node.Propose as its callers see it: ok unless Raft gave up, and then the
\* command may be applied all the same.
Propose(c, ok) ==
    /\ \/ Update(c)
       \/ (~ok \/ Refused(c)) /\ UNCHANGED vars
    /\ IF ok THEN UNCHANGED disturbances ELSE Disturb("proposal")
    /\ dead' = dead \cap DOMAIN workers'

-----------------------------------------------------------------------------
(* Reconciler.                                                             *)

HealthyWorkers == {w \in DOMAIN workers : IsWorkerHealthy(w)}

UnderReplicatedShards == {s \in DOMAIN shards : Cardinality(HealthyReplicas(s)) < RF}

\* What the pass has left to repair (a deleted shard refuses every command).
Under(p) == pass[p].under \cap DOMAIN shards

\* reconcile: one health report for the whole pass.
Reconcile(p) ==
    /\ pass[p] = IdlePass
    /\ pass' = [pass EXCEPT ![p].under = UnderReplicatedShards,
                            ![p].healthy = HealthyWorkers,
                            ![p].deadReplicas = dead,
                            ![p].deadWorkers = dead]
    /\ UNCHANGED <<vars, dead, group, reports, inflightMoves, disturbances>>

\* Mutant: a shard with at least one healthy replica is left alone.
RepairShard_AnyHealthy(p, s) ==
    LET replicas == Range(shards[s].replicas)
        candidates == pass[p].healthy \ replicas
        needed == IF replicas \cap pass[p].healthy = {} THEN RF ELSE 0
        slots == MaxReplicationFactor - Len(shards[s].replicas)
    IN  /\ pass[p].todo = <<>>
        /\ \E new \in [1..Min({needed, slots, Cardinality(candidates)}) -> candidates] :
            /\ IsInjective(new)
            /\ pass' = [pass EXCEPT ![p].under = @ \ {s},
                                    ![p].todo = [i \in DOMAIN new |-> AddCommand(s, new[i])]]
        /\ UNCHANGED <<vars, dead, group, reports, inflightMoves, disturbances>>

\* repairUnderReplicatedShards, one shard: which workers to add.  Any healthy
\* worker will do, search-only ones too.
RepairShard(p, s) ==
    LET replicas == Range(shards[s].replicas)
        candidates == pass[p].healthy \ replicas
        needed == RF - Cardinality(replicas \cap pass[p].healthy)
        slots == MaxReplicationFactor - Len(shards[s].replicas)
    IN  /\ pass[p].todo = <<>>
        /\ \E new \in [1..Min({needed, slots, Cardinality(candidates)}) -> candidates] :
            /\ IsInjective(new)
            /\ pass' = [pass EXCEPT ![p].under = @ \ {s},
                                    ![p].todo = [i \in DOMAIN new |-> AddCommand(s, new[i])]]
        /\ UNCHANGED <<vars, dead, group, reports, inflightMoves, disturbances>>

\* cleanupDeadReplicas, one worker of the report: its replicas that the shards can
\* do without.
CleanupDeadReplicas(p, w) ==
    LET spare == {s \in GetShardsOnWorker(w) :
                     /\ Len(shards[s].replicas) > RF
                     /\ Cardinality(HealthyReplicas(s)) >= RF}
    IN  /\ pass[p].todo = <<>> /\ Under(p) = {}
        /\ pass' = [pass EXCEPT ![p].deadReplicas = @ \ {w},
                                ![p].todo = SetToSeq({RemoveCommand(s, w) : s \in spare})]
        /\ UNCHANGED <<vars, dead, group, reports, inflightMoves, disturbances>>

\* cleanupDeadWorkers, one worker of the report.
CleanupDeadWorkers(p, w) ==
    /\ pass[p].todo = <<>> /\ Under(p) = {} /\ pass[p].deadReplicas = {}
    /\ pass' = [pass EXCEPT ![p].deadWorkers = @ \ {w},
                            ![p].todo = IF GetShardsOnWorker(w) = {}
                                        THEN <<[type |-> "RemoveWorker", worker |-> w]>>
                                        ELSE <<>>]
    /\ UNCHANGED <<vars, dead, group, reports, inflightMoves, disturbances>>

\* The next proposal of the pass.  A failed add gives up on its shard; a repair
\* without failure counts towards MaxConcurrentRepairs.
ProposeNext(p, ok) ==
    /\ pass[p].todo # <<>>
    /\ Propose(Head(pass[p].todo), ok)
    /\ LET repair == Head(pass[p].todo).type = "AddShardReplica"
           done == repair /\ ok /\ Len(pass[p].todo) = 1
           repaired == IF done THEN pass[p].repaired + 1 ELSE pass[p].repaired
       IN  pass' = [pass EXCEPT
               ![p].todo = IF repair /\ ~ok THEN <<>> ELSE Tail(@),
               ![p].under = IF repaired >= MaxConcurrentRepairs THEN {} ELSE @,
               ![p].repaired = repaired]
    /\ UNCHANGED <<group, reports, inflightMoves>>

\* End of the pass (checkLeaderlessShards only prints).
PassEnds(p) ==
    /\ pass[p] # IdlePass
    /\ pass[p].todo = <<>>
    /\ Under(p) = {} /\ pass[p].deadReplicas = {} /\ pass[p].deadWorkers = {}
    /\ pass' = [pass EXCEPT ![p] = IdlePass]
    /\ UNCHANGED <<vars, dead, group, reports, inflightMoves, disturbances>>

ReconcilerStep(p) ==
    \/ Reconcile(p)
    \/ \E s \in Under(p) : RepairShard(p, s)
    \/ \E w \in pass[p].deadReplicas : CleanupDeadReplicas(p, w)
    \/ \E w \in pass[p].deadWorkers : CleanupDeadWorkers(p, w)
    \/ ProposeNext(p, TRUE)
    \/ PassEnds(p)

-----------------------------------------------------------------------------
(* RebalanceManager.                                                       *)

ShardCount(w) == Cardinality(GetShardsOnWorker(w))

\* Thresholds of 30% around the average, times 10 or 13 and the worker count.
Overloaded(w) ==
    10 * ShardCount(w) * Cardinality(HealthyWorkers) > 13 * Cardinality(DOMAIN shards) * RF
Underloaded(w) ==
    13 * ShardCount(w) * Cardinality(HealthyWorkers) < 10 * Cardinality(DOMAIN shards) * RF

\* Mutant: only healthy workers are unloaded.
RebalanceMove_HealthyOnly(p, s, source, target) ==
    /\ Cardinality(HealthyWorkers) >= 2
    /\ s \notin DOMAIN inflightMoves[p]
    /\ Holds(s, source)
    /\ target \in HealthyWorkers
    /\ ~ Holds(s, target)
    /\ source \in HealthyWorkers
    /\ Overloaded(source) /\ Underloaded(target)
    /\ Cardinality(HealthyReplicas(s)) >= 2

\* identifyRebalanceMoves: off a draining worker to any healthy one without the
\* shard, or else (drain moves come first in the list) from an overloaded to an
\* underloaded one when two replicas are healthy.  The least loaded target is
\* preferred; the choice is left open.  Hot shards are left out: no worker sends the
\* shard metrics that make one.
RebalanceMove(p, s, source, target) ==
    /\ Cardinality(HealthyWorkers) >= 2
    /\ s \notin DOMAIN inflightMoves[p]
    /\ Holds(s, source)
    /\ target \in HealthyWorkers
    /\ ~ Holds(s, target)
    /\ \/ workers[source].state = "draining"
       \/ /\ \A w \in Range(shards[s].replicas) : workers[w].state # "draining"
          /\ source \in HealthyWorkers
          /\ Overloaded(source) /\ Underloaded(target)
          /\ Cardinality(HealthyReplicas(s)) >= 2

\* executeMove: the target is added at once and then waited for.
ExecuteMove(p, s, source, target, ok) ==
    /\ Cardinality(DOMAIN inflightMoves[p]) < MaxConcurrentMoves
    /\ RebalanceMove(p, s, source, target)
    /\ Propose(AddCommand(s, target), ok)
    /\ inflightMoves' = IF ok
           THEN [inflightMoves EXCEPT ![p] = Put(@, s,
                    [source |-> source, target |-> target, phase |-> "waitTarget",
                     addConfigChangeID |-> reports[p][s].configChangeID,
                     removeConfigChangeID |-> 0, waitLeaderTransferAck |-> FALSE,
                     expired |-> FALSE])]
           ELSE inflightMoves
    /\ UNCHANGED <<group, pass, reports>>

Advance(p, s, move) == inflightMoves' = [inflightMoves EXCEPT ![p][s] = move]
DropMove(p, s) == inflightMoves' = [inflightMoves EXCEPT ![p] = Drop(@, {s})]

\* Mutant: the target counts as ready once it is in the group.
WaitTarget_NoProgress(p, s) ==
    LET m == inflightMoves[p][s]
        r == reports[p][s]
    IN  /\ m.phase = "waitTarget" /\ ~ m.expired
        /\ IsWorkerHealthy(m.target)
        /\ m.target \in r.nodes
        /\ ~ (m.addConfigChangeID > 0 /\ r.configChangeID <= m.addConfigChangeID)
        /\ shards[s].leader # 0
        /\ Advance(p, s, [m EXCEPT !.phase = "remove"])
        /\ UNCHANGED <<vars, dead, group, pass, reports, disturbances>>

\* advanceMovesLocked, movePhaseWaitTarget: the target is healthy, a member of the
\* group in a report newer than the move, and has applied what the leader had, as
\* of the shard's current epoch.
WaitTarget(p, s) ==
    LET m == inflightMoves[p][s]
        r == reports[p][s]
    IN  /\ m.phase = "waitTarget" /\ ~ m.expired
        /\ IsWorkerHealthy(m.target)
        /\ m.target \in r.nodes
        /\ ~ (m.addConfigChangeID > 0 /\ r.configChangeID <= m.addConfigChangeID)
        /\ shards[s].leader # 0
        /\ r.epoch >= shards[s].epoch
        /\ m.target \in r.caughtUp
        /\ Advance(p, s, [m EXCEPT !.phase = "remove"])
        /\ UNCHANGED <<vars, dead, group, pass, reports, disturbances>>

\* movePhaseRemove: nothing but the source's presence is checked again.
RemoveSource(p, s, ok) ==
    LET m == inflightMoves[p][s]
        noted == [m EXCEPT
            !.waitLeaderTransferAck = @ \/ shards[s].leader = m.source,
            !.removeConfigChangeID = IF @ = 0 THEN reports[p][s].configChangeID ELSE @]
    IN  /\ m.phase = "remove" /\ ~ m.expired
        /\ IF Holds(s, m.source)
           THEN /\ Propose(RemoveCommand(s, m.source), ok)
                /\ Advance(p, s, IF ok THEN [noted EXCEPT !.phase = "waitRemoval"] ELSE noted)
           ELSE /\ ok
                /\ Advance(p, s, [m EXCEPT !.phase = "waitRemoval"])
                /\ UNCHANGED <<vars, dead, disturbances>>
        /\ UNCHANGED <<group, pass, reports>>

\* movePhaseWaitRemoval: the group has let the source go and its leadership has
\* moved; acked stands for a leader-transfer acknowledgement of the source.
WaitRemoval(p, s, acked) ==
    LET m == inflightMoves[p][s]
        r == reports[p][s]
    IN  /\ m.phase = "waitRemoval" /\ ~ m.expired
        /\ r # NoReport
        /\ m.source \notin r.nodes
        /\ ~ (m.removeConfigChangeID > 0 /\ r.configChangeID <= m.removeConfigChangeID)
        /\ m.waitLeaderTransferAck => acked
        /\ shards[s].leader # m.source
        /\ DropMove(p, s)
        /\ UNCHANGED <<vars, dead, group, pass, reports, disturbances>>

\* moveOverallTimeout passes.
MoveExpires(p, s) ==
    /\ ~ inflightMoves[p][s].expired
    /\ "move" \in Disturbances
    /\ Advance(p, s, [inflightMoves[p][s] EXCEPT !.expired = TRUE])
    /\ UNCHANGED <<vars, dead, group, pass, reports, disturbances>>

\* Mutant: a rollback that cannot remove the target is tried again.
TryRollbackMove_Insists(p, s, ok) ==
    LET m == inflightMoves[p][s]
    IN  /\ m.expired
        /\ Holds(s, m.source) /\ Holds(s, m.target) /\ Len(shards[s].replicas) > RF
        /\ Propose(RemoveCommand(s, m.target), ok)
        /\ IF ok THEN DropMove(p, s) ELSE UNCHANGED inflightMoves
        /\ UNCHANGED <<group, pass, reports>>

\* tryRollbackMove: the target is taken out again while the source is still there.
TryRollbackMove(p, s, ok) ==
    LET m == inflightMoves[p][s]
    IN  /\ m.expired
        /\ IF Holds(s, m.source) /\ Holds(s, m.target) /\ Len(shards[s].replicas) > RF
           THEN /\ Propose(RemoveCommand(s, m.target), ok)
                /\ IF ok THEN DropMove(p, s) ELSE UNCHANGED inflightMoves
           ELSE /\ ok
                /\ DropMove(p, s)
                /\ UNCHANGED <<vars, dead, disturbances>>
        /\ UNCHANGED <<group, pass, reports>>

\* The shard of the move is gone.
ForgetMove(p, s) ==
    /\ s \notin DOMAIN shards
    /\ DropMove(p, s)
    /\ UNCHANGED <<vars, dead, group, pass, reports, disturbances>>

AdvanceMove(p, s, ok) ==
    \/ ForgetMove(p, s)
    \/ /\ s \in DOMAIN shards
       /\ \/ WaitTarget(p, s)
          \/ RemoveSource(p, s, ok)
          \/ \E acked \in BOOLEAN : WaitRemoval(p, s, acked)
          \/ TryRollbackMove(p, s, ok)

-----------------------------------------------------------------------------
(* The workers and the passing of time.                                    *)

WorkerHeartbeat(w) ==
    /\ UpdateWorkerHeartbeat(w)
    /\ dead' = dead \ {w}
    /\ UNCHANGED <<group, pass, reports, inflightMoves, disturbances>>

WorkerTimesOut(w) ==
    /\ HeartbeatExpires(w)
    /\ Disturb("timeout")
    /\ UNCHANGED <<dead, group, pass, reports, inflightMoves>>

\* WorkerCleanupTimeout passes.
WorkerDies(w) ==
    /\ w \in DOMAIN workers \ (fresh \cup dead)
    /\ dead' = dead \cup {w}
    /\ UNCHANGED <<vars, group, pass, reports, inflightMoves, disturbances>>

DrainWorker(w) ==
    /\ workers[w].state # "draining"
    /\ UpdateWorkerState(w)
    /\ Disturb("drain")
    /\ UNCHANGED <<dead, group, pass, reports, inflightMoves>>

DropCollection(c) ==
    /\ DeleteCollection(c)
    /\ Disturb("delete")
    /\ UNCHANGED <<dead, group, pass, reports, inflightMoves>>

\* A member that still is a replica and alive may lead the group.  That some member
\* does is sure only while such members are a majority of the group: what a worker
\* taken off the list still runs is not counted on.
CanLead(s, l) == l \in group[s].nodes /\ Holds(s, l) /\ l \in fresh
Quorum(s) ==
    2 * Cardinality({w \in group[s].nodes : CanLead(s, w)}) > Cardinality(group[s].nodes)

\* The leader's heartbeat to p: leader, membership and progress of its shard.
ReportShard(p, s, l) ==
    /\ CanLead(s, l)
    /\ UpdateShardLeader(s, l)
    /\ reports' = [reports EXCEPT ![p][s] =
           [nodes |-> group[s].nodes, configChangeID |-> group[s].configChangeID,
            caughtUp |-> group[s].caughtUp, epoch |-> shards[s].epoch]]
    /\ UNCHANGED <<dead, group, pass, inflightMoves, disturbances>>

\* membershipStaleAfter and progressStaleAfter pass without a report to p.
ReportExpires(p, s) ==
    /\ reports[p][s] # NoReport
    /\ reports' = [reports EXCEPT ![p][s] = NoReport]
    /\ Disturb("report")
    /\ UNCHANGED <<vars, dead, group, pass, inflightMoves>>

\* reconcileMembership on the leader: missing replicas are added to the group ...
GroupAdds(s, w) ==
    /\ \E l \in group[s].nodes : CanLead(s, l)
    /\ Holds(s, w) /\ w \notin group[s].nodes
    /\ group' = [group EXCEPT ![s].nodes = @ \cup {w}, ![s].configChangeID = @ + 1]
    /\ UNCHANGED <<vars, dead, pass, reports, inflightMoves, disturbances>>

\* Mutant: a removed member's progress is kept.
GroupDrops_KeepsProgress(s, w) ==
    /\ \E l \in group[s].nodes : CanLead(s, l)
    /\ Range(shards[s].replicas) \subseteq group[s].nodes
    /\ w \in group[s].nodes /\ ~ Holds(s, w)
    /\ group' = [group EXCEPT ![s].nodes = @ \ {w}, ![s].configChangeID = @ + 1]
    /\ UNCHANGED <<vars, dead, pass, reports, inflightMoves, disturbances>>

\* ... and then members that are no replicas are dropped.
GroupDrops(s, w) ==
    /\ \E l \in group[s].nodes : CanLead(s, l)
    /\ Range(shards[s].replicas) \subseteq group[s].nodes
    /\ w \in group[s].nodes /\ ~ Holds(s, w)
    /\ group' = [group EXCEPT ![s].nodes = @ \ {w}, ![s].caughtUp = @ \ {w},
                              ![s].configChangeID = @ + 1]
    /\ UNCHANGED <<vars, dead, pass, reports, inflightMoves, disturbances>>

\* A new member has received what the leader had applied.
CatchesUp(s, w) ==
    /\ Holds(s, w) /\ w \in group[s].nodes \ group[s].caughtUp /\ w \in fresh
    /\ \E l \in group[s].caughtUp : CanLead(s, l)
    /\ group' = [group EXCEPT ![s].caughtUp = @ \cup {w}]
    /\ UNCHANGED <<vars, dead, pass, reports, inflightMoves, disturbances>>

WorkerStep ==
    \/ \E w \in DOMAIN workers : WorkerHeartbeat(w)
    \/ \E s \in DOMAIN shards, w \in DOMAIN workers :
        \/ \E p \in PDs : ReportShard(p, s, w)
        \/ GroupAdds(s, w) \/ GroupDrops(s, w) \/ CatchesUp(s, w)

LoopsNext ==
    \/ \E p \in PDs :
        \/ ReconcilerStep(p)
        \/ ProposeNext(p, FALSE)
        \/ \E s \in DOMAIN shards, source, target \in DOMAIN workers, ok \in BOOLEAN :
            ExecuteMove(p, s, source, target, ok)
        \/ \E s \in DOMAIN inflightMoves[p] :
            \/ \E ok \in BOOLEAN : AdvanceMove(p, s, ok)
            \/ MoveExpires(p, s)
        \/ \E s \in DOMAIN shards : ReportExpires(p, s)
    \/ \E w \in DOMAIN workers :
        WorkerTimesOut(w) \/ WorkerDies(w) \/ DrainWorker(w)
    \/ \E c \in Colls : DropCollection(c)
    \/ WorkerStep

\* The loops run on tickers and a worker sends a heartbeat every five seconds for
\* as long as its process is up, so a step that stays possible is taken; a move is
\* looked at in every cycle, so one that is possible again and again is taken too.
\* A shard's Raft group makes progress while it has a quorum.
LoopsFairness ==
    /\ \A p \in PDs :
        /\ WF_allVars(ReconcilerStep(p))
        /\ \A s \in InitialShards :
            /\ WF_allVars(/\ s \in DOMAIN shards
                          /\ \E source, target \in DOMAIN workers :
                               ExecuteMove(p, s, source, target, TRUE))
            /\ SF_allVars(s \in DOMAIN inflightMoves[p] /\ AdvanceMove(p, s, TRUE))
            /\ WF_allVars(s \in DOMAIN inflightMoves[p] /\ MoveExpires(p, s))
            /\ WF_allVars(/\ s \in DOMAIN shards /\ Quorum(s)
                          /\ \E l \in DOMAIN workers : ReportShard(p, s, l))
    /\ \A w \in StableWorkers : WF_allVars(WorkerHeartbeat(w))
    /\ \A w \in DOMAIN InitialWorkers, s \in InitialShards :
            WF_allVars(/\ s \in DOMAIN shards /\ Quorum(s)
                       /\ GroupAdds(s, w) \/ GroupDrops(s, w) \/ CatchesUp(s, w))

LoopsSpec == LoopsInit /\ [][LoopsNext]_allVars
FairLoopsSpec == LoopsSpec /\ LoopsFairness

-----------------------------------------------------------------------------
(* Properties.                                                             *)

\* The loops' state is well formed: a dead worker has no fresh heartbeat, progress
\* is reported only of members, and the two concurrency limits hold.
LoopsTypeOK ==
    /\ dead \subseteq DOMAIN workers \ fresh
    /\ \A s \in InitialShards : group[s].caughtUp \subseteq group[s].nodes
    /\ \A p \in PDs :
        /\ pass[p].todo \in Seq(Command)
        /\ pass[p].repaired \in 0..MaxConcurrentRepairs
        /\ Cardinality(DOMAIN inflightMoves[p]) <= MaxConcurrentMoves

\* A move goes on to remove its source only when its target, if it is still a
\* replica, is a member of the Raft group that has caught up, although
\* movePhaseWaitTarget sees the group through a report of up to 30 seconds ago.
RemovalWaitsForCopy ==
    [][\A p \in PDs : \A s \in DOMAIN inflightMoves[p] \cap DOMAIN shards :
        LET m == inflightMoves[p][s]
        IN  (/\ m.phase = "waitTarget" /\ Holds(s, m.target)
             /\ s \in DOMAIN inflightMoves'[p] /\ inflightMoves'[p][s].phase = "remove")
                => m.target \in group[s].caughtUp]_allVars

\* Some replica of every shard has the shard's data: the lists are never changed to
\* workers that have yet to copy it from one that was taken out.
CopySurvives ==
    \A s \in DOMAIN shards : \E w \in Range(shards[s].replicas) : w \in group[s].caughtUp

\* Every move ends, completed or rolled back: no move holds one of the
\* MaxConcurrentMoves slots for ever.
EveryMoveEnds ==
    \A p \in PDs, s \in InitialShards :
        (s \in DOMAIN inflightMoves[p]) ~> (s \notin DOMAIN inflightMoves[p])

Repairable(s) ==
    /\ s \in UnderReplicatedShards
    /\ Len(shards[s].replicas) < MaxReplicationFactor
    /\ \E w \in HealthyWorkers : ~ Holds(s, w)
    /\ assignmentsEpoch < MaxAssignmentsEpoch

\* A shard short of healthy replicas does not stay so while the list has room and
\* some healthy worker could take a replica (and the model's bound on epochs lets
\* it): the repair pass gets to it, whatever the moves do meanwhile.
UnderReplicationRepaired ==
    \A s \in InitialShards : Repairable(s) ~> ~ Repairable(s)

\* A draining worker ends up without shards (or is removed).
DrainCompletes ==
    \A w \in DOMAIN InitialWorkers :
        (w \in DOMAIN workers /\ workers[w].state = "draining")
            ~> (w \notin DOMAIN workers \/ GetShardsOnWorker(w) = {})

=============================================================================
