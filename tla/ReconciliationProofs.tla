------------------------- MODULE ReconciliationProofs -------------------------
(***************************************************************************)
(* What Reconciliation promises, for any number of placement drivers,      *)
(* workers and shards, any limits and any disturbances: the loops act on   *)
(* the state machine by its commands alone, stay within their limits, and  *)
(* give up no source before the target's copy is complete.                 *)
(***************************************************************************)
EXTENDS Reconciliation, PlacementProofs

\* The commands of the loops.
Proposals == {"AddShardReplica", "RemoveShardReplica", "RemoveWorker"}

GroupRec == [nodes : SUBSET Nat, configChangeID : Nat, caughtUp : SUBSET Nat]

ReportRec == [nodes : SUBSET Nat, configChangeID : Nat, caughtUp : SUBSET Nat, epoch : Nat]

PassRec == [under : SUBSET InitialShards, healthy : SUBSET DOMAIN InitialWorkers,
            deadReplicas : SUBSET DOMAIN InitialWorkers, deadWorkers : SUBSET DOMAIN InitialWorkers,
            todo : Seq(Command), repaired : 0..MaxConcurrentRepairs]

MoveRec == [source : DOMAIN InitialWorkers, target : DOMAIN InitialWorkers,
            phase : {"waitTarget", "remove", "waitRemoval"},
            addConfigChangeID : Nat, removeConfigChangeID : Nat,
            waitLeaderTransferAck : BOOLEAN, expired : BOOLEAN]

-------------------------------------------------------------------------------
(* The inductive invariant, on top of that of PlacementProofs (IInv).      *)

\* No worker or shard appears, and a dead worker is not heard of.
RegisteredInv ==
    /\ DOMAIN workers \subseteq DOMAIN InitialWorkers /\ DOMAIN shards \subseteq InitialShards
    /\ dead \subseteq DOMAIN workers \ fresh

GroupsInv ==
    /\ group \in [InitialShards -> GroupRec]
    /\ \A s \in InitialShards : group[s].caughtUp \subseteq group[s].nodes

\* A pass that has used up its repairs has none left to propose.
PassInv ==
    /\ pass \in [PDs -> PassRec]
    /\ \A p \in PDs : pass[p].repaired = MaxConcurrentRepairs =>
          /\ pass[p].under = {}
          /\ \A i \in DOMAIN pass[p].todo : pass[p].todo[i].type # "AddShardReplica"

MovesOK(moves) ==
    /\ DOMAIN moves \subseteq InitialShards
    /\ moves \in [DOMAIN moves -> MoveRec]
    /\ Cardinality(DOMAIN moves) <= MaxConcurrentMoves

MovesInv ==
    /\ inflightMoves = [p \in PDs |-> inflightMoves[p]]
    /\ \A p \in PDs : MovesOK(inflightMoves[p])

\* What a report of the shard's present epoch says of its replicas is still true: a member
\* loses its progress only when it is no replica, and the lists change with the epoch.
ReportTrue(r, s) ==
    /\ r.epoch <= shards[s].epoch
    /\ r.epoch = shards[s].epoch => \A w \in r.caughtUp : Holds(s, w) => w \in group[s].caughtUp

ReportsInv ==
    /\ reports \in [PDs -> [InitialShards -> ReportRec]]
    /\ \A p \in PDs, s \in DOMAIN shards : ReportTrue(reports[p][s], s)

LoopsInv == IInv /\ RegisteredInv /\ GroupsInv /\ PassInv /\ MovesInv /\ ReportsInv

-------------------------------------------------------------------------------
(* The loops and the state machine.                                        *)

LEMMA InitialFacts ==
    /\ DOMAIN InitialWorkers = 1..Len(InitialWorkers) /\ Len(InitialWorkers) \in Nat
    /\ DOMAIN InitialWorkers \subseteq Nat /\ IsFiniteSet(DOMAIN InitialWorkers)
    /\ InitialShards \subseteq Nat /\ IsFiniteSet(InitialShards) /\ Cardinality(InitialShards) \in Nat
<1>1. DOMAIN InitialWorkers = 1..Len(InitialWorkers) /\ Len(InitialWorkers) \in Nat
  BY LoopsAssumption
<1>2. IsFiniteSet(1..Len(InitialWorkers))
  BY <1>1, FS_Interval
<1>3. Cardinality(InitialShards) \in Nat
  BY LoopsAssumption, FS_CardinalityType
<1> QED BY <1>1, <1>2, <1>3, LoopsAssumption

\* A proposal of a loop is a command of the state machine, or nothing.
LEMMA ProposeStep ==
    ASSUME IInv, RegisteredInv, NEW c, c.type \in Proposals, NEW ok, Propose(c, ok)
    PROVE  [Next]_vars /\ RegisteredInv' /\ DOMAIN shards' = DOMAIN shards
<1>1. (Update(c) \/ UNCHANGED vars) /\ dead' = dead \cap DOMAIN workers'
  BY Zenon DEF Propose
<1>2. CASE UNCHANGED vars
  BY <1>1, <1>2 DEF vars, RegisteredInv
<1>3. CASE RemoveWorker(c.worker)
  <2>1. DOMAIN workers' = DOMAIN workers \ {c.worker} /\ fresh' = fresh \ {c.worker} /\ shards' = shards
    BY <1>3 DEF RemoveWorker, Drop
  <2>2. Next
    BY <1>3 DEF Next, RemoveWorker
  <2> QED BY <1>1, <2>1, <2>2 DEF RegisteredInv
<1>4. ASSUME NEW s \in DOMAIN shards, NEW q, SetReplicas(s, q)
      PROVE  RegisteredInv' /\ DOMAIN shards' = DOMAIN shards
  <2>1. DOMAIN shards' = DOMAIN shards /\ workers' = workers /\ fresh' = fresh
    BY <1>4 DEF SetReplicas
  <2> QED BY <1>1, <2>1 DEF RegisteredInv
<1>5. CASE AddShardReplica(c.shard, c.worker)
  <2>1. c.shard \in DOMAIN shards /\ c.worker \in DOMAIN workers
    BY <1>5 DEF AddShardReplica, IsWorkerHealthy
  <2>2. Next
    BY <1>5, <2>1 DEF Next
  <2>3. SetReplicas(c.shard, Append(shards[c.shard].replicas, c.worker))
    BY <1>5 DEF AddShardReplica
  <2> QED BY <1>4, <2>1, <2>2, <2>3
<1>6. CASE RemoveShardReplica(c.shard, c.worker)
  <2>1. c.shard \in DOMAIN shards
    BY <1>6 DEF RemoveShardReplica
  <2>2. PICK i \in 1..Len(shards[c.shard].replicas) :
           /\ shards[c.shard].replicas[i] = c.worker
           /\ SetReplicas(c.shard, RemoveAt(shards[c.shard].replicas, i))
    BY <1>6 DEF RemoveShardReplica
  <2>3. shards[c.shard].replicas \in Seq(Nat) /\ Range(shards[c.shard].replicas) \subseteq DOMAIN workers
    BY <2>1 DEF IInv, TypeOK, ShardInfo, ReplicasRegistered
  <2>4. c.worker \in DOMAIN workers
    BY <2>2, <2>3 DEF Range
  <2>5. Next
    BY <1>6, <2>1, <2>4 DEF Next
  <2> QED BY <1>4, <2>1, <2>2, <2>5
<1> QED BY <1>1, <1>2, <1>3, <1>5, <1>6 DEF Update, Proposals

LEMMA CommandTypes ==
    /\ \A c \in Command : c.type \in Proposals
    /\ \A s, w : AddCommand(s, w).type \in Proposals /\ RemoveCommand(s, w).type \in Proposals
BY DEF Command, Proposals, AddCommand, RemoveCommand

\* Every step of the loops, the workers and time is a step of the state machine.
LEMMA LoopsStep ==
    ASSUME IInv, RegisteredInv, PassInv, LoopsNext
    PROVE  [Next]_vars /\ RegisteredInv' /\ DOMAIN shards' \subseteq DOMAIN shards
<1>1. CASE UNCHANGED <<vars, dead>>
  BY <1>1 DEF vars, RegisteredInv
<1>2. ASSUME NEW p \in PDs, NEW ok \in BOOLEAN, ProposeNext(p, ok)
      PROVE  [Next]_vars /\ RegisteredInv' /\ DOMAIN shards' \subseteq DOMAIN shards
  <2>1. pass[p].todo \in Seq(Command) /\ pass[p].todo # <<>> /\ Propose(Head(pass[p].todo), ok)
    BY <1>2 DEF ProposeNext, PassInv, PassRec
  <2>2. Head(pass[p].todo).type \in Proposals
    BY <2>1, CommandTypes
  <2> QED BY <2>1, <2>2, ProposeStep
<1>3. ASSUME NEW p \in PDs, NEW s, NEW source, NEW target, NEW ok \in BOOLEAN,
             ExecuteMove(p, s, source, target, ok)
      PROVE  [Next]_vars /\ RegisteredInv' /\ DOMAIN shards' \subseteq DOMAIN shards
  <2>1. Propose(AddCommand(s, target), ok)
    BY <1>3 DEF ExecuteMove
  <2> QED BY <2>1, CommandTypes, ProposeStep
<1>4. ASSUME NEW p \in PDs, NEW s, NEW ok \in BOOLEAN, AdvanceMove(p, s, ok)
      PROVE  [Next]_vars /\ RegisteredInv' /\ DOMAIN shards' \subseteq DOMAIN shards
  <2>1. UNCHANGED <<vars, dead>> \/ \E w : Propose(RemoveCommand(s, w), ok)
    BY <1>4, Zenon DEF AdvanceMove, ForgetMove, WaitTarget, RemoveSource, WaitRemoval,
       TryRollbackMove
  <2> QED BY <1>1, <2>1, CommandTypes, ProposeStep
<1>5. ASSUME NEW w \in DOMAIN workers, WorkerHeartbeat(w)
      PROVE  [Next]_vars /\ RegisteredInv' /\ DOMAIN shards' \subseteq DOMAIN shards
  <2>1. Next
    BY <1>5 DEF WorkerHeartbeat, Next
  <2> QED BY <1>5, <2>1 DEF WorkerHeartbeat, UpdateWorkerHeartbeat, RegisteredInv
<1>6. ASSUME NEW w \in DOMAIN workers, WorkerTimesOut(w)
      PROVE  [Next]_vars /\ RegisteredInv' /\ DOMAIN shards' \subseteq DOMAIN shards
  <2>1. Next
    BY <1>6 DEF WorkerTimesOut, Next
  <2> QED BY <1>6, <2>1 DEF WorkerTimesOut, HeartbeatExpires, RegisteredInv
<1>7. ASSUME NEW w \in DOMAIN workers, WorkerDies(w)
      PROVE  [Next]_vars /\ RegisteredInv' /\ DOMAIN shards' \subseteq DOMAIN shards
  BY <1>7 DEF WorkerDies, vars, RegisteredInv
<1>8. ASSUME NEW w \in DOMAIN workers, DrainWorker(w)
      PROVE  [Next]_vars /\ RegisteredInv' /\ DOMAIN shards' \subseteq DOMAIN shards
  <2>1. Next
    BY <1>8 DEF DrainWorker, Next
  <2> QED BY <1>8, <2>1 DEF DrainWorker, UpdateWorkerState, RegisteredInv
<1>9. ASSUME NEW c \in Colls, DropCollection(c)
      PROVE  [Next]_vars /\ RegisteredInv' /\ DOMAIN shards' \subseteq DOMAIN shards
  <2>1. Next
    BY <1>9 DEF DropCollection, Next
  <2>2. DOMAIN shards' \subseteq DOMAIN shards /\ workers' = workers /\ fresh' = fresh /\ dead' = dead
    BY <1>9 DEF DropCollection, DeleteCollection, Drop
  <2> QED BY <2>1, <2>2 DEF RegisteredInv
<1>10. ASSUME NEW p \in PDs, NEW s \in DOMAIN shards, NEW l \in DOMAIN workers, ReportShard(p, s, l)
      PROVE  [Next]_vars /\ RegisteredInv' /\ DOMAIN shards' \subseteq DOMAIN shards
  <2>1. l \in 0..(nextWorkerID - 1) /\ UpdateShardLeader(s, l) /\ dead' = dead
    BY <1>10 DEF ReportShard, IInv, TypeOK
  <2>2. Next
    BY <2>1 DEF Next
  <2>3. DOMAIN shards' = DOMAIN shards /\ workers' = workers /\ fresh' = fresh
    BY <2>1 DEF UpdateShardLeader
  <2> QED BY <2>1, <2>2, <2>3 DEF RegisteredInv
<1>11. ASSUME NEW p \in PDs, ReconcilerStep(p)
      PROVE  [Next]_vars /\ RegisteredInv' /\ DOMAIN shards' \subseteq DOMAIN shards
  <2>1. UNCHANGED <<vars, dead>> \/ ProposeNext(p, TRUE)
    BY <1>11, Zenon DEF ReconcilerStep, Reconcile, RepairShard, CleanupDeadReplicas,
       CleanupDeadWorkers, PassEnds
  <2> QED BY <1>1, <1>2, <2>1
<1>12. ASSUME NEW p \in PDs, NEW s, MoveExpires(p, s) \/ ReportExpires(p, s)
      PROVE  UNCHANGED <<vars, dead>>
  BY <1>12 DEF MoveExpires, ReportExpires
<1>13. ASSUME NEW s, NEW w, GroupAdds(s, w) \/ GroupDrops(s, w) \/ CatchesUp(s, w)
      PROVE  UNCHANGED <<vars, dead>>
  BY <1>13 DEF GroupAdds, GroupDrops, CatchesUp
<1> QED BY <1>1, <1>2, <1>3, <1>4, <1>5, <1>6, <1>7, <1>8, <1>9, <1>10, <1>11, <1>12, <1>13
        DEF LoopsNext, WorkerStep

-------------------------------------------------------------------------------
(* The initial state.                                                      *)

LEMMA LoopsInitInv == LoopsInit => LoopsInv
<1> SUFFICES ASSUME LoopsInit PROVE LoopsInv
  OBVIOUS
<1> DEFINE r == InitialReplicas
           n == Len(InitialWorkers)
<1>1. /\ workers = InitialWorkers /\ fresh = DOMAIN InitialWorkers /\ dead = {}
      /\ r \in PlacementChoices(Eligible, ActualReplication)
      /\ assignmentsEpoch = 2 /\ nextWorkerID = Cardinality(DOMAIN InitialWorkers) + 1
      /\ nextShardID = Cardinality(InitialShards) + 1
  BY DEF LoopsInit
<1>2. DOMAIN workers = 1..n /\ n \in Nat /\ workers \in [1..n -> WorkerInfo] /\ nextWorkerID = n + 1
  <2>1. Cardinality(1..n) = n
    <3>1. n \in Nat
      BY InitialFacts
    <3>2. Cardinality(1..n) = IF 1 > n THEN 0 ELSE n - 1 + 1
      BY <3>1, FS_Interval
    <3> QED BY <3>1, <3>2
  <2>2. InitialWorkers \in [1..n -> WorkerInfo]
    BY LoopsAssumption
  <2> QED BY <1>1, <2>1, <2>2, InitialFacts
<1>3. ActualReplication \in Nat /\ ActualReplication <= RF
  <2>1. IsFiniteSet(Eligible)
    BY <1>1, InitialFacts, FS_Subset DEF Eligible
  <2>2. Cardinality(Eligible) \in Nat
    BY <2>1, FS_CardinalityType
  <2> QED BY <2>2, FSMAssumption DEF ActualReplication
<1>4. r \in [1..ActualReplication -> Eligible] /\ IsInjective(r)
  BY <1>1 DEF PlacementChoices
<1>5. /\ r \in Seq(Nat) /\ Len(r) \in 1..MaxReplicationFactor /\ IsInjective(r)
      /\ Range(r) \subseteq DOMAIN workers /\ r[1] \in Nat /\ r[1] # 0
  <2>1. Eligible \subseteq 1..n
    BY <1>2 DEF Eligible
  <2>2. r \in Seq(Nat) /\ Len(r) = ActualReplication /\ r # <<>>
    <3>1. r \in [1..ActualReplication -> Nat]
      <4>1. Eligible \subseteq Nat
        BY <1>2, <2>1
      <4> HIDE DEF r
      <4> QED BY <1>4, <4>1
    <3> HIDE DEF r
    <3>2. r \in Seq(Nat) /\ Len(r) = ActualReplication
      BY <1>3, <3>1
    <3> QED BY <3>2, LoopsAssumption DEF r
  <2>3. Len(r) # 0
    BY <2>2
  <2>4. 1 \in 1..ActualReplication
    BY <1>3, <2>2, <2>3
  <2>5. r[1] \in 1..n
    BY <1>4, <2>1, <2>4
  <2>6. Range(r) \subseteq Eligible
    BY <1>4 DEF Range
  <2>7. Len(r) \in 1..MaxReplicationFactor
    BY <1>3, <2>2, <2>3, FSMAssumption
  <2>8. Range(r) \subseteq DOMAIN workers
    BY <1>2, <2>1, <2>6
  <2>9. r[1] \in Nat /\ r[1] # 0
    BY <1>2, <2>5
  <2> QED BY <1>4, <2>2, <2>7, <2>8, <2>9
<1>6. PICK c \in Colls :
         shards = [s \in InitialShards |->
                     [NewShard(c, r) EXCEPT !.leader = r[1], !.bootstrapped = TRUE, !.bootstrapMembers = <<>>]]
  BY DEF LoopsInit
<1> DEFINE sh == [NewShard(c, r) EXCEPT !.leader = r[1], !.bootstrapped = TRUE, !.bootstrapMembers = <<>>]
<1>7. shards = [s \in InitialShards |-> sh]
  BY <1>6
<1>8. ShardOK(sh, DOMAIN workers) /\ sh.epoch = 1 /\ sh.replicas = r
  <2>1. /\ sh.replicas = r /\ sh.leader = r[1] /\ sh.epoch = 1 /\ sh.bootstrapped = TRUE
        /\ sh.bootstrapMembers = <<>>
    BY DEF NewShard
  <2>2. sh \in ShardInfo
    <3>1. r \in Seq(Nat) /\ r[1] \in Nat /\ <<>> \in Seq(Nat)
      BY <1>5
    <3> HIDE DEF r
    <3>2. NewShard(c, r) \in ShardInfo
      BY <3>1 DEF NewShard, ShardInfo
    <3> QED BY <3>1, <3>2 DEF ShardInfo
  <2> HIDE DEF sh
  <2> QED BY <1>5, <2>1, <2>2 DEF ShardOK
<1> HIDE DEF sh
<1>9. DOMAIN shards = InitialShards /\ \A s \in InitialShards : shards[s] = sh
  BY <1>7
<1>10. IInv
  <2>1. RegistryOK
    BY <1>1, <1>2 DEF RegistryOK
  <2>2. DOMAIN shards \subseteq 1..(nextShardID - 1) /\ nextShardID \in Nat \ {0}
    BY <1>1, <1>9, InitialFacts, LoopsAssumption
  <2>3. ShardsOK
    BY <1>1, <1>7, <1>8, <1>9, <2>2 DEF ShardsOK
  <2> QED BY <2>1, <2>3, IInvParts
<1>11. RegisteredInv
  BY <1>1, <1>9 DEF RegisteredInv
<1>12. GroupsInv
  <2>1. group = [s \in InitialShards |->
                   [nodes |-> Range(shards[s].replicas), configChangeID |-> 1,
                    caughtUp |-> Range(shards[s].replicas)]]
    BY DEF LoopsInit
  <2>2. \A s \in InitialShards : Range(shards[s].replicas) \subseteq Nat
    BY <1>2, <1>5, <1>8, <1>9
  <2> QED BY <2>1, <2>2 DEF GroupsInv, GroupRec
<1>13. PassInv
  <2>1. IdlePass \in PassRec /\ IdlePass.repaired = 0
    BY LoopsAssumption DEF IdlePass, PassRec
  <2>2. pass = [p \in PDs |-> IdlePass]
    BY DEF LoopsInit
  <2> QED BY <2>1, <2>2, LoopsAssumption DEF PassInv
<1>14. MovesInv
  <2>1. inflightMoves = [p \in PDs |-> <<>>]
    BY DEF LoopsInit
  <2>2. DOMAIN <<>> = {} /\ <<>> \in [{} -> MoveRec]
    OBVIOUS
  <2>3. MovesOK(<<>>)
    BY <2>2, FS_EmptySet, LoopsAssumption DEF MovesOK
  <2> QED BY <2>1, <2>3 DEF MovesInv
<1>15. ReportsInv
  <2>1. NoReport \in ReportRec /\ NoReport.epoch = 0 /\ NoReport.caughtUp = {}
    BY DEF NoReport, ReportRec
  <2>2. reports = [p \in PDs |-> [s \in InitialShards |-> NoReport]]
    BY DEF LoopsInit
  <2>3. \A s \in DOMAIN shards : shards[s].epoch = 1
    BY <1>8, <1>9
  <2> QED BY <1>9, <2>1, <2>2, <2>3 DEF ReportsInv, ReportTrue
<1> QED BY <1>10, <1>11, <1>12, <1>13, <1>14, <1>15 DEF LoopsInv

-------------------------------------------------------------------------------
(* The Raft groups and the reports about them.                             *)

LEMMA GroupsKept == LoopsInv /\ LoopsNext => GroupsInv'
<1> SUFFICES ASSUME LoopsInv, LoopsNext PROVE GroupsInv'
  OBVIOUS
<1>1. /\ group \in [InitialShards -> GroupRec] /\ DOMAIN shards \subseteq InitialShards
      /\ \A s \in InitialShards : group[s].caughtUp \subseteq group[s].nodes
      /\ DOMAIN workers \subseteq Nat
  BY InitialFacts DEF LoopsInv, GroupsInv, RegisteredInv
<1>2. CASE UNCHANGED group
  BY <1>1, <1>2 DEF GroupsInv
<1>3. ASSUME NEW s \in DOMAIN shards, NEW g \in GroupRec, g.caughtUp \subseteq g.nodes,
             group' = [group EXCEPT ![s] = g]
      PROVE  GroupsInv'
  BY <1>1, <1>3 DEF GroupsInv
<1>4. ASSUME NEW s \in DOMAIN shards, NEW w \in DOMAIN workers, GroupAdds(s, w) PROVE GroupsInv'
  <2> DEFINE g == [nodes |-> group[s].nodes \cup {w}, configChangeID |-> group[s].configChangeID + 1,
                   caughtUp |-> group[s].caughtUp]
  <2>1. group' = [group EXCEPT ![s] = g]
    BY <1>1, <1>4 DEF GroupAdds, GroupRec
  <2>2. g \in GroupRec /\ g.caughtUp \subseteq g.nodes
    BY <1>1, <1>4 DEF GroupRec
  <2> HIDE DEF g
  <2> QED BY <1>3, <2>1, <2>2
<1>5. ASSUME NEW s \in DOMAIN shards, NEW w \in DOMAIN workers, GroupDrops(s, w) PROVE GroupsInv'
  <2> DEFINE g == [nodes |-> group[s].nodes \ {w}, configChangeID |-> group[s].configChangeID + 1,
                   caughtUp |-> group[s].caughtUp \ {w}]
  <2>1. group' = [group EXCEPT ![s] = g]
    BY <1>1, <1>5 DEF GroupDrops, GroupRec
  <2>2. g \in GroupRec /\ g.caughtUp \subseteq g.nodes
    BY <1>1, <1>5 DEF GroupRec
  <2> HIDE DEF g
  <2> QED BY <1>3, <2>1, <2>2
<1>6. ASSUME NEW s \in DOMAIN shards, NEW w \in DOMAIN workers, CatchesUp(s, w) PROVE GroupsInv'
  <2> DEFINE g == [nodes |-> group[s].nodes, configChangeID |-> group[s].configChangeID,
                   caughtUp |-> group[s].caughtUp \cup {w}]
  <2>1. group' = [group EXCEPT ![s] = g]
    <3>1. group[s] \in GroupRec
      BY <1>1
    <3>2. [group[s] EXCEPT !.caughtUp = @ \cup {w}] = g
      BY <3>1 DEF GroupRec
    <3>3. group' = [group EXCEPT ![s] = [group[s] EXCEPT !.caughtUp = @ \cup {w}]]
      BY <1>6 DEF CatchesUp
    <3> QED BY <3>2, <3>3
  <2>2. g \in GroupRec /\ g.caughtUp \subseteq g.nodes
    BY <1>1, <1>6 DEF GroupRec, CatchesUp
  <2> HIDE DEF g
  <2> QED BY <1>3, <2>1, <2>2
<1>7. ASSUME NEW p, ReconcilerStep(p) \/ ProposeNext(p, FALSE) PROVE UNCHANGED group
  BY <1>7 DEF ReconcilerStep, Reconcile, RepairShard, CleanupDeadReplicas, CleanupDeadWorkers,
     ProposeNext, PassEnds
<1>8. ASSUME NEW p, NEW s, NEW ok, AdvanceMove(p, s, ok) PROVE UNCHANGED group
  BY <1>8 DEF AdvanceMove, ForgetMove, WaitTarget, RemoveSource, WaitRemoval, TryRollbackMove
<1> QED BY <1>2, <1>4, <1>5, <1>6, <1>7, <1>8
        DEF LoopsNext, ExecuteMove, MoveExpires, ReportExpires, WorkerTimesOut, WorkerDies, DrainWorker,
            DropCollection, WorkerStep, WorkerHeartbeat, ReportShard

\* A replica of the shard does not lose its progress.
LEMMA ProgressStays ==
    ASSUME LoopsInv, LoopsNext, NEW s \in DOMAIN shards, NEW w, Holds(s, w), w \in group[s].caughtUp
    PROVE  w \in group'[s].caughtUp
<1>1. group \in [InitialShards -> GroupRec] /\ s \in InitialShards
  BY DEF LoopsInv, GroupsInv, RegisteredInv
<1>2. CASE UNCHANGED group
  BY <1>2
<1>3. ASSUME NEW x \in DOMAIN shards, NEW v, GroupAdds(x, v) \/ CatchesUp(x, v) PROVE w \in group'[s].caughtUp
  <2>1. group[s] \in GroupRec
    BY <1>1
  <2> QED BY <1>1, <1>3, <2>1 DEF GroupAdds, CatchesUp, GroupRec
<1>4. ASSUME NEW x \in DOMAIN shards, NEW v, GroupDrops(x, v) PROVE w \in group'[s].caughtUp
  <2>1. group[s] \in GroupRec /\ (x = s => v # w)
    BY <1>1, <1>4 DEF GroupDrops
  <2> QED BY <1>1, <1>4, <2>1 DEF GroupDrops, GroupRec
<1>5. ASSUME NEW p, ReconcilerStep(p) \/ ProposeNext(p, FALSE) PROVE UNCHANGED group
  BY <1>5 DEF ReconcilerStep, Reconcile, RepairShard, CleanupDeadReplicas, CleanupDeadWorkers,
     ProposeNext, PassEnds
<1>6. ASSUME NEW p, NEW x, NEW ok, AdvanceMove(p, x, ok) PROVE UNCHANGED group
  BY <1>6 DEF AdvanceMove, ForgetMove, WaitTarget, RemoveSource, WaitRemoval, TryRollbackMove
<1> QED BY <1>2, <1>3, <1>4, <1>5, <1>6
        DEF LoopsNext, ExecuteMove, MoveExpires, ReportExpires, WorkerTimesOut, WorkerDies, DrainWorker,
            DropCollection, WorkerStep, WorkerHeartbeat, ReportShard

LEMMA ReportsKept == LoopsInv /\ LoopsNext => ReportsInv'
<1> SUFFICES ASSUME LoopsInv, LoopsNext PROVE ReportsInv'
  OBVIOUS
<1>1. /\ reports \in [PDs -> [InitialShards -> ReportRec]] /\ DOMAIN shards \subseteq InitialShards
      /\ IInv /\ RegisteredInv /\ PassInv /\ group \in [InitialShards -> GroupRec]
  BY DEF LoopsInv, ReportsInv, RegisteredInv, GroupsInv
<1>2. [Next]_vars /\ DOMAIN shards' \subseteq DOMAIN shards
  BY <1>1, LoopsStep
<1>3. ASSUME NEW s \in DOMAIN shards'
      PROVE  /\ s \in DOMAIN shards /\ shards[s].epoch \in Nat
             /\ \/ shards'[s].replicas = shards[s].replicas /\ shards'[s].epoch = shards[s].epoch
                \/ shards'[s].epoch = shards[s].epoch + 1
  <2>1. s \in DOMAIN shards \cap DOMAIN shards'
    BY <1>2
  <2>2. shards[s].epoch \in Nat
    BY <1>1, <2>1 DEF IInv, TypeOK, ShardInfo
  <2>3. CASE Next
    BY <1>1, <2>1, <2>2, <2>3, SurvivingShards
  <2>4. CASE UNCHANGED vars
    BY <2>1, <2>2, <2>4 DEF vars
  <2> QED BY <1>2, <2>3, <2>4
<1>4. ASSUME NEW s \in DOMAIN shards', NEW r \in ReportRec, ReportTrue(r, s)
      PROVE  ReportTrue(r, s)'
  <2>1. r.epoch \in Nat /\ s \in DOMAIN shards
    BY <1>3 DEF ReportRec
  <2>2. CASE shards'[s].epoch = shards[s].epoch + 1
    BY <1>3, <1>4, <2>1, <2>2 DEF ReportTrue
  <2>3. CASE shards'[s].replicas = shards[s].replicas /\ shards'[s].epoch = shards[s].epoch
    <3>1. \A w : Holds(s, w)' <=> Holds(s, w)
      BY <2>3 DEF Holds
    <3>2. \A w : Holds(s, w) /\ w \in group[s].caughtUp => w \in group'[s].caughtUp
      BY <2>1, ProgressStays
    <3> QED BY <1>4, <2>3, <3>1, <3>2 DEF ReportTrue
  <2> QED BY <1>3, <2>2, <2>3
<1>5. \A p \in PDs, s \in DOMAIN shards : reports[p][s] \in ReportRec /\ ReportTrue(reports[p][s], s)
  BY <1>1 DEF LoopsInv, ReportsInv
<1>6. ASSUME NEW q \in PDs, NEW x \in DOMAIN shards, NEW r \in ReportRec,
             reports' = [reports EXCEPT ![q][x] = r], x \in DOMAIN shards' => ReportTrue(r, x)'
      PROVE  ReportsInv'
  <2>1. reports' \in [PDs -> [InitialShards -> ReportRec]]
    BY <1>1, <1>6
  <2>2. ASSUME NEW p \in PDs, NEW s \in DOMAIN shards' PROVE ReportTrue(reports[p][s], s)'
    <3>1. s \in DOMAIN shards /\ s \in InitialShards
      BY <1>1, <1>3
    <3>2. CASE p = q /\ s = x
      <4>1. reports'[p][s] = r
        BY <1>1, <1>6, <3>1, <3>2
      <4> QED BY <1>6, <3>2, <4>1 DEF ReportTrue
    <3>3. CASE ~(p = q /\ s = x)
      <4>1. reports'[p][s] = reports[p][s]
        BY <1>1, <1>6, <3>1, <3>3
      <4> DEFINE old == reports[p][s]
      <4>2. ReportTrue(old, s) /\ old \in ReportRec
        BY <1>5, <3>1
      <4> QED BY <1>4, <4>1, <4>2 DEF ReportTrue
    <3> QED BY <3>2, <3>3
  <2> QED BY <2>1, <2>2 DEF ReportsInv
<1>7. CASE UNCHANGED reports
  <2>1. ASSUME NEW p \in PDs, NEW s \in DOMAIN shards' PROVE ReportTrue(reports[p][s], s)'
    <3>1. s \in DOMAIN shards
      BY <1>3
    <3>2. ReportTrue(reports[p][s], s) /\ reports[p][s] \in ReportRec
      BY <1>5, <3>1
    <3> QED BY <1>4, <1>7, <3>2 DEF ReportTrue
  <2> QED BY <1>1, <1>7, <2>1 DEF ReportsInv
<1>8. ASSUME NEW p \in PDs, NEW s \in DOMAIN shards, ReportExpires(p, s) PROVE ReportsInv'
  <2>1. NoReport \in ReportRec /\ NoReport.epoch = 0 /\ NoReport.caughtUp = {}
    BY DEF NoReport, ReportRec
  <2>2. reports' = [reports EXCEPT ![p][s] = NoReport] /\ shards' = shards
    BY <1>8 DEF ReportExpires, vars
  <2>3. shards'[s].epoch \in Nat
    BY <1>3, <2>2
  <2>4. ReportTrue(NoReport, s)'
    BY <2>1, <2>3 DEF ReportTrue, NoReport
  <2> QED BY <1>6, <2>1, <2>2, <2>4
<1>9. ASSUME NEW p \in PDs, NEW s \in DOMAIN shards, NEW l, ReportShard(p, s, l) PROVE ReportsInv'
  <2> DEFINE r == [nodes |-> group[s].nodes, configChangeID |-> group[s].configChangeID,
                   caughtUp |-> group[s].caughtUp, epoch |-> shards[s].epoch]
  <2>1. reports' = [reports EXCEPT ![p][s] = r] /\ group' = group /\ UpdateShardLeader(s, l)
    BY <1>9 DEF ReportShard
  <2>2. group[s] \in GroupRec /\ shards[s] \in ShardInfo /\ shards[s].epoch \in Nat
    BY <1>1 DEF IInv, TypeOK, ShardInfo
  <2>3. r \in ReportRec
    BY <2>2 DEF ReportRec, GroupRec
  <2>4. shards'[s].epoch = shards[s].epoch
    <3>1. shards'[s] = LeaderReported(shards[s], l)
      BY <1>1, <2>1 DEF UpdateShardLeader, IInv, TypeOK
    <3> QED BY <2>2, <3>1 DEF LeaderReported, ShardInfo
  <2>5. r.epoch <= shards'[s].epoch /\ r.caughtUp = group'[s].caughtUp
    BY <2>1, <2>2, <2>4
  <2> HIDE DEF r
  <2>6. PICK v \in ReportRec : v = r
    BY <2>3
  <2>7. ReportTrue(v, s)'
    BY <2>5, <2>6 DEF ReportTrue
  <2>8. reports' = [reports EXCEPT ![p][s] = v]
    BY <2>1, <2>6
  <2> QED BY <1>6, <2>7, <2>8
<1>10. ASSUME NEW p, ReconcilerStep(p) \/ ProposeNext(p, FALSE) PROVE UNCHANGED reports
  BY <1>10 DEF ReconcilerStep, Reconcile, RepairShard, CleanupDeadReplicas, CleanupDeadWorkers,
     ProposeNext, PassEnds
<1>11. ASSUME NEW p, NEW x, NEW ok, AdvanceMove(p, x, ok) PROVE UNCHANGED reports
  BY <1>11 DEF AdvanceMove, ForgetMove, WaitTarget, RemoveSource, WaitRemoval, TryRollbackMove
<1> QED BY <1>7, <1>8, <1>9, <1>10, <1>11, ZenonT(60)
        DEF LoopsNext, ExecuteMove, MoveExpires, WorkerTimesOut, WorkerDies, DrainWorker,
            DropCollection, WorkerStep, WorkerHeartbeat, GroupAdds, GroupDrops, CatchesUp

-------------------------------------------------------------------------------
(* The reconciler's passes.                                                *)

\* SetToSeq lists a finite set.
LEMMA SetToSeqType ==
    ASSUME NEW T, IsFiniteSet(T)
    PROVE  SetToSeq(T) \in [1..Cardinality(T) -> T] /\ Cardinality(T) \in Nat
<1>1. Cardinality(T) \in Nat /\ ExistsBijection(1..Cardinality(T), T)
  BY FS_CardinalityType
<1>2. PICK f : f \in Bijection(1..Cardinality(T), T)
  BY <1>1 DEF ExistsBijection
<1>3. f \in [1..Cardinality(T) -> T] /\ IsInjective(f)
  BY <1>2 DEF Bijection, Injection, IsInjective
<1> QED BY <1>1, <1>3 DEF SetToSeq

LEMMA RepairList ==
    ASSUME NEW s \in InitialShards, NEW k \in Int, NEW candidates \in SUBSET DOMAIN InitialWorkers,
           NEW new \in [1..k -> candidates]
    PROVE  [i \in DOMAIN new |-> AddCommand(s, new[i])] \in Seq(Command)
<1> DEFINE f == [i \in DOMAIN new |-> AddCommand(s, new[i])]
<1>1. \A w \in DOMAIN InitialWorkers : AddCommand(s, w) \in Command
  BY DEF AddCommand, Command
<1>2. f \in [1..k -> Command]
  BY <1>1
<1>3. CASE k \in Nat
  BY <1>2, <1>3
<1>4. CASE k < 0
  <2>1. 1..k = 1..0
    BY <1>4
  <2>2. f \in [1..0 -> Command]
    BY <1>2, <2>1
  <2> QED BY <2>2
<1> QED BY <1>3, <1>4

LEMMA MinOfThree ==
    ASSUME NEW a \in Int, NEW b \in Int, NEW c \in Int
    PROVE  Min({a, b, c}) \in Int
<1>1. \E x \in {a, b, c} : \A y \in {a, b, c} : x <= y
  <2>1. CASE a <= b /\ a <= c
    BY <2>1
  <2>2. CASE b <= a /\ b <= c
    BY <2>2
  <2>3. CASE c <= a /\ c <= b
    BY <2>3
  <2> QED BY <2>1, <2>2, <2>3
<1>2. Min({a, b, c}) \in {a, b, c}
  BY <1>1 DEF Min
<1> QED BY <1>2

LEMMA PassKept == LoopsInv /\ LoopsNext => PassInv'
<1> SUFFICES ASSUME LoopsInv, LoopsNext PROVE PassInv'
  OBVIOUS
<1>1. /\ pass \in [PDs -> PassRec] /\ RegisteredInv /\ IInv
      /\ \A p \in PDs : pass[p].repaired = MaxConcurrentRepairs =>
          /\ pass[p].under = {}
          /\ \A i \in DOMAIN pass[p].todo : pass[p].todo[i].type # "AddShardReplica"
  BY DEF LoopsInv, PassInv
<1>2. CASE UNCHANGED pass
  BY <1>1, <1>2 DEF PassInv
<1>3. ASSUME NEW p \in PDs, NEW v \in PassRec, pass' = [pass EXCEPT ![p] = v],
             v.repaired = MaxConcurrentRepairs =>
               v.under = {} /\ \A i \in DOMAIN v.todo : v.todo[i].type # "AddShardReplica"
      PROVE  PassInv'
  BY <1>1, <1>3 DEF PassInv
<1>4. MaxConcurrentRepairs \in Nat \ {0}
  BY LoopsAssumption
<1>5. ASSUME NEW p \in PDs, Reconcile(p) PROVE PassInv'
  <2> DEFINE v == [[[[IdlePass EXCEPT !.under = UnderReplicatedShards] EXCEPT !.healthy = HealthyWorkers]
                      EXCEPT !.deadReplicas = dead] EXCEPT !.deadWorkers = dead]
  <2>1. pass[p] = IdlePass /\ pass' = [pass EXCEPT ![p].under = UnderReplicatedShards,
                                                   ![p].healthy = HealthyWorkers,
                                                   ![p].deadReplicas = dead,
                                                   ![p].deadWorkers = dead]
    BY <1>5 DEF Reconcile
  <2>2. pass' = [pass EXCEPT ![p] = v]
    BY <1>1, <2>1, Zenon
  <2>3. v \in PassRec
    <3>1. /\ UnderReplicatedShards \subseteq InitialShards /\ HealthyWorkers \subseteq DOMAIN InitialWorkers
          /\ dead \subseteq DOMAIN InitialWorkers
      BY <1>1 DEF UnderReplicatedShards, HealthyWorkers, RegisteredInv
    <3>2. IdlePass \in PassRec
      BY <1>4 DEF PassRec, IdlePass
    <3> QED BY <3>1, <3>2 DEF PassRec
  <2>4. v.repaired # MaxConcurrentRepairs
    BY <1>4 DEF IdlePass
  <2> HIDE DEF v
  <2> QED BY <1>3, <2>2, <2>3, <2>4
<1>6. ASSUME NEW p \in PDs, NEW s \in Under(p), RepairShard(p, s) PROVE PassInv'
  <2> DEFINE replicas == Range(shards[s].replicas)
             candidates == pass[p].healthy \ replicas
             needed == RF - Cardinality(replicas \cap pass[p].healthy)
             slots == MaxReplicationFactor - Len(shards[s].replicas)
             k == Min({needed, slots, Cardinality(candidates)})
  <2>1. PICK new \in [1..k -> candidates] :
           pass' = [pass EXCEPT ![p].under = @ \ {s},
                                ![p].todo = [i \in DOMAIN new |-> AddCommand(s, new[i])]]
    BY <1>6 DEF RepairShard
  <2>2. pass[p] \in PassRec /\ s \in pass[p].under /\ s \in DOMAIN shards /\ s \in InitialShards
    BY <1>1 DEF Under, RegisteredInv
  <2>3. candidates \subseteq DOMAIN InitialWorkers /\ pass[p].healthy \subseteq DOMAIN InitialWorkers
    BY <2>2 DEF PassRec
  <2>4. k \in Int
    <3>1. IsFiniteSet(candidates) /\ IsFiniteSet(replicas \cap pass[p].healthy)
      BY <2>3, InitialFacts, FS_Subset
    <3>2. Cardinality(candidates) \in Int /\ Cardinality(replicas \cap pass[p].healthy) \in Int
      BY <3>1, FS_CardinalityType
    <3>3. shards[s].replicas \in Seq(Nat)
      BY <1>1, <2>2 DEF IInv, TypeOK, ShardInfo
    <3>4. needed \in Int /\ slots \in Int
      BY <3>2, <3>3, FSMAssumption
    <3> HIDE DEF needed, slots, candidates
    <3> QED BY <3>2, <3>4, MinOfThree
  <2> DEFINE todo == [i \in DOMAIN new |-> AddCommand(s, new[i])]
  <2> HIDE DEF k, candidates
  <2>5. todo \in Seq(Command)
    BY <2>1, <2>2, <2>3, <2>4, RepairList
  <2> HIDE DEF todo
  <2> DEFINE v == [[pass[p] EXCEPT !.under = @ \ {s}] EXCEPT !.todo = todo]
  <2>6. pass' = [pass EXCEPT ![p] = v]
    BY <1>1, <2>1 DEF todo
  <2>7. v \in PassRec
    BY <2>2, <2>5 DEF PassRec
  <2>8. v.repaired # MaxConcurrentRepairs
    BY <1>1, <2>2 DEF PassRec
  <2> HIDE DEF v
  <2> QED BY <1>3, <2>6, <2>7, <2>8
<1>7. ASSUME NEW p \in PDs, NEW todo \in Seq(Command), NEW v \in PassRec,
             pass' = [pass EXCEPT ![p] = v], v.todo = todo, v.under = pass[p].under,
             v.repaired = pass[p].repaired,
             \A i \in DOMAIN todo : todo[i].type # "AddShardReplica"
      PROVE  PassInv'
  BY <1>1, <1>3, <1>7
<1>8. ASSUME NEW p \in PDs, NEW w \in pass[p].deadReplicas, CleanupDeadReplicas(p, w) PROVE PassInv'
  <2> DEFINE spare == {s \in GetShardsOnWorker(w) :
                          /\ Len(shards[s].replicas) > RF
                          /\ Cardinality(HealthyReplicas(s)) >= RF}
             T == {RemoveCommand(s, w) : s \in spare}
             todo == SetToSeq(T)
  <2>1. pass' = [pass EXCEPT ![p].deadReplicas = @ \ {w}, ![p].todo = todo]
    BY <1>8 DEF CleanupDeadReplicas
  <2>2. pass[p] \in PassRec /\ w \in DOMAIN InitialWorkers /\ spare \subseteq InitialShards
    BY <1>1, <1>8 DEF PassRec, GetShardsOnWorker, RegisteredInv
  <2>3. T \subseteq Command /\ \A c \in T : c.type # "AddShardReplica"
    BY <2>2 DEF RemoveCommand, Command
  <2>4. IsFiniteSet(T)
    <3> DEFINE f == [s \in spare |-> RemoveCommand(s, w)]
    <3> HIDE DEF spare
    <3>1. f \in Surjection(spare, T)
      BY DEF Surjection
    <3>2. IsFiniteSet(spare)
      BY <2>2, InitialFacts, FS_Subset
    <3> HIDE DEF f, T
    <3> QED BY <3>1, <3>2, FS_Surjection
  <2>5. todo \in Seq(Command) /\ \A i \in DOMAIN todo : todo[i].type # "AddShardReplica"
    <3> HIDE DEF T
    <3>1. SetToSeq(T) \in [1..Cardinality(T) -> T] /\ Cardinality(T) \in Nat
      BY <2>4, SetToSeqType
    <3> HIDE DEF todo
    <3>2. todo \in [1..Cardinality(T) -> T] /\ todo \in [1..Cardinality(T) -> Command]
      BY <2>3, <3>1 DEF todo
    <3> QED BY <2>3, <3>1, <3>2
  <2> HIDE DEF todo
  <2> DEFINE v == [[pass[p] EXCEPT !.deadReplicas = @ \ {w}] EXCEPT !.todo = todo]
  <2>6. pass' = [pass EXCEPT ![p] = v]
    BY <1>1, <2>1
  <2>7. v \in PassRec /\ v.todo = todo /\ v.under = pass[p].under /\ v.repaired = pass[p].repaired
    BY <2>2, <2>5 DEF PassRec
  <2> HIDE DEF v
  <2> QED BY <1>7, <2>5, <2>6, <2>7
<1>9. ASSUME NEW p \in PDs, NEW w \in pass[p].deadWorkers, CleanupDeadWorkers(p, w) PROVE PassInv'
  <2> DEFINE c == [type |-> "RemoveWorker", worker |-> w]
             todo == IF GetShardsOnWorker(w) = {} THEN <<c>> ELSE <<>>
  <2>1. pass' = [pass EXCEPT ![p].deadWorkers = @ \ {w}, ![p].todo = todo]
    BY <1>9 DEF CleanupDeadWorkers
  <2>2. pass[p] \in PassRec /\ w \in DOMAIN InitialWorkers
    BY <1>1, <1>9 DEF PassRec
  <2>3. c \in Command /\ c.type # "AddShardReplica"
    BY <2>2 DEF Command
  <2>4. todo \in Seq(Command) /\ \A i \in DOMAIN todo : todo[i].type # "AddShardReplica"
    <3> HIDE DEF c
    <3> QED BY <2>3
  <2> HIDE DEF todo
  <2> DEFINE v == [[pass[p] EXCEPT !.deadWorkers = @ \ {w}] EXCEPT !.todo = todo]
  <2>5. pass' = [pass EXCEPT ![p] = v]
    BY <1>1, <2>1
  <2>6. v \in PassRec /\ v.todo = todo /\ v.under = pass[p].under /\ v.repaired = pass[p].repaired
    BY <2>2, <2>4 DEF PassRec
  <2> HIDE DEF v
  <2> QED BY <1>7, <2>4, <2>5, <2>6
<1>10. ASSUME NEW p \in PDs, NEW ok \in BOOLEAN, ProposeNext(p, ok) PROVE PassInv'
  <2> DEFINE q == pass[p].todo
             repair == Head(q).type = "AddShardReplica"
             done == repair /\ ok /\ Len(q) = 1
             repaired == IF done THEN pass[p].repaired + 1 ELSE pass[p].repaired
             todo == IF repair /\ ~ok THEN <<>> ELSE Tail(q)
             under == IF repaired >= MaxConcurrentRepairs THEN {} ELSE pass[p].under
             v == [[[pass[p] EXCEPT !.todo = todo] EXCEPT !.under = under] EXCEPT !.repaired = repaired]
  <2>1. q # <<>> /\ pass' = [pass EXCEPT ![p].todo = IF repair /\ ~ok THEN <<>> ELSE Tail(@),
                                         ![p].under = IF repaired >= MaxConcurrentRepairs THEN {} ELSE @,
                                         ![p].repaired = repaired]
    BY <1>10 DEF ProposeNext
  <2>2. pass[p] \in PassRec /\ q \in Seq(Command) /\ pass[p].repaired \in 0..MaxConcurrentRepairs
    BY <1>1 DEF PassRec
  <2>3. pass' = [pass EXCEPT ![p] = v]
    <3> HIDE DEF repair, repaired
    <3> QED BY <1>1, <2>1, <2>2 DEF PassRec
  <2>4. todo \in Seq(Command) /\ \A i \in DOMAIN todo : i + 1 \in DOMAIN q /\ todo[i] = q[i + 1]
    BY <2>1, <2>2
  <2>5. pass[p].repaired = MaxConcurrentRepairs => ~repair
    BY <1>1, <2>1, <2>2
  <2>6. repaired \in 0..MaxConcurrentRepairs
    BY <1>4, <2>2, <2>5
  <2>7. under \subseteq InitialShards
    BY <2>2 DEF PassRec
  <2>8. ASSUME repaired = MaxConcurrentRepairs
        PROVE  under = {} /\ \A i \in DOMAIN todo : todo[i].type # "AddShardReplica"
    <3>1. under = {}
      BY <1>4, <2>8
    <3>2. CASE done
      <4>1. DOMAIN q = 1..1
        BY <2>2, <3>2
      <4>2. DOMAIN todo = {}
        BY <2>2, <2>4, <3>2, <4>1
      <4> QED BY <3>1, <4>2
    <3>3. CASE ~done
      <4>1. pass[p].repaired = MaxConcurrentRepairs
        BY <2>8, <3>3
      <4>2. \A i \in DOMAIN q : q[i].type # "AddShardReplica"
        BY <1>1, <4>1
      <4> QED BY <2>4, <3>1, <4>2
    <3> QED BY <3>2, <3>3
  <2>9. v \in PassRec /\ v.repaired = repaired /\ v.under = under /\ v.todo = todo
    <3> HIDE DEF repaired, todo, under
    <3> QED BY <2>2, <2>4, <2>6, <2>7 DEF PassRec
  <2> HIDE DEF v, repaired, todo, under
  <2> QED BY <1>3, <2>3, <2>8, <2>9
<1>11. ASSUME NEW p \in PDs, PassEnds(p) PROVE PassInv'
  <2>1. IdlePass \in PassRec /\ IdlePass.repaired # MaxConcurrentRepairs
    BY <1>4 DEF IdlePass, PassRec
  <2> QED BY <1>3, <1>11, <2>1 DEF PassEnds
<1>12. ASSUME NEW p \in PDs, ReconcilerStep(p) PROVE PassInv'
  BY <1>5, <1>6, <1>8, <1>9, <1>10, <1>11, <1>12 DEF ReconcilerStep
<1>13. ASSUME NEW p, NEW x, NEW ok, AdvanceMove(p, x, ok) PROVE UNCHANGED pass
  BY <1>13 DEF AdvanceMove, ForgetMove, WaitTarget, RemoveSource, WaitRemoval, TryRollbackMove
<1> QED BY <1>2, <1>10, <1>12, <1>13, ZenonT(60)
        DEF LoopsNext, ExecuteMove, MoveExpires, ReportExpires, WorkerTimesOut, WorkerDies, DrainWorker,
            DropCollection, WorkerStep, WorkerHeartbeat, ReportShard, GroupAdds, GroupDrops, CatchesUp


-------------------------------------------------------------------------------
(* The moves in flight.                                                    *)

\* The ways in which a move is started, changed and forgotten.
LEMMA MovesPut ==
    ASSUME NEW moves, MovesOK(moves), NEW s \in InitialShards, NEW m \in MoveRec,
           s \notin DOMAIN moves, Cardinality(DOMAIN moves) < MaxConcurrentMoves
    PROVE  MovesOK(Put(moves, s, m))
<1> DEFINE new == Put(moves, s, m)
<1>1. DOMAIN new = DOMAIN moves \cup {s} /\ \A x \in DOMAIN new : new[x] \in MoveRec
  BY DEF Put, MovesOK
<1>2. new \in [DOMAIN new -> MoveRec]
  BY <1>1 DEF Put
<1>3. IsFiniteSet(DOMAIN moves)
  BY InitialFacts, FS_Subset DEF MovesOK
<1>4. Cardinality(DOMAIN moves \cup {s}) = Cardinality(DOMAIN moves) + 1 /\ Cardinality(DOMAIN moves) \in Nat
  BY <1>3, FS_AddElement, FS_CardinalityType
<1> HIDE DEF new
<1>5. Cardinality(DOMAIN new) <= MaxConcurrentMoves
  BY <1>1, <1>4, LoopsAssumption
<1>6. DOMAIN new \subseteq InitialShards
  BY <1>1 DEF MovesOK
<1> QED BY <1>2, <1>5, <1>6 DEF MovesOK, new

LEMMA MovesChange ==
    ASSUME NEW moves, MovesOK(moves), NEW s \in DOMAIN moves, NEW m \in MoveRec
    PROVE  MovesOK([moves EXCEPT ![s] = m])
<1> DEFINE new == [moves EXCEPT ![s] = m]
<1>1. DOMAIN new = DOMAIN moves
  OBVIOUS
<1>2. new \in [DOMAIN moves -> MoveRec]
  BY DEF MovesOK
<1> QED BY <1>1, <1>2 DEF MovesOK

LEMMA MovesDrop ==
    ASSUME NEW moves, MovesOK(moves), NEW s
    PROVE  MovesOK(Drop(moves, {s}))
<1> DEFINE new == Drop(moves, {s})
<1>1. DOMAIN new = DOMAIN moves \ {s} /\ \A x \in DOMAIN new : new[x] \in MoveRec
  BY DEF Drop, MovesOK
<1>2. new \in [DOMAIN new -> MoveRec]
  BY <1>1 DEF Drop
<1>3. IsFiniteSet(DOMAIN moves) /\ DOMAIN moves \ {s} \subseteq DOMAIN moves
  BY InitialFacts, FS_Subset DEF MovesOK
<1>4. /\ Cardinality(DOMAIN moves \ {s}) <= Cardinality(DOMAIN moves)
      /\ Cardinality(DOMAIN moves) \in Nat /\ Cardinality(DOMAIN moves \ {s}) \in Nat
  <2>1. IsFiniteSet(DOMAIN moves \ {s})
    BY <1>3, FS_Subset
  <2> QED BY <1>3, <2>1, FS_Subset, FS_CardinalityType
<1> HIDE DEF new
<1>5. Cardinality(DOMAIN new) <= MaxConcurrentMoves
  <2>1. Cardinality(DOMAIN moves) <= MaxConcurrentMoves
    BY DEF MovesOK
  <2> QED BY <1>1, <1>4, <2>1, LoopsAssumption
<1>6. DOMAIN new \subseteq InitialShards
  BY <1>1 DEF MovesOK
<1> QED BY <1>2, <1>5, <1>6 DEF MovesOK, new

\* What a step does to the move it looks at.
LEMMA MoveFields ==
    ASSUME NEW m \in MoveRec, NEW id \in Nat, NEW b \in BOOLEAN
    PROVE  /\ \A ph \in {"waitTarget", "remove", "waitRemoval"} : [m EXCEPT !.phase = ph] \in MoveRec
           /\ [m EXCEPT !.expired = TRUE] \in MoveRec
           /\ [m EXCEPT !.waitLeaderTransferAck = b, !.removeConfigChangeID = id] \in MoveRec
<1>1. \A ph \in {"waitTarget", "remove", "waitRemoval"} : [m EXCEPT !.phase = ph] \in MoveRec
  BY DEF MoveRec
<1>2. [m EXCEPT !.expired = TRUE] \in MoveRec
  BY DEF MoveRec
<1>3. [m EXCEPT !.waitLeaderTransferAck = b] \in MoveRec
  BY DEF MoveRec
<1>4. \A x \in MoveRec : [x EXCEPT !.removeConfigChangeID = id] \in MoveRec
  BY DEF MoveRec
<1> QED BY <1>1, <1>2, <1>3, <1>4

LEMMA MovesKept == LoopsInv /\ LoopsNext => MovesInv'
<1> SUFFICES ASSUME LoopsInv, LoopsNext PROVE MovesInv'
  OBVIOUS
<1>1. /\ inflightMoves = [p \in PDs |-> inflightMoves[p]] /\ \A p \in PDs : MovesOK(inflightMoves[p])
      /\ reports \in [PDs -> [InitialShards -> ReportRec]]
      /\ DOMAIN workers \subseteq DOMAIN InitialWorkers /\ DOMAIN shards \subseteq InitialShards
  BY DEF LoopsInv, MovesInv, ReportsInv, RegisteredInv
<1>2. CASE UNCHANGED inflightMoves
  <2>1. MovesInv' <=> MovesInv
    BY <1>2 DEF MovesInv
  <2> QED BY <2>1 DEF LoopsInv
<1>3. ASSUME NEW p \in PDs, NEW v, MovesOK(v), inflightMoves' = [inflightMoves EXCEPT ![p] = v]
      PROVE  MovesInv'
  <2>1. inflightMoves' = [q \in PDs |-> IF q = p THEN v ELSE inflightMoves[q]]
    BY <1>1, <1>3
  <2>2. \A q \in PDs : MovesOK(inflightMoves'[q])
    BY <1>1, <1>3, <2>1
  <2>3. inflightMoves' = [q \in PDs |-> inflightMoves'[q]]
    BY <2>1
  <2> QED BY <2>2, <2>3 DEF MovesInv, MovesOK
<1>4. ASSUME NEW p \in PDs, NEW s, DropMove(p, s) PROVE MovesInv'
  <2>1. inflightMoves' = [inflightMoves EXCEPT ![p] = Drop(inflightMoves[p], {s})]
    BY <1>4 DEF DropMove
  <2>2. MovesOK(Drop(inflightMoves[p], {s}))
    BY <1>1, MovesDrop
  <2>3. PICK v : v = Drop(inflightMoves[p], {s})
    OBVIOUS
  <2> QED BY <1>3, <2>1, <2>2, <2>3
<1>5. ASSUME NEW p \in PDs, NEW s \in DOMAIN inflightMoves[p], NEW m \in MoveRec, Advance(p, s, m)
      PROVE  MovesInv'
  <2> DEFINE new == [inflightMoves[p] EXCEPT ![s] = m]
  <2>1. inflightMoves' = [inflightMoves EXCEPT ![p] = new]
    BY <1>5 DEF Advance
  <2>2. MovesOK(new)
    BY <1>1, MovesChange
  <2>3. PICK v : v = new
    OBVIOUS
  <2> HIDE DEF new
  <2> QED BY <1>3, <2>1, <2>2, <2>3
<1>6. ASSUME NEW p \in PDs, NEW s \in DOMAIN shards, NEW source \in DOMAIN workers, NEW target \in DOMAIN workers,
             NEW ok \in BOOLEAN, ExecuteMove(p, s, source, target, ok)
      PROVE  MovesInv'
  <2> DEFINE m == [source |-> source, target |-> target, phase |-> "waitTarget",
                   addConfigChangeID |-> reports[p][s].configChangeID,
                   removeConfigChangeID |-> 0, waitLeaderTransferAck |-> FALSE, expired |-> FALSE]
             new == Put(inflightMoves[p], s, m)
  <2>1. CASE ~ok
    BY <1>2, <1>6, <2>1 DEF ExecuteMove
  <2>2. CASE ok
    <3>1. /\ inflightMoves' = [inflightMoves EXCEPT ![p] = new]
          /\ s \notin DOMAIN inflightMoves[p]
          /\ Cardinality(DOMAIN inflightMoves[p]) < MaxConcurrentMoves
      BY <1>6, <2>2 DEF ExecuteMove, RebalanceMove
    <3>2. reports[p][s].configChangeID \in Nat /\ s \in InitialShards
      BY <1>1 DEF ReportRec
    <3>3. m \in MoveRec
      BY <1>1, <3>2 DEF MoveRec
    <3> HIDE DEF m
    <3>4. MovesOK(new)
      BY <1>1, <3>1, <3>2, <3>3, MovesPut
    <3>5. PICK v : v = new
      OBVIOUS
    <3> HIDE DEF new
    <3> QED BY <1>3, <3>1, <3>4, <3>5
  <2> QED BY <2>1, <2>2
<1>7. ASSUME NEW p \in PDs, NEW s \in DOMAIN inflightMoves[p]
      PROVE  inflightMoves[p][s] \in MoveRec /\ s \in InitialShards
  BY <1>1 DEF MovesOK
<1>8. ASSUME NEW p \in PDs, NEW s \in DOMAIN inflightMoves[p],
             \E m \in MoveRec : Advance(p, s, m)
      PROVE  MovesInv'
  BY <1>5, <1>8
<1>9. ASSUME NEW p \in PDs, NEW s \in DOMAIN inflightMoves[p], WaitTarget(p, s) \/ MoveExpires(p, s)
      PROVE  MovesInv'
  <2> DEFINE m == inflightMoves[p][s]
  <2>1. m \in MoveRec
    BY <1>7
  <2>2. [m EXCEPT !.phase = "remove"] \in MoveRec /\ [m EXCEPT !.expired = TRUE] \in MoveRec
    BY <2>1, MoveFields
  <2>3. Advance(p, s, [m EXCEPT !.phase = "remove"]) \/ Advance(p, s, [m EXCEPT !.expired = TRUE])
    BY <1>9 DEF WaitTarget, MoveExpires
  <2> HIDE DEF m
  <2> QED BY <1>8, <2>2, <2>3
<1>10. ASSUME NEW p \in PDs, NEW s \in DOMAIN inflightMoves[p], NEW ok, RemoveSource(p, s, ok) PROVE MovesInv'
  <2> DEFINE m == inflightMoves[p][s]
             b == m.waitLeaderTransferAck \/ shards[s].leader = m.source
             id == IF m.removeConfigChangeID = 0 THEN reports[p][s].configChangeID ELSE m.removeConfigChangeID
             noted == [m EXCEPT !.waitLeaderTransferAck = b, !.removeConfigChangeID = id]
  <2>1. m \in MoveRec /\ reports[p][s] \in ReportRec
    BY <1>1, <1>7
  <2>2. id \in Nat /\ b \in BOOLEAN
    BY <2>1 DEF MoveRec, ReportRec
  <2>3. \/ Advance(p, s, [noted EXCEPT !.phase = "waitRemoval"]) \/ Advance(p, s, noted)
        \/ Advance(p, s, [m EXCEPT !.phase = "waitRemoval"])
    BY <1>10, Zenon DEF RemoveSource
  <2> HIDE DEF m, b, id
  <2>4. noted \in MoveRec /\ [m EXCEPT !.phase = "waitRemoval"] \in MoveRec
    BY <2>1, <2>2, MoveFields
  <2> HIDE DEF noted
  <2>5. [noted EXCEPT !.phase = "waitRemoval"] \in MoveRec
    BY <2>4, MoveFields
  <2> QED BY <1>8, <2>3, <2>4, <2>5
<1>11. ASSUME NEW p \in PDs, NEW s \in DOMAIN inflightMoves[p], NEW ok, AdvanceMove(p, s, ok) PROVE MovesInv'
  <2>1. ASSUME NEW acked, WaitRemoval(p, s, acked) PROVE DropMove(p, s)
    BY <2>1 DEF WaitRemoval
  <2>2. ASSUME TryRollbackMove(p, s, ok) PROVE DropMove(p, s) \/ UNCHANGED inflightMoves
    BY <2>2, Zenon DEF TryRollbackMove
  <2>3. ASSUME ForgetMove(p, s) PROVE DropMove(p, s)
    BY <2>3 DEF ForgetMove
  <2> QED BY <1>2, <1>4, <1>9, <1>10, <1>11, <2>1, <2>2, <2>3 DEF AdvanceMove
<1>12. ASSUME NEW p, ReconcilerStep(p) \/ ProposeNext(p, FALSE) PROVE UNCHANGED inflightMoves
  BY <1>12 DEF ReconcilerStep, Reconcile, RepairShard, CleanupDeadReplicas, CleanupDeadWorkers,
     ProposeNext, PassEnds
<1> QED BY <1>2, <1>6, <1>9, <1>11, <1>12
        DEF LoopsNext, ReportExpires, WorkerTimesOut, WorkerDies, DrainWorker,
            DropCollection, WorkerStep, WorkerHeartbeat, ReportShard, GroupAdds, GroupDrops, CatchesUp


-------------------------------------------------------------------------------
(* The theorems.                                                           *)

LEMMA LoopsInvKept == LoopsInv /\ [LoopsNext]_allVars => LoopsInv'
<1> SUFFICES ASSUME LoopsInv, [LoopsNext]_allVars PROVE LoopsInv'
  OBVIOUS
<1>1. CASE LoopsNext
  <2>1. IInv /\ RegisteredInv /\ PassInv
    BY DEF LoopsInv
  <2>2. [Next]_vars /\ RegisteredInv'
    BY <1>1, <2>1, LoopsStep
  <2>3. IInv'
    BY <2>1, <2>2, NextPreserves
  <2>4. GroupsInv' /\ PassInv' /\ MovesInv' /\ ReportsInv'
    BY <1>1, GroupsKept, PassKept, MovesKept, ReportsKept
  <2> QED BY <2>2, <2>3, <2>4 DEF LoopsInv
<1>2. CASE UNCHANGED allVars
  <2>1. /\ UNCHANGED vars /\ dead' = dead /\ group' = group /\ pass' = pass /\ reports' = reports
        /\ inflightMoves' = inflightMoves
    BY <1>2 DEF allVars, loopVars
  <2>2. IInv'
    BY <2>1, NextPreserves DEF LoopsInv
  <2>3. RegisteredInv'
    BY <2>1 DEF LoopsInv, RegisteredInv, vars
  <2>4. GroupsInv' /\ PassInv'
    BY <2>1 DEF LoopsInv, GroupsInv, PassInv
  <2>5. MovesInv' <=> MovesInv
    BY <2>1 DEF MovesInv
  <2>6. ReportsInv'
    BY <2>1 DEF LoopsInv, ReportsInv, ReportTrue, Holds, vars
  <2> QED BY <2>2, <2>3, <2>4, <2>5, <2>6 DEF LoopsInv
<1> QED BY <1>1, <1>2

LEMMA LoopsInvariant == LoopsSpec => []LoopsInv
BY LoopsInitInv, LoopsInvKept, PTL DEF LoopsSpec

\* The loops' state is well formed however the placement drivers' loops, the workers, lost
\* reports and failed proposals interleave: the concurrency limits of repairs and moves
\* hold and a dead worker is never one that has just been heard of.
THEOREM LoopsWellFormed == LoopsSpec => []LoopsTypeOK
<1>1. LoopsInv => LoopsTypeOK
  <2> SUFFICES ASSUME LoopsInv PROVE LoopsTypeOK
    OBVIOUS
  <2>1. dead \subseteq DOMAIN workers \ fresh
    BY DEF LoopsInv, RegisteredInv
  <2>2. \A s \in InitialShards : group[s].caughtUp \subseteq group[s].nodes
    BY DEF LoopsInv, GroupsInv
  <2>3. \A p \in PDs : pass[p].todo \in Seq(Command) /\ pass[p].repaired \in 0..MaxConcurrentRepairs
    BY DEF LoopsInv, PassInv, PassRec
  <2>4. \A p \in PDs : Cardinality(DOMAIN inflightMoves[p]) <= MaxConcurrentMoves
    BY DEF LoopsInv, MovesInv, MovesOK
  <2> QED BY <2>1, <2>2, <2>3, <2>4 DEF LoopsTypeOK
<1> QED BY <1>1, LoopsInvariant, PTL

\* The loops act on the replicated state machine only by its commands, whatever Propose
\* tells them of the outcome: each of their steps is a step of it or leaves it alone.
THEOREM LoopsActByCommands == LoopsSpec => [][Next]_vars
<1>1. LoopsInv /\ [LoopsNext]_allVars => [Next]_vars
  <2>1. LoopsInv /\ LoopsNext => [Next]_vars
    BY LoopsStep DEF LoopsInv
  <2>2. UNCHANGED allVars => UNCHANGED vars
    BY DEF allVars
  <2> QED BY <2>1, <2>2
<1> QED BY <1>1, LoopsInvariant, PTL DEF LoopsSpec

\* Repairs, clean-ups and moves that overlap, of one placement driver or of several, put
\* no worker twice on a replica list and leave no list empty or over its limit.
THEOREM LoopsKeepLists == LoopsSpec => []ReplicaListsSound
<1>1. LoopsInv => ReplicaListsSound
  BY DEF LoopsInv, IInv
<1> QED BY <1>1, LoopsInvariant, PTL

\* Whatever the loops of several placement drivers propose, twice, late or on old reports:
\* no shard that has reached the replication factor falls below it, every change of an
\* assignment gets newer epochs, and a draining worker is given nothing.
THEOREM LoopsNeverRegress ==
    LoopsSpec => ReplicationNeverRegresses /\ EpochsOrderAssignments /\ DrainOnlyShrinks
<1>1. LoopsInv => IInv
  BY DEF LoopsInv
<1> QED BY <1>1, LoopsInvariant, LoopsActByCommands, CommandsKeepReplication,
           CommandsOrderEpochs, CommandsKeepDraining, PTL

\* The loops keep the promise of ReplicaSets from the placed collection on: what workers
\* are told changes by one member of one shard at a time, under newer epochs.
THEOREM LoopsKeepPromise == LoopsSpec => [][Promise!Next]_(Promise!vars)
<1>1. LoopsInv => IInv
  BY DEF LoopsInv
<1> QED BY <1>1, LoopsInvariant, LoopsActByCommands, CommandsKeepPromise, PTL

\* A move that goes on to remove its source has a target that, if it is still a replica,
\* holds a complete copy: advanceMovesLocked trusts a report of the group made before, and
\* the epoch it compares is what keeps that report true.
THEOREM RemovalsWait == LoopsSpec => RemovalWaitsForCopy
<1> DEFINE A == \A p \in PDs : \A s \in DOMAIN inflightMoves[p] \cap DOMAIN shards :
                  (/\ inflightMoves[p][s].phase = "waitTarget" /\ Holds(s, inflightMoves[p][s].target)
                   /\ s \in DOMAIN inflightMoves'[p] /\ inflightMoves'[p][s].phase = "remove")
                     => inflightMoves[p][s].target \in group[s].caughtUp
<1>1. LoopsInv /\ LoopsNext => A
  <2> SUFFICES ASSUME LoopsInv, LoopsNext, NEW p \in PDs, NEW s \in DOMAIN inflightMoves[p] \cap DOMAIN shards,
                      inflightMoves[p][s].phase = "waitTarget", Holds(s, inflightMoves[p][s].target),
                      s \in DOMAIN inflightMoves'[p], inflightMoves'[p][s].phase = "remove"
               PROVE  inflightMoves[p][s].target \in group[s].caughtUp
    OBVIOUS
  <2> DEFINE m == inflightMoves[p][s]
             goal == m.target \in group[s].caughtUp
  <2>1. /\ DOMAIN inflightMoves = PDs /\ \A q \in PDs : MovesOK(inflightMoves[q])
        /\ inflightMoves[p] \in [DOMAIN inflightMoves[p] -> MoveRec] /\ m \in MoveRec
    <3>1. inflightMoves = [q \in PDs |-> inflightMoves[q]] /\ \A q \in PDs : MovesOK(inflightMoves[q])
      BY DEF LoopsInv, MovesInv
    <3> QED BY <3>1 DEF MovesOK
  <2>2. CASE inflightMoves'[p][s] = inflightMoves[p][s]
    BY <2>2
  <2>3. ASSUME NEW q \in PDs, NEW x, DropMove(q, x) PROVE goal
    <3>1. CASE q = p
      <4>1. inflightMoves'[p] = Drop(inflightMoves[p], {x})
        BY <2>1, <2>3, <3>1 DEF DropMove
      <4> QED BY <2>2, <4>1 DEF Drop
    <3>2. CASE q # p
      BY <2>1, <2>2, <2>3, <3>2 DEF DropMove
    <3> QED BY <3>1, <3>2
  <2>4. ASSUME NEW q \in PDs, NEW x, NEW v, Advance(q, x, v), q # p \/ x # s PROVE goal
    BY <2>1, <2>2, <2>4 DEF Advance
  <2>5. ASSUME NEW v, Advance(p, s, v) PROVE v.phase = "remove"
    BY <2>1, <2>5 DEF Advance
  <2>6. ASSUME WaitTarget(p, s) PROVE goal
    <3>1. reports[p][s].epoch >= shards[s].epoch /\ m.target \in reports[p][s].caughtUp
      BY <2>6 DEF WaitTarget
    <3>2. ReportTrue(reports[p][s], s) /\ reports[p][s] \in ReportRec /\ shards[s] \in ShardInfo
      BY DEF LoopsInv, ReportsInv, RegisteredInv, IInv, TypeOK
    <3>3. reports[p][s].epoch = shards[s].epoch
      BY <3>1, <3>2 DEF ReportTrue, ReportRec, ShardInfo
    <3> QED BY <3>1, <3>2, <3>3 DEF ReportTrue
  <2>7. ASSUME NEW q \in PDs, NEW x, MoveExpires(q, x) PROVE goal
    <3>1. Advance(q, x, [inflightMoves[q][x] EXCEPT !.expired = TRUE])
      BY <2>7 DEF MoveExpires
    <3>2. [m EXCEPT !.expired = TRUE].phase = "waitTarget"
      BY <2>1 DEF MoveRec
    <3> QED BY <2>4, <2>5, <3>1, <3>2
  <2>8. ASSUME NEW q \in PDs, NEW x, NEW ok, RemoveSource(q, x, ok) PROVE goal
    <3>1. inflightMoves[q][x].phase = "remove" /\ \E v : Advance(q, x, v)
      BY <2>8, Zenon DEF RemoveSource
    <3>2. q # p \/ x # s
      BY <3>1
    <3> QED BY <2>4, <3>1, <3>2
  <2>9. ASSUME NEW q \in PDs, NEW x, WaitTarget(q, x) PROVE goal
    <3>1. \E v : Advance(q, x, v)
      BY <2>9 DEF WaitTarget
    <3> QED BY <2>4, <2>6, <2>9, <3>1
  <2>10. ASSUME NEW q \in PDs, NEW x, NEW source, NEW target, NEW ok, ExecuteMove(q, x, source, target, ok)
         PROVE  goal
    <3>1. CASE inflightMoves' = inflightMoves
      BY <2>2, <3>1
    <3>2. ASSUME NEW v, inflightMoves' = [inflightMoves EXCEPT ![q] = Put(inflightMoves[q], x, v)] PROVE goal
      <4>1. CASE q = p
        <5>1. inflightMoves'[p] = Put(inflightMoves[p], x, v) /\ x # s
          BY <2>1, <2>10, <3>2, <4>1 DEF ExecuteMove, RebalanceMove
        <5> QED BY <2>2, <5>1 DEF Put
      <4>2. CASE q # p
        BY <2>1, <2>2, <3>2, <4>2
      <4> QED BY <4>1, <4>2
    <3> QED BY <2>10, <3>1, <3>2 DEF ExecuteMove
  <2>11. ASSUME NEW q \in PDs, NEW x, NEW ok, AdvanceMove(q, x, ok) PROVE goal
    <3>1. ASSUME NEW acked, WaitRemoval(q, x, acked) PROVE DropMove(q, x)
      BY <3>1 DEF WaitRemoval
    <3>2. ASSUME TryRollbackMove(q, x, ok) PROVE DropMove(q, x) \/ UNCHANGED inflightMoves
      BY <3>2, Zenon DEF TryRollbackMove
    <3>3. ASSUME ForgetMove(q, x) PROVE DropMove(q, x)
      BY <3>3 DEF ForgetMove
    <3> HIDE DEF goal
    <3> QED BY <2>2, <2>3, <2>8, <2>9, <2>11, <3>1, <3>2, <3>3 DEF AdvanceMove
  <2>12. ASSUME NEW q, ReconcilerStep(q) \/ ProposeNext(q, FALSE) PROVE UNCHANGED inflightMoves
    BY <2>12 DEF ReconcilerStep, Reconcile, RepairShard, CleanupDeadReplicas, CleanupDeadWorkers,
       ProposeNext, PassEnds
  <2> QED BY <2>2, <2>7, <2>10, <2>11, <2>12, ZenonT(60)
          DEF LoopsNext, ReportExpires, WorkerTimesOut, WorkerDies, DrainWorker,
              DropCollection, WorkerStep, WorkerHeartbeat, ReportShard, GroupAdds, GroupDrops, CatchesUp
<1>2. LoopsInv /\ [LoopsNext]_allVars => [A]_allVars
  BY <1>1
<1>3. LoopsSpec => [][A]_allVars
  BY <1>2, LoopsInvariant, PTL DEF LoopsSpec
<1> QED BY <1>3 DEF RemovalWaitsForCopy

===============================================================================
