--------------------------- MODULE PlacementProofs ---------------------------
(* Theorems about PlacementFSM and the specification it implements, for      *)
(* every set of addresses and collections, every replication factor and      *)
(* every limit.                                                              *)
EXTENDS PlacementRefinement, FiniteSetTheorems, SequenceTheorems, TLAPS

\* Removing position i from a list without repetitions: one shorter, still
\* without repetitions, and no new element.
LEMMA RemoveAtLemma ==
  ASSUME NEW q \in Seq(Nat), IsInjective(q), NEW i \in 1..Len(q)
  PROVE  /\ RemoveAt(q, i) \in Seq(Nat)
         /\ Len(RemoveAt(q, i)) = Len(q) - 1
         /\ IsInjective(RemoveAt(q, i))
         /\ Range(RemoveAt(q, i)) \subseteq Range(q)
<1> DEFINE a == SubSeq(q, 1, i-1)
<1> DEFINE b == SubSeq(q, i+1, Len(q))
<1> DEFINE r == RemoveAt(q, i)
<1>a. /\ a \in Seq(Nat)
      /\ Len(a) = i - 1
      /\ \A j \in 1..(i-1) : a[j] = q[j]
  BY SubSeqProperties
<1>b. /\ b \in Seq(Nat)
      /\ Len(b) = Len(q) - i
      /\ \A j \in 1..(Len(q) - i) : b[j] = q[i+j]
  BY SubSeqProperties
<1>c. r = a \o b
  BY DEF RemoveAt
<1> HIDE DEF a, b, r
<1>1. /\ r \in Seq(Nat)
      /\ Len(r) = Len(q) - 1
  BY <1>a, <1>b, <1>c, ConcatProperties
<1>2. \A j \in 1..(Len(q) - 1) : r[j] = IF j < i THEN q[j] ELSE q[j+1]
  <2>1. \A j \in 1..(Len(a) + Len(b)) : r[j] = IF j <= Len(a) THEN a[j] ELSE b[j - Len(a)]
    BY <1>a, <1>b, <1>c, ConcatProperties
  <2>2. SUFFICES ASSUME NEW j \in 1..(Len(q) - 1)
                 PROVE  r[j] = IF j < i THEN q[j] ELSE q[j+1]
    OBVIOUS
  <2>3. r[j] = IF j <= i - 1 THEN a[j] ELSE b[j - (i-1)]
    BY <1>a, <1>b, <2>1
  <2>4. CASE j < i
    BY <1>a, <2>3, <2>4, SMTT(30)
  <2>5. CASE j >= i
    <3>1. j - (i-1) \in 1..(Len(q) - i) /\ i + (j - (i-1)) = j + 1
      BY <2>5
    <3>2. b[j - (i-1)] = q[i + (j - (i-1))]
      BY <1>b, <3>1
    <3>3. r[j] = b[j - (i-1)] /\ ~(j < i)
      BY <2>3, <2>5
    <3> QED BY <3>1, <3>2, <3>3
  <2> QED BY <2>4, <2>5
<1>3. DOMAIN r = 1..(Len(q) - 1) /\ DOMAIN q = 1..Len(q)
  BY <1>1
<1>4. IsInjective(r)
  <2>1. SUFFICES ASSUME NEW x \in 1..(Len(q) - 1), NEW y \in 1..(Len(q) - 1), r[x] = r[y]
                 PROVE  x = y
    BY <1>3 DEF IsInjective
  <2>2. \A u, v \in 1..Len(q) : q[u] = q[v] => u = v
    BY <1>3 DEF IsInjective
  <2> DEFINE at(j) == IF j < i THEN j ELSE j + 1
  <2>3. \A j \in 1..(Len(q) - 1) : at(j) \in 1..Len(q) /\ r[j] = q[at(j)]
    BY <1>2
  <2>4. at(x) = at(y)
    <3> HIDE DEF at
    <3> QED BY <2>1, <2>2, <2>3
  <2> QED BY <2>4
<1>5. Range(r) \subseteq Range(q)
  <2>1. \A j \in 1..(Len(q) - 1) : \E k \in 1..Len(q) : r[j] = q[k]
    BY <1>2
  <2> QED BY <1>3, <2>1 DEF Range
<1> QED BY <1>1, <1>4, <1>5 DEF r

\* Appending a worker that is not in a list without repetitions.
LEMMA AppendLemma ==
  ASSUME NEW q \in Seq(Nat), IsInjective(q), NEW w \in Nat, w \notin Range(q)
  PROVE  /\ Append(q, w) \in Seq(Nat)
         /\ Len(Append(q, w)) = Len(q) + 1
         /\ IsInjective(Append(q, w))
         /\ Range(Append(q, w)) = Range(q) \cup {w}
<1> DEFINE r == Append(q, w)
<1>1. r \in Seq(Nat) /\ Len(r) = Len(q) + 1
  OBVIOUS
<1>2. \A j \in 1..Len(q) : r[j] = q[j]
  OBVIOUS
<1>3. r[Len(q) + 1] = w
  OBVIOUS
<1>4. DOMAIN r = 1..(Len(q) + 1) /\ DOMAIN q = 1..Len(q)
  BY <1>1
<1>5. IsInjective(r)
  BY <1>2, <1>3, <1>4 DEF IsInjective, Range
<1>6. Range(r) = Range(q) \cup {w}
  BY <1>2, <1>3, <1>4 DEF Range
<1> QED BY <1>1, <1>5, <1>6

\* The replica lists a new collection can get: between 1 and RF registered
\* workers, without repetitions.
LEMMA PlacementLemma ==
  ASSUME TypeOK, Eligible # {}, NEW r \in PlacementChoices(Eligible, ActualReplication)
  PROVE  /\ r \in Seq(Nat)
         /\ Len(r) \in 1..RF
         /\ IsInjective(r)
         /\ Range(r) \subseteq DOMAIN workers
<1>1. Eligible \subseteq DOMAIN workers /\ Eligible \subseteq Nat
  BY DEF Eligible, TypeOK
<1>2. IsFiniteSet(Eligible)
  <2>1. \A w \in Eligible : w <= nextWorkerID - 1
    BY <1>1 DEF TypeOK
  <2>2. nextWorkerID - 1 \in Nat
    BY DEF TypeOK
  <2> QED BY <1>1, <2>1, <2>2, FS_BoundedSetOfNaturals
<1>3. Cardinality(Eligible) \in Nat \ {0}
  BY <1>2, FS_CardinalityType, FS_EmptySet
<1>4. ActualReplication \in 1..RF
  BY <1>3, FSMAssumption DEF ActualReplication
<1>5. r \in [1..ActualReplication -> Eligible] /\ IsInjective(r)
  BY DEF PlacementChoices
<1>6. r \in Seq(Nat) /\ Len(r) = ActualReplication
  BY <1>1, <1>4, <1>5
<1>7. Range(r) \subseteq DOMAIN workers
  BY <1>1, <1>5 DEF Range
<1> QED BY <1>4, <1>5, <1>6, <1>7

-----------------------------------------------------------------------------
(* The inductive invariant.  ReplicasRegistered alone is not inductive: a    *)
(* replica list must also stay a list of ids below nextWorkerID (TypeOK), and *)
(* the removal guard speaks of workers only if a list names each one once.    *)

IInv == TypeOK /\ ReplicasRegistered /\ ReplicaListsSound /\ BootstrapLatch

\* What IInv says of one shard, when W are the registered workers.
ShardOK(sh, W) ==
    /\ sh \in ShardInfo
    /\ Range(sh.replicas) \subseteq W
    /\ IsInjective(sh.replicas)
    /\ Len(sh.replicas) \in 1..MaxReplicationFactor
    /\ sh.bootstrapped <=> sh.bootstrapMembers = <<>>
    /\ sh.leader # 0 => sh.bootstrapped

RegistryOK ==
    /\ nextWorkerID \in Nat \ {0}
    /\ DOMAIN workers \subseteq 1..(nextWorkerID - 1)
    /\ workers \in [DOMAIN workers -> WorkerInfo]
    /\ fresh \subseteq DOMAIN workers

ShardsOK ==
    /\ assignmentsEpoch \in Nat \ {0}
    /\ nextShardID \in Nat \ {0}
    /\ DOMAIN shards \subseteq 1..(nextShardID - 1)
    /\ shards = [s \in DOMAIN shards |-> shards[s]]
    /\ \A s \in DOMAIN shards : ShardOK(shards[s], DOMAIN workers)

\* The invariant split by the variables it is about.
LEMMA IInvParts == IInv <=> RegistryOK /\ ShardsOK
BY DEF IInv, TypeOK, ReplicasRegistered, ReplicaListsSound, BootstrapLatch,
       RegistryOK, ShardsOK, ShardOK

\* A shard as CreateCollection makes it is sound.
LEMMA NewShardOK ==
  ASSUME TypeOK, Eligible # {}, NEW c \in Colls,
         NEW r \in PlacementChoices(Eligible, ActualReplication)
  PROVE  ShardOK(NewShard(c, r), DOMAIN workers)
<1>1. /\ r \in Seq(Nat) /\ Len(r) \in 1..RF
      /\ IsInjective(r) /\ Range(r) \subseteq DOMAIN workers
  BY PlacementLemma
<1>2. r # <<>>
  BY <1>1
<1> QED BY <1>1, <1>2, FSMAssumption DEF ShardOK, NewShard, ShardInfo

\* Replacing the replica list of a sound shard by a sound list.
LEMMA SetReplicasOK ==
  ASSUME RegistryOK, ShardsOK, NEW s \in DOMAIN shards, NEW q \in Seq(Nat),
         SetReplicas(s, q), Range(q) \subseteq DOMAIN workers, IsInjective(q),
         Len(q) \in 1..MaxReplicationFactor
  PROVE  RegistryOK' /\ ShardsOK'
<1>1. RegistryOK'
  BY DEF SetReplicas, RegistryOK
<1>2. /\ DOMAIN shards' = DOMAIN shards
      /\ shards' = [x \in DOMAIN shards' |-> shards'[x]]
      /\ \A x \in DOMAIN shards : x # s => shards'[x] = shards[x]
      /\ shards'[s] = [shards[s] EXCEPT !.replicas = q, !.epoch = @ + 1]
  BY DEF SetReplicas, ShardsOK
<1>3. ShardOK(shards'[s], DOMAIN workers)
  <2>1. ShardOK(shards[s], DOMAIN workers)
    BY DEF ShardsOK
  <2>2. shards'[s] \in ShardInfo
    <3>1. /\ shards[s].coll \in Colls /\ shards[s].leader \in Nat /\ shards[s].epoch + 1 \in Nat
          /\ shards[s].bootstrapped \in BOOLEAN /\ shards[s].bootstrapMembers \in Seq(Nat)
      BY <2>1 DEF ShardOK, ShardInfo
    <3>2. shards'[s] = [coll |-> shards[s].coll, replicas |-> q, leader |-> shards[s].leader,
                        epoch |-> shards[s].epoch + 1, bootstrapped |-> shards[s].bootstrapped,
                        bootstrapMembers |-> shards[s].bootstrapMembers]
      BY <1>2, <2>1 DEF ShardOK, ShardInfo
    <3> QED BY <3>1, <3>2 DEF ShardInfo
  <2>3. /\ shards'[s].replicas = q
        /\ shards'[s].leader = shards[s].leader
        /\ shards'[s].bootstrapped = shards[s].bootstrapped
        /\ shards'[s].bootstrapMembers = shards[s].bootstrapMembers
    BY <1>2, <2>1 DEF ShardOK, ShardInfo
  <2> QED BY <2>1, <2>2, <2>3 DEF ShardOK
<1>4. workers' = workers
  BY DEF SetReplicas
<1> QED BY <1>1, <1>2, <1>3, <1>4 DEF SetReplicas, BumpAssignmentsEpoch, ShardsOK

\* A leader report leaves a shard sound, its replicas and its epoch as they were.
LEMMA LeaderReportedOK ==
  ASSUME NEW sh, NEW W, ShardOK(sh, W), NEW l \in Nat
  PROVE  /\ ShardOK(LeaderReported(sh, l), W)
         /\ LeaderReported(sh, l).replicas = sh.replicas
         /\ LeaderReported(sh, l).epoch = sh.epoch
<1> DEFINE new == LeaderReported(sh, l)
<1>1. new = [sh EXCEPT !.leader = l, !.bootstrapped = @ \/ l # 0,
                       !.bootstrapMembers = IF l # 0 THEN <<>> ELSE @]
  BY DEF LeaderReported
<1> HIDE DEF new
<1>2. new \in ShardInfo /\ new.epoch = sh.epoch
  <2>1. /\ sh.coll \in Colls /\ sh.replicas \in Seq(Nat) /\ sh.epoch \in Nat
        /\ (sh.bootstrapped \/ l # 0) \in BOOLEAN
        /\ (IF l # 0 THEN <<>> ELSE sh.bootstrapMembers) \in Seq(Nat)
    BY DEF ShardOK, ShardInfo
  <2>2. new = [coll |-> sh.coll, replicas |-> sh.replicas, leader |-> l, epoch |-> sh.epoch,
               bootstrapped |-> (sh.bootstrapped \/ l # 0),
               bootstrapMembers |-> IF l # 0 THEN <<>> ELSE sh.bootstrapMembers]
    BY <1>1 DEF ShardOK, ShardInfo
  <2> QED BY <2>1, <2>2 DEF ShardInfo
<1>3. /\ new.replicas = sh.replicas
      /\ new.leader = l
      /\ new.bootstrapped = (sh.bootstrapped \/ l # 0)
      /\ new.bootstrapMembers = IF l # 0 THEN <<>> ELSE sh.bootstrapMembers
  BY <1>1 DEF ShardOK, ShardInfo
<1>4. sh.bootstrapped \in BOOLEAN
  BY DEF ShardOK, ShardInfo
<1> QED BY <1>2, <1>3, <1>4 DEF ShardOK, new

-----------------------------------------------------------------------------
(* One lemma per group of commands.                                          *)

\* Commands that write the worker registry only.
LEMMA WorkerCommandsPreserve ==
  ASSUME RegistryOK, ShardsOK,
         \/ \E a \in Addrs, role \in Role : ReRegisterWorker(a, role) \/ RegisterNewWorker(a, role)
         \/ \E w \in DOMAIN workers :
              \/ UpdateWorkerHeartbeat(w) \/ UpdateWorkerState(w)
              \/ RemoveWorker(w) \/ HeartbeatExpires(w)
  PROVE  RegistryOK' /\ ShardsOK'
<1>1. ASSUME NEW a \in Addrs, NEW role \in Role, ReRegisterWorker(a, role)
      PROVE  RegistryOK' /\ ShardsOK'
  BY <1>1 DEF ReRegisterWorker, RegistryOK, ShardsOK, WorkerInfo
<1>2. ASSUME NEW a \in Addrs, NEW role \in Role, RegisterNewWorker(a, role)
      PROVE  RegistryOK' /\ ShardsOK'
  <2>1. DOMAIN workers' = DOMAIN workers \cup {nextWorkerID}
    BY <1>2 DEF RegisterNewWorker, Put
  <2>2. RegistryOK'
    BY <1>2 DEF RegisterNewWorker, Put, RegistryOK, WorkerInfo, WorkerState
  <2>3. ShardsOK'
    BY <1>2, <2>1 DEF RegisterNewWorker, ShardsOK, ShardOK
  <2> QED BY <2>2, <2>3
<1>3. ASSUME NEW w \in DOMAIN workers, UpdateWorkerHeartbeat(w)
      PROVE  RegistryOK' /\ ShardsOK'
  BY <1>3 DEF UpdateWorkerHeartbeat, RegistryOK, ShardsOK, WorkerInfo, WorkerState
<1>4. ASSUME NEW w \in DOMAIN workers, UpdateWorkerState(w)
      PROVE  RegistryOK' /\ ShardsOK'
  BY <1>4 DEF UpdateWorkerState, RegistryOK, ShardsOK, WorkerInfo, WorkerState
<1>5. ASSUME NEW w \in DOMAIN workers, RemoveWorker(w)
      PROVE  RegistryOK' /\ ShardsOK'
  <2>1. DOMAIN workers' = DOMAIN workers \ {w}
    BY <1>5 DEF RemoveWorker, Drop
  <2>2. \A s \in DOMAIN shards : w \notin Range(shards[s].replicas)
    BY <1>5 DEF RemoveWorker, GetShardsOnWorker, Holds
  <2>3. RegistryOK'
    BY <1>5 DEF RemoveWorker, Drop, RegistryOK
  <2>4. ShardsOK'
    BY <1>5, <2>1, <2>2 DEF RemoveWorker, ShardsOK, ShardOK
  <2> QED BY <2>3, <2>4
<1>6. ASSUME NEW w \in DOMAIN workers, HeartbeatExpires(w)
      PROVE  RegistryOK' /\ ShardsOK'
  BY <1>6 DEF HeartbeatExpires, RegistryOK, ShardsOK
<1> QED BY <1>1, <1>2, <1>3, <1>4, <1>5, <1>6

\* Commands that write the shards only.
LEMMA ShardCommandsPreserve ==
  ASSUME RegistryOK, ShardsOK,
         \/ \E c \in Colls : \/ \E n \in 1..MaxInitialShards : CreateCollection(c, n)
                             \/ DeleteCollection(c)
         \/ \E s \in DOMAIN shards :
              \/ \E l \in 0..(nextWorkerID - 1) : UpdateShardLeader(s, l)
              \/ \E w \in DOMAIN workers : AddShardReplica(s, w) \/ RemoveShardReplica(s, w)
  PROVE  RegistryOK' /\ ShardsOK'
<1>1. ASSUME NEW c \in Colls, NEW n \in 1..MaxInitialShards, CreateCollection(c, n)
      PROVE  RegistryOK' /\ ShardsOK'
  <2>1. PICK r \in PlacementChoices(Eligible, ActualReplication) :
          shards' = [s \in DOMAIN shards \cup nextShardID..(nextShardID + n - 1) |->
                        IF s \in DOMAIN shards THEN shards[s] ELSE NewShard(c, r)]
    BY <1>1 DEF CreateCollection
  <2>2. ShardOK(NewShard(c, r), DOMAIN workers)
    BY <1>1, IInvParts, NewShardOK DEF CreateCollection, IInv
  <2>3. RegistryOK'
    BY <1>1 DEF CreateCollection, RegistryOK
  <2>4. n \in Nat \ {0} /\ nextShardID \in Nat \ {0}
    BY FSMAssumption DEF ShardsOK
  <2>5. DOMAIN shards' \subseteq 1..(nextShardID' - 1)
    BY <1>1, <2>1, <2>4 DEF CreateCollection, ShardsOK
  <2>6. \A s \in DOMAIN shards' : ShardOK(shards'[s], DOMAIN workers')
    BY <1>1, <2>1, <2>2 DEF CreateCollection, ShardsOK
  <2>7. assignmentsEpoch' \in Nat \ {0} /\ nextShardID' \in Nat \ {0}
    BY <1>1, <2>4 DEF CreateCollection, BumpAssignmentsEpoch, ShardsOK
  <2>8. shards' = [s \in DOMAIN shards' |-> shards'[s]]
    BY <2>1
  <2> QED BY <2>3, <2>5, <2>6, <2>7, <2>8 DEF ShardsOK
<1>2. ASSUME NEW c \in Colls, DeleteCollection(c)
      PROVE  RegistryOK' /\ ShardsOK'
  BY <1>2 DEF DeleteCollection, Drop, BumpAssignmentsEpoch, RegistryOK, ShardsOK
<1>3. ASSUME NEW s \in DOMAIN shards, NEW l \in 0..(nextWorkerID - 1), UpdateShardLeader(s, l)
      PROVE  RegistryOK' /\ ShardsOK'
  <2>1. RegistryOK'
    BY <1>3 DEF UpdateShardLeader, LeaderReported, RegistryOK
  <2>2. /\ DOMAIN shards' = DOMAIN shards
        /\ shards' = [x \in DOMAIN shards' |-> shards'[x]]
        /\ \A x \in DOMAIN shards : x # s => shards'[x] = shards[x]
    BY <1>3 DEF UpdateShardLeader, LeaderReported, ShardsOK
  <2>3. l \in Nat
    BY DEF RegistryOK
  <2>4. ShardOK(shards'[s], DOMAIN workers)
    <3>1. ShardOK(shards[s], DOMAIN workers)
      BY DEF ShardsOK
    <3>2. shards'[s] = LeaderReported(shards[s], l)
      BY <1>3 DEF UpdateShardLeader, ShardsOK
    <3> QED BY <2>3, <3>1, <3>2, LeaderReportedOK
  <2> QED BY <1>3, <2>1, <2>2, <2>4 DEF UpdateShardLeader, LeaderReported, ShardsOK
<1>4. ASSUME NEW s \in DOMAIN shards, NEW w \in DOMAIN workers, AddShardReplica(s, w)
      PROVE  RegistryOK' /\ ShardsOK'
  <2> DEFINE q == shards[s].replicas
  <2>1. ShardOK(shards[s], DOMAIN workers) /\ q \in Seq(Nat)
    BY DEF ShardsOK, ShardOK, ShardInfo
  <2>2. w \in Nat /\ w \notin Range(q)
    BY <1>4 DEF AddShardReplica, Holds, RegistryOK
  <2>3. /\ Append(q, w) \in Seq(Nat) /\ Len(Append(q, w)) = Len(q) + 1
        /\ IsInjective(Append(q, w)) /\ Range(Append(q, w)) = Range(q) \cup {w}
    BY <2>1, <2>2, AppendLemma DEF ShardOK
  <2>4. Range(Append(q, w)) \subseteq DOMAIN workers
    BY <2>1, <2>3 DEF ShardOK
  <2>5. Len(Append(q, w)) \in 1..MaxReplicationFactor
    BY <1>4, <2>1, <2>3, FSMAssumption DEF AddShardReplica, ShardOK
  <2> QED BY <1>4, <2>3, <2>4, <2>5, SetReplicasOK DEF AddShardReplica
<1>5. ASSUME NEW s \in DOMAIN shards, NEW w \in DOMAIN workers, RemoveShardReplica(s, w)
      PROVE  RegistryOK' /\ ShardsOK'
  <2> DEFINE q == shards[s].replicas
  <2>1. ShardOK(shards[s], DOMAIN workers) /\ q \in Seq(Nat)
    BY DEF ShardsOK, ShardOK, ShardInfo
  <2>2. PICK i \in 1..Len(q) : SetReplicas(s, RemoveAt(q, i))
    BY <1>5 DEF RemoveShardReplica
  <2>3. /\ RemoveAt(q, i) \in Seq(Nat) /\ Len(RemoveAt(q, i)) = Len(q) - 1
        /\ IsInjective(RemoveAt(q, i)) /\ Range(RemoveAt(q, i)) \subseteq Range(q)
    BY <2>1, RemoveAtLemma DEF ShardOK
  <2>4. Range(RemoveAt(q, i)) \subseteq DOMAIN workers
    BY <2>1, <2>3 DEF ShardOK
  <2>5. Len(RemoveAt(q, i)) \in 1..MaxReplicationFactor
    BY <1>5, <2>1, <2>3, FSMAssumption, SMTT(30) DEF RemoveShardReplica, ShardOK
  <2> QED BY <2>2, <2>3, <2>4, <2>5, SetReplicasOK
<1> QED BY <1>1, <1>2, <1>3, <1>4, <1>5

\* Every command preserves IInv.
LEMMA NextPreserves == IInv /\ [Next]_vars => IInv'
<1> SUFFICES ASSUME IInv, [Next]_vars PROVE IInv'
  OBVIOUS
<1>1. RegistryOK /\ ShardsOK
  BY IInvParts
<1>2. CASE Next
  <2>1. RegistryOK' /\ ShardsOK'
    BY <1>1, <1>2, WorkerCommandsPreserve, ShardCommandsPreserve DEF Next
  <2> QED BY <2>1, IInvParts, PTL
<1>3. CASE UNCHANGED vars
  BY <1>3 DEF vars, IInv, TypeOK, ReplicasRegistered, ReplicaListsSound, BootstrapLatch
<1> QED BY <1>2, <1>3

LEMMA Inductive == Spec => []IInv
<1>1. Init => IInv
  BY DEF Init, IInv, TypeOK, ReplicasRegistered, ReplicaListsSound, BootstrapLatch
<1> QED BY <1>1, NextPreserves, PTL DEF Spec

-----------------------------------------------------------------------------
(* Theorems.                                                                 *)

\* The FSM's state is always well formed.
THEOREM TypeCorrect == Spec => []TypeOK
BY Inductive, PTL DEF IInv

\* No shard ever lists a worker that is not registered.
THEOREM ReplicasAlwaysRegistered == Spec => []ReplicasRegistered
BY Inductive, PTL DEF IInv

\* Replica lists are never empty, never too long, never repeat a worker.
THEOREM ReplicaListsAlwaysSound == Spec => []ReplicaListsSound
BY Inductive, PTL DEF IInv

\* A shard that has had a leader is never handed out for bootstrap again.
THEOREM BootstrapIsALatch == Spec => []BootstrapLatch
BY Inductive, PTL DEF IInv

\* What a command does to the shards that survive it: nothing, a leader report,
\* or a new replica list that is one longer, or one shorter and not below RF.
LEMMA SurvivingShards ==
  ASSUME IInv, Next, NEW s \in DOMAIN shards \cap DOMAIN shards'
  PROVE  \/ /\ shards'[s].replicas = shards[s].replicas
            /\ shards'[s].epoch = shards[s].epoch
         \/ /\ shards'[s].epoch = shards[s].epoch + 1
            /\ assignmentsEpoch' = assignmentsEpoch + 1
            /\ \/ Len(shards'[s].replicas) = Len(shards[s].replicas) + 1
               \/ /\ Len(shards'[s].replicas) = Len(shards[s].replicas) - 1
                  /\ Len(shards[s].replicas) > RF
<1>0. \A x \in DOMAIN shards : shards[x] \in ShardInfo /\ IsInjective(shards[x].replicas)
  BY DEF IInv, TypeOK, ReplicaListsSound
<1>1. CASE shards' = shards
  BY <1>1
<1>2. ASSUME NEW c \in Colls, NEW n \in 1..MaxInitialShards, CreateCollection(c, n)
      PROVE  shards'[s] = shards[s]
  BY <1>2 DEF CreateCollection
<1>3. ASSUME NEW c \in Colls, DeleteCollection(c)
      PROVE  shards'[s] = shards[s]
  BY <1>3 DEF DeleteCollection, Drop
<1>4. ASSUME NEW x \in DOMAIN shards, NEW l \in 0..(nextWorkerID - 1), UpdateShardLeader(x, l)
      PROVE  shards'[s].replicas = shards[s].replicas /\ shards'[s].epoch = shards[s].epoch
  <2>1. CASE x = s
    <3>1. shards'[s] = [shards[s] EXCEPT !.leader = l, !.bootstrapped = @ \/ l # 0,
                                         !.bootstrapMembers = IF l # 0 THEN <<>> ELSE @]
      BY <1>4, <2>1 DEF UpdateShardLeader, LeaderReported
    <3> QED BY <1>0, <3>1 DEF ShardInfo
  <2>2. CASE x # s
    BY <1>4, <2>2 DEF UpdateShardLeader, LeaderReported
  <2> QED BY <2>1, <2>2
<1>5. ASSUME NEW x \in DOMAIN shards, NEW q, SetReplicas(x, q)
      PROVE  \/ x # s /\ shards'[s] = shards[s]
             \/ /\ x = s /\ shards'[s].replicas = q
                /\ shards'[s].epoch = shards[s].epoch + 1
                /\ assignmentsEpoch' = assignmentsEpoch + 1
  <2>1. CASE x = s
    <3>1. shards'[s] = [shards[s] EXCEPT !.replicas = q, !.epoch = @ + 1]
      BY <1>5, <2>1 DEF SetReplicas
    <3>2. shards'[s].replicas = q /\ shards'[s].epoch = shards[s].epoch + 1
      BY <1>0, <3>1 DEF ShardInfo
    <3> QED BY <1>5, <2>1, <3>2 DEF SetReplicas, BumpAssignmentsEpoch
  <2>2. CASE x # s
    BY <1>5, <2>2 DEF SetReplicas
  <2> QED BY <2>1, <2>2
<1>6. ASSUME NEW x \in DOMAIN shards, NEW w \in DOMAIN workers, AddShardReplica(x, w)
      PROVE  \/ shards'[s] = shards[s]
             \/ /\ shards'[s].epoch = shards[s].epoch + 1
                /\ assignmentsEpoch' = assignmentsEpoch + 1
                /\ Len(shards'[s].replicas) = Len(shards[s].replicas) + 1
  <2>1. SetReplicas(x, Append(shards[x].replicas, w))
    BY <1>6 DEF AddShardReplica
  <2>2. shards[x].replicas \in Seq(Nat)
    BY <1>0 DEF ShardInfo
  <2>3. Len(Append(shards[x].replicas, w)) = Len(shards[x].replicas) + 1
    BY <2>2
  <2> QED BY <1>5, <2>1, <2>3
<1>7. ASSUME NEW x \in DOMAIN shards, NEW w \in DOMAIN workers, RemoveShardReplica(x, w)
      PROVE  \/ shards'[s] = shards[s]
             \/ /\ shards'[s].epoch = shards[s].epoch + 1
                /\ assignmentsEpoch' = assignmentsEpoch + 1
                /\ Len(shards'[s].replicas) = Len(shards[s].replicas) - 1
                /\ Len(shards[s].replicas) > RF
  <2>1. PICK i \in 1..Len(shards[x].replicas) : SetReplicas(x, RemoveAt(shards[x].replicas, i))
    BY <1>7 DEF RemoveShardReplica
  <2>2. shards[x].replicas \in Seq(Nat) /\ IsInjective(shards[x].replicas)
    BY <1>0 DEF ShardInfo
  <2>3. Len(RemoveAt(shards[x].replicas, i)) = Len(shards[x].replicas) - 1
    BY <2>2, RemoveAtLemma
  <2>4. Len(shards[x].replicas) > RF
    BY <1>7 DEF RemoveShardReplica
  <2> QED BY <1>5, <2>1, <2>3, <2>4
<1>8. \/ shards' = shards
      \/ \E c \in Colls : \/ \E n \in 1..MaxInitialShards : CreateCollection(c, n)
                          \/ DeleteCollection(c)
      \/ \E x \in DOMAIN shards :
           \/ \E l \in 0..(nextWorkerID - 1) : UpdateShardLeader(x, l)
           \/ \E w \in DOMAIN workers : AddShardReplica(x, w) \/ RemoveShardReplica(x, w)
  BY DEF Next, ReRegisterWorker, RegisterNewWorker, UpdateWorkerHeartbeat,
         UpdateWorkerState, RemoveWorker, HeartbeatExpires
<1> QED BY <1>1, <1>2, <1>3, <1>4, <1>6, <1>7, <1>8

\* Commands on a sound state never take a shard below the replication factor.
LEMMA CommandsKeepReplication == []IInv /\ [][Next]_vars => ReplicationNeverRegresses
<1> DEFINE Keeps == \A s \in DOMAIN shards \cap DOMAIN shards' :
                      Len(shards[s].replicas) >= RF => Len(shards'[s].replicas) >= RF
<1>1. IInv /\ [Next]_vars => [Keeps]_vars
  <2> SUFFICES ASSUME IInv, Next PROVE Keeps
    OBVIOUS
  <2> SUFFICES ASSUME NEW s \in DOMAIN shards \cap DOMAIN shards',
                      Len(shards[s].replicas) >= RF
               PROVE  Len(shards'[s].replicas) >= RF
    OBVIOUS
  <2>1. Len(shards[s].replicas) \in Nat
    BY DEF IInv, TypeOK, ShardInfo
  <2> QED BY <2>1, SurvivingShards, FSMAssumption
<1> QED BY <1>1, PTL DEF ReplicationNeverRegresses

\* A shard at or above the replication factor never falls below it.
THEOREM NeverBelowReplicationFactor == Spec => ReplicationNeverRegresses
BY CommandsKeepReplication, Inductive, PTL DEF Spec

\* Commands on a sound state raise the epochs of what they change, and no others.
LEMMA CommandsOrderEpochs == []IInv /\ [][Next]_vars => EpochsOrderAssignments
<1> DEFINE Orders ==
      /\ Assignment' # Assignment => assignmentsEpoch' > assignmentsEpoch
      /\ \A s \in DOMAIN shards \cap DOMAIN shards' :
           IF shards'[s].replicas = shards[s].replicas
           THEN shards'[s].epoch = shards[s].epoch
           ELSE shards'[s].epoch > shards[s].epoch
<1>1. IInv /\ [Next]_vars => [Orders]_vars
  <2> SUFFICES ASSUME IInv, Next PROVE Orders
    OBVIOUS
  <2>0. /\ assignmentsEpoch \in Nat
        /\ \A s \in DOMAIN shards : shards[s].replicas \in Seq(Nat) /\ shards[s].epoch \in Nat
    BY DEF IInv, TypeOK, ShardInfo
  <2>1. ASSUME NEW s \in DOMAIN shards \cap DOMAIN shards'
        PROVE  IF shards'[s].replicas = shards[s].replicas
               THEN shards'[s].epoch = shards[s].epoch
               ELSE shards'[s].epoch > shards[s].epoch
    <3>1. Len(shards[s].replicas) \in Nat /\ shards[s].epoch \in Nat
      BY <2>0
    <3> QED BY <3>1, SurvivingShards
  <2>2. Assignment' # Assignment => assignmentsEpoch' > assignmentsEpoch
    <3>1. CASE DOMAIN shards' = DOMAIN shards
      <4>1. CASE \A s \in DOMAIN shards : shards'[s].replicas = shards[s].replicas
        BY <3>1, <4>1 DEF Assignment
      <4>2. ASSUME NEW s \in DOMAIN shards, shards'[s].replicas # shards[s].replicas
            PROVE  assignmentsEpoch' = assignmentsEpoch + 1
        BY <3>1, <4>2, SurvivingShards
      <4> QED BY <2>0, <4>1, <4>2
    <3>2. CASE DOMAIN shards' # DOMAIN shards
      <4>1. \E c \in Colls : \/ \E n \in 1..MaxInitialShards : CreateCollection(c, n)
                             \/ DeleteCollection(c)
        BY <3>2 DEF Next, ReRegisterWorker, RegisterNewWorker, UpdateWorkerHeartbeat,
              UpdateWorkerState, RemoveWorker, HeartbeatExpires, UpdateShardLeader,
              AddShardReplica, RemoveShardReplica, SetReplicas
      <4>2. assignmentsEpoch' = assignmentsEpoch + 1
        BY <4>1 DEF CreateCollection, DeleteCollection, BumpAssignmentsEpoch
      <4> QED BY <2>0, <4>2
    <3> QED BY <3>1, <3>2
  <2> QED BY <2>1, <2>2
<1> QED BY <1>1, PTL DEF EpochsOrderAssignments

\* An assignment never changes without a newer epoch that orders it.
THEOREM EpochsAlwaysOrder == Spec => EpochsOrderAssignments
BY CommandsOrderEpochs, Inductive, PTL DEF Spec

\* Commands on a sound state leave a draining worker draining and give it nothing.
LEMMA CommandsKeepDraining == []IInv /\ [][Next]_vars => DrainOnlyShrinks
<1> DEFINE Shrinks ==
      \A w \in DOMAIN workers \cap DOMAIN workers' :
        workers[w].state = "draining" =>
            /\ workers'[w].state = "draining"
            /\ GetShardsOnWorker(w)' \subseteq GetShardsOnWorker(w)
<1>1. IInv /\ [Next]_vars => [Shrinks]_vars
  <2> SUFFICES ASSUME IInv, Next,
                      NEW w \in DOMAIN workers \cap DOMAIN workers',
                      workers[w].state = "draining"
               PROVE  /\ workers'[w].state = "draining"
                      /\ GetShardsOnWorker(w)' \subseteq GetShardsOnWorker(w)
    OBVIOUS
  <2>0. /\ \A x \in DOMAIN workers : workers[x] \in WorkerInfo
        /\ \A s \in DOMAIN shards : /\ shards[s] \in ShardInfo
                                    /\ IsInjective(shards[s].replicas)
    BY DEF IInv, TypeOK, ReplicaListsSound
  <2>1. ~ IsWorkerHealthy(w) /\ w \notin Eligible
    BY DEF IsWorkerHealthy, IsWorkerEligibleForPlacement, Eligible
  <2>2. ASSUME shards' = shards
        PROVE  GetShardsOnWorker(w)' = GetShardsOnWorker(w)
    BY <2>2 DEF GetShardsOnWorker, Holds
  <2>3. ASSUME NEW a \in Addrs, NEW role \in Role,
               ReRegisterWorker(a, role) \/ RegisterNewWorker(a, role)
        PROVE  workers'[w].state = "draining" /\ shards' = shards
    <3>1. CASE ReRegisterWorker(a, role)
      BY <2>0, <3>1 DEF ReRegisterWorker, WorkerInfo
    <3>2. CASE RegisterNewWorker(a, role)
      <4>1. w # nextWorkerID
        BY DEF IInv, TypeOK
      <4> QED BY <3>2, <4>1 DEF RegisterNewWorker, Put
    <3> QED BY <2>3, <3>1, <3>2
  <2>4. ASSUME NEW x \in DOMAIN workers,
               \/ UpdateWorkerHeartbeat(x) \/ UpdateWorkerState(x)
               \/ RemoveWorker(x) \/ HeartbeatExpires(x)
        PROVE  workers'[w].state = "draining" /\ shards' = shards
    BY <2>0, <2>4 DEF UpdateWorkerHeartbeat, UpdateWorkerState, RemoveWorker,
                      HeartbeatExpires, Drop, WorkerInfo
  <2>5. ASSUME NEW c \in Colls, NEW n \in 1..MaxInitialShards, CreateCollection(c, n)
        PROVE  workers' = workers /\ GetShardsOnWorker(w)' \subseteq GetShardsOnWorker(w)
    <3>1. PICK r \in PlacementChoices(Eligible, ActualReplication) :
            shards' = [s \in DOMAIN shards \cup nextShardID..(nextShardID + n - 1) |->
                          IF s \in DOMAIN shards THEN shards[s] ELSE NewShard(c, r)]
      BY <2>5 DEF CreateCollection
    <3>2. w \notin Range(r)
      <4>1. r \in [1..ActualReplication -> Eligible]
        BY DEF PlacementChoices
      <4> QED BY <2>1, <4>1 DEF Range
    <3>3. NewShard(c, r).replicas = r
      BY DEF NewShard
    <3>4. \A s \in DOMAIN shards' : Holds(s, w)' => s \in DOMAIN shards /\ Holds(s, w)
      BY <3>1, <3>2, <3>3 DEF Holds
    <3>5. workers' = workers
      BY <2>5 DEF CreateCollection
    <3> QED BY <3>4, <3>5 DEF GetShardsOnWorker
  <2>6. ASSUME NEW c \in Colls, DeleteCollection(c)
        PROVE  workers' = workers /\ GetShardsOnWorker(w)' \subseteq GetShardsOnWorker(w)
    BY <2>6 DEF DeleteCollection, Drop, GetShardsOnWorker, Holds
  <2>7. ASSUME NEW s \in DOMAIN shards,
               \/ \E l \in 0..(nextWorkerID - 1) : UpdateShardLeader(s, l)
               \/ \E x \in DOMAIN workers : AddShardReplica(s, x) \/ RemoveShardReplica(s, x)
        PROVE  workers' = workers /\ GetShardsOnWorker(w)' \subseteq GetShardsOnWorker(w)
    <3>0. shards[s].replicas \in Seq(Nat) /\ IsInjective(shards[s].replicas)
      BY <2>0 DEF ShardInfo
    <3>1. /\ workers' = workers
          /\ DOMAIN shards' = DOMAIN shards
          /\ \A y \in DOMAIN shards : y # s => shards'[y] = shards[y]
      BY <2>7 DEF UpdateShardLeader, AddShardReplica, RemoveShardReplica, SetReplicas
    <3>2. w \in Range(shards'[s].replicas) => w \in Range(shards[s].replicas)
      <4>1. ASSUME NEW q, SetReplicas(s, q)
            PROVE  shards'[s].replicas = q
        <5>1. shards'[s] = [shards[s] EXCEPT !.replicas = q, !.epoch = @ + 1]
          BY <4>1 DEF SetReplicas
        <5> QED BY <2>0, <5>1 DEF ShardInfo
      <4>2. ASSUME NEW l \in 0..(nextWorkerID - 1), UpdateShardLeader(s, l)
            PROVE  shards'[s].replicas = shards[s].replicas
        <5>1. shards'[s] = LeaderReported(shards[s], l)
          BY <4>2 DEF UpdateShardLeader
        <5> QED BY <2>0, <5>1 DEF LeaderReported, ShardInfo
      <4>3. ASSUME NEW x \in DOMAIN workers, AddShardReplica(s, x)
            PROVE  w \in Range(shards'[s].replicas) => w \in Range(shards[s].replicas)
        <5>1. x # w /\ x \notin Range(shards[s].replicas) /\ x \in Nat
          BY <2>1, <4>3 DEF AddShardReplica, Holds, IInv, TypeOK
        <5>2. Range(Append(shards[s].replicas, x)) = Range(shards[s].replicas) \cup {x}
          BY <3>0, <5>1, AppendLemma
        <5>3. shards'[s].replicas = Append(shards[s].replicas, x)
          BY <4>1, <4>3 DEF AddShardReplica
        <5> QED BY <5>1, <5>2, <5>3
      <4>4. ASSUME NEW x \in DOMAIN workers, RemoveShardReplica(s, x)
            PROVE  w \in Range(shards'[s].replicas) => w \in Range(shards[s].replicas)
        <5>1. PICK i \in 1..Len(shards[s].replicas) :
                SetReplicas(s, RemoveAt(shards[s].replicas, i))
          BY <4>4 DEF RemoveShardReplica
        <5>2. Range(RemoveAt(shards[s].replicas, i)) \subseteq Range(shards[s].replicas)
          BY <3>0, RemoveAtLemma
        <5> QED BY <4>1, <5>1, <5>2
      <4> QED BY <2>7, <4>2, <4>3, <4>4
    <3> QED BY <3>1, <3>2 DEF GetShardsOnWorker, Holds
  <2> QED BY <2>2, <2>3, <2>4, <2>5, <2>6, <2>7 DEF Next
<1> QED BY <1>1, PTL DEF DrainOnlyShrinks

\* A draining worker goes on draining, and no command gives it another shard.
THEOREM DrainsOnlyShrink == Spec => DrainOnlyShrinks
BY CommandsKeepDraining, Inductive, PTL DEF Spec

-----------------------------------------------------------------------------
(* The state machine implements ReplicaSets.                                 *)

\* A list without repetitions has as many workers as places.
LEMMA ReplicaCount ==
  ASSUME NEW q \in Seq(Nat), IsInjective(q)
  PROVE  IsFiniteSet(Range(q)) /\ Cardinality(Range(q)) = Len(q)
<1>1. q \in [1..Len(q) -> Range(q)] /\ DOMAIN q = 1..Len(q)
  BY DEF Range
<1>2. \A x, y \in 1..Len(q) : q[x] = q[y] => x = y
  BY <1>1 DEF IsInjective
<1>3. \A w \in Range(q) : \E x \in 1..Len(q) : q[x] = w
  BY <1>1 DEF Range
<1>4. q \in Bijection(1..Len(q), Range(q))
  BY <1>1, <1>2, <1>3 DEF Bijection, Injection, Surjection
<1>5. ExistsBijection(1..Len(q), Range(q))
  BY <1>4 DEF ExistsBijection
<1>6. IsFiniteSet(1..Len(q)) /\ Cardinality(1..Len(q)) = Len(q)
  <2>1. Len(q) \in Nat /\ 1 \in Int /\ Len(q) \in Int
    OBVIOUS
  <2>2. /\ IsFiniteSet(1..Len(q))
        /\ Cardinality(1..Len(q)) = IF 1 > Len(q) THEN 0 ELSE Len(q) - 1 + 1
    BY <2>1, FS_Interval
  <2> QED BY <2>1, <2>2
<1> QED BY <1>5, <1>6, FS_Bijection

\* Removing position i takes exactly the worker at i out of the list.
LEMMA RemoveAtTakesOne ==
  ASSUME NEW q \in Seq(Nat), IsInjective(q), NEW i \in 1..Len(q)
  PROVE  Range(RemoveAt(q, i)) = Range(q) \ {q[i]}
<1> DEFINE r == RemoveAt(q, i)
<1> DEFINE a == SubSeq(q, 1, i-1)
<1> DEFINE b == SubSeq(q, i+1, Len(q))
<1>a. /\ a \in Seq(Nat) /\ Len(a) = i - 1
      /\ \A j \in 1..(i-1) : a[j] = q[j]
  BY SubSeqProperties
<1>b. /\ b \in Seq(Nat) /\ Len(b) = Len(q) - i
      /\ \A j \in 1..(Len(q) - i) : b[j] = q[i+j]
  BY SubSeqProperties
<1>c. r = a \o b
  BY DEF RemoveAt
<1>d. DOMAIN q = 1..Len(q) /\ DOMAIN a = 1..(i-1) /\ DOMAIN b = 1..(Len(q) - i)
  BY <1>a, <1>b
<1>e. \A x, y \in 1..Len(q) : q[x] = q[y] => x = y
  BY <1>d DEF IsInjective
<1> HIDE DEF a, b, r
<1>1. Range(r) = Range(a) \cup Range(b)
  BY <1>a, <1>b, <1>c, RangeConcatenation
<1>2. Range(a) = {q[j] : j \in 1..(i-1)}
  BY <1>a, <1>d DEF Range
<1>3. Range(b) = {q[j] : j \in (i+1)..Len(q)}
  <2>1. \A j \in (i+1)..Len(q) : j - i \in 1..(Len(q) - i) /\ i + (j - i) = j
    OBVIOUS
  <2>2. \A j \in 1..(Len(q) - i) : i + j \in (i+1)..Len(q)
    OBVIOUS
  <2>3. Range(b) = {b[j] : j \in 1..(Len(q) - i)}
    BY <1>d DEF Range
  <2>4. ASSUME NEW j \in (i+1)..Len(q)
        PROVE  q[j] \in Range(b)
    <3>1. b[j - i] = q[i + (j - i)]
      BY <1>b, <2>1
    <3> QED BY <2>1, <2>3, <3>1
  <2>5. ASSUME NEW j \in 1..(Len(q) - i)
        PROVE  b[j] \in {q[k] : k \in (i+1)..Len(q)}
    BY <1>b, <2>2
  <2> QED BY <2>3, <2>4, <2>5
<1>4. Range(q) = {q[j] : j \in 1..Len(q)}
  BY <1>d DEF Range
<1>5. ASSUME NEW j \in 1..Len(q)
      PROVE  q[j] \in Range(r) <=> j # i
  <2>1. j < i \/ j = i \/ j > i
    OBVIOUS
  <2>2. CASE j < i
    BY <1>1, <1>2, <2>2
  <2>3. CASE j > i
    BY <1>1, <1>3, <2>3
  <2>4. CASE j = i
    BY <1>1, <1>2, <1>3, <1>e, <2>4
  <2> QED BY <2>1, <2>2, <2>3, <2>4
<1>6. Range(r) \subseteq Range(q)
  BY RemoveAtLemma DEF r
<1>7. Range(r) = Range(q) \ {q[i]}
  BY <1>4, <1>5, <1>6, <1>e
<1> QED BY <1>7 DEF r

\* ReplicaSets counts as PlacementFSM does.
LEMMA SameCardinality == \A S : Promise!Cardinality(S) = Cardinality(S)
BY DEF Cardinality, Promise!Cardinality

\* Worker commands: registration of a new worker, a drain, a removal, or nothing that
\* ReplicaSets can see.
LEMMA WorkerCommandsKeepPromise ==
  ASSUME IInv,
         \/ \E a \in Addrs, role \in Role : ReRegisterWorker(a, role) \/ RegisterNewWorker(a, role)
         \/ \E w \in DOMAIN workers :
              \/ UpdateWorkerHeartbeat(w) \/ UpdateWorkerState(w)
              \/ RemoveWorker(w) \/ HeartbeatExpires(w)
  PROVE  [Promise!Next]_(Promise!vars)
<1> DEFINE D == {w \in DOMAIN workers : workers[w].state = "draining"}
<1> DEFINE G == [s \in DOMAIN shards |-> Group(shards[s])]
<1>0. /\ \A w \in DOMAIN workers : workers[w] \in WorkerInfo
      /\ nextWorkerID \in Nat \ {0} /\ DOMAIN workers \subseteq 1..(nextWorkerID - 1)
  BY DEF IInv, TypeOK
<1>1. ASSUME DOMAIN workers' = DOMAIN workers, D' = D, nextWorkerID' = nextWorkerID,
             UNCHANGED <<shards, nextShardID, assignmentsEpoch>>
      PROVE  UNCHANGED Promise!vars
  BY <1>1 DEF Promise!vars
<1>2. ASSUME NEW a \in Addrs, NEW role \in Role, ReRegisterWorker(a, role)
      PROVE  UNCHANGED Promise!vars
  <2>1. PICK w \in DOMAIN workers : workers' = [workers EXCEPT ![w].role = role]
    BY <1>2 DEF ReRegisterWorker
  <2>2. /\ DOMAIN workers' = DOMAIN workers
        /\ \A x \in DOMAIN workers : workers'[x].state = workers[x].state
    BY <1>0, <2>1 DEF WorkerInfo
  <2>3. D' = D
    BY <2>2
  <2> QED BY <1>1, <1>2, <2>2, <2>3 DEF ReRegisterWorker
<1>3. ASSUME NEW a \in Addrs, NEW role \in Role, RegisterNewWorker(a, role)
      PROVE  Promise!Next
  <2>1. /\ DOMAIN workers' = DOMAIN workers \cup {nextWorkerID}
        /\ \A x \in DOMAIN workers : x # nextWorkerID /\ workers'[x] = workers[x]
        /\ workers'[nextWorkerID].state = "joining"
    BY <1>0, <1>3 DEF RegisterNewWorker, Put
  <2>2. D' = D
    BY <2>1
  <2>3. /\ nextWorkerID \in 1..MaxWorkerID
        /\ nextWorkerID \notin 1..(nextWorkerID - 1)
        /\ 1..(nextWorkerID' - 1) = 1..(nextWorkerID - 1) \cup {nextWorkerID}
    BY <1>0, <1>3, FSMAssumption DEF RegisterNewWorker
  <2>4. Promise!Register(nextWorkerID)
    BY <1>3, <2>1, <2>2, <2>3 DEF RegisterNewWorker, Promise!Register
  <2> QED BY <2>3, <2>4 DEF Promise!Next
<1>4. ASSUME NEW w \in DOMAIN workers, UpdateWorkerHeartbeat(w)
      PROVE  UNCHANGED Promise!vars
  <2>1. /\ DOMAIN workers' = DOMAIN workers
        /\ \A x \in DOMAIN workers :
              workers'[x].state = "draining" <=> workers[x].state = "draining"
    BY <1>0, <1>4 DEF UpdateWorkerHeartbeat, WorkerInfo
  <2>2. D' = D
    BY <2>1
  <2> QED BY <1>1, <1>4, <2>1, <2>2 DEF UpdateWorkerHeartbeat
<1>5. ASSUME NEW w \in DOMAIN workers, UpdateWorkerState(w)
      PROVE  Promise!Next
  <2>1. /\ DOMAIN workers' = DOMAIN workers
        /\ \A x \in DOMAIN workers :
              workers'[x].state = IF x = w THEN "draining" ELSE workers[x].state
    BY <1>0, <1>5 DEF UpdateWorkerState, WorkerInfo
  <2>2. D' = D \cup {w}
    BY <2>1
  <2>3. Promise!Drain(w)
    BY <1>5, <2>1, <2>2 DEF UpdateWorkerState, Promise!Drain
  <2> QED BY <2>3 DEF Promise!Next
<1>6. ASSUME NEW w \in DOMAIN workers, RemoveWorker(w)
      PROVE  Promise!Next
  <2>1. /\ DOMAIN workers' = DOMAIN workers \ {w}
        /\ \A x \in DOMAIN workers \ {w} : workers'[x] = workers[x]
    BY <1>6 DEF RemoveWorker, Drop
  <2>2. D' = D \ {w}
    BY <2>1
  <2>3. \A s \in DOMAIN G : w \notin G[s].members
    BY <1>6 DEF RemoveWorker, GetShardsOnWorker, Holds, Group
  <2>4. Promise!Forget(w)
    BY <1>6, <2>1, <2>2, <2>3 DEF RemoveWorker, Promise!Forget
  <2> QED BY <2>4 DEF Promise!Next
<1>7. ASSUME NEW w \in DOMAIN workers, HeartbeatExpires(w)
      PROVE  UNCHANGED Promise!vars
  BY <1>1, <1>7 DEF HeartbeatExpires
<1> QED BY <1>2, <1>3, <1>4, <1>5, <1>6, <1>7

\* A new replica list of one shard is a change of its members.
LEMMA SetReplicasChanges ==
  ASSUME IInv, NEW s \in DOMAIN shards, NEW q \in Seq(Nat), SetReplicas(s, q)
  PROVE  Promise!Change(s, Range(q))
<1> DEFINE G == [x \in DOMAIN shards |-> Group(shards[x])]
<1>0. shards[s] \in ShardInfo
  BY DEF IInv, TypeOK
<1>1. /\ DOMAIN shards' = DOMAIN shards
      /\ \A x \in DOMAIN shards : x # s => shards'[x] = shards[x]
      /\ shards'[s].replicas = q /\ shards'[s].epoch = shards[s].epoch + 1
  BY <1>0 DEF SetReplicas, ShardInfo
<1>2. G' = [G EXCEPT ![s] = [members |-> Range(q), epoch |-> G[s].epoch + 1]]
  BY <1>1 DEF Group
<1> QED BY <1>2 DEF SetReplicas, BumpAssignmentsEpoch, Promise!Change

\* Shard commands: a placement, a withdrawal, one worker more, one worker less, or a
\* leader report, which ReplicaSets cannot see.
LEMMA ShardCommandsKeepPromise ==
  ASSUME IInv,
         \/ \E c \in Colls : \/ \E n \in 1..MaxInitialShards : CreateCollection(c, n)
                             \/ DeleteCollection(c)
         \/ \E s \in DOMAIN shards :
              \/ \E l \in 0..(nextWorkerID - 1) : UpdateShardLeader(s, l)
              \/ \E w \in DOMAIN workers : AddShardReplica(s, w) \/ RemoveShardReplica(s, w)
  PROVE  [Promise!Next]_(Promise!vars)
<1> DEFINE D == {w \in DOMAIN workers : workers[w].state = "draining"}
<1> DEFINE G == [s \in DOMAIN shards |-> Group(shards[s])]
<1>0. /\ \A s \in DOMAIN shards :
            /\ shards[s] \in ShardInfo /\ shards[s].replicas \in Seq(Nat)
            /\ IsInjective(shards[s].replicas)
      /\ nextShardID \in Nat \ {0} /\ DOMAIN shards \subseteq 1..(nextShardID - 1)
      /\ DOMAIN workers \subseteq Nat
  BY DEF IInv, TypeOK, ReplicaListsSound, ShardInfo
<1>1. ASSUME NEW c \in Colls, NEW n \in 1..MaxInitialShards, CreateCollection(c, n)
      PROVE  Promise!Next
  <2> DEFINE S == nextShardID..(nextShardID + n - 1)
  <2>1. PICK r \in PlacementChoices(Eligible, ActualReplication) :
          shards' = [s \in DOMAIN shards \cup S |->
                        IF s \in DOMAIN shards THEN shards[s] ELSE NewShard(c, r)]
    BY <1>1 DEF CreateCollection
  <2>2. /\ r \in Seq(Nat) /\ Len(r) \in 1..RF
        /\ IsInjective(r) /\ Range(r) \subseteq DOMAIN workers
    BY <1>1, PlacementLemma DEF CreateCollection, IInv
  <2>3. Cardinality(Range(r)) \in 1..RF
    BY <2>2, ReplicaCount
  <2>4. Range(r) \cap D = {}
    <3>1. r \in [1..ActualReplication -> Eligible]
      BY DEF PlacementChoices
    <3>2. \A w \in Eligible : workers[w].state = "ready"
      BY DEF Eligible, IsWorkerEligibleForPlacement, IsWorkerHealthy
    <3> QED BY <3>1, <3>2 DEF Range
  <2>5. n \in Nat \ {0}
    BY FSMAssumption
  <2>6. /\ S # {} /\ S \cap 1..(nextShardID - 1) = {} /\ S \subseteq 1..MaxShardID
        /\ 1..(nextShardID' - 1) = 1..(nextShardID - 1) \cup S
    <3>1. /\ nextShardID \in Nat \ {0} /\ nextShardID' = nextShardID + n
          /\ nextShardID + n - 1 <= MaxShardID /\ MaxShardID \in Nat
      BY <1>0, <1>1, FSMAssumption DEF CreateCollection
    <3> QED BY <2>5, <3>1
  <2>7. Group(NewShard(c, r)) = [members |-> Range(r), epoch |-> 1]
    BY DEF Group, NewShard
  <2>8. G' = [s \in DOMAIN G \cup S |->
                 IF s \in S THEN [members |-> Range(r), epoch |-> 1] ELSE G[s]]
    <3>1. DOMAIN shards \cap S = {} /\ DOMAIN shards' = DOMAIN shards \cup S
      BY <1>0, <2>1, <2>6
    <3>2. \A s \in DOMAIN shards' :
            Group(shards'[s]) = IF s \in S THEN [members |-> Range(r), epoch |-> 1]
                                           ELSE Group(shards[s])
      <4> HIDE DEF S
      <4> QED BY <2>1, <2>7, <3>1
    <3> QED BY <3>1, <3>2
  <2>9. Promise!Place(S, Range(r))
    <3> HIDE DEF S
    <3> QED BY <1>1, <2>3, <2>4, <2>6, <2>8, SameCardinality
            DEF CreateCollection, BumpAssignmentsEpoch, Promise!Place
  <2> QED BY <2>2, <2>6, <2>9 DEF Promise!Next
<1>2. ASSUME NEW c \in Colls, DeleteCollection(c)
      PROVE  Promise!Next
  <2> DEFINE S == {s \in DOMAIN shards : shards[s].coll = c}
  <2>1. S # {} /\ S \subseteq DOMAIN G
    BY <1>2 DEF DeleteCollection
  <2>2. G' = [s \in DOMAIN G \ S |-> G[s]]
    BY <1>2 DEF DeleteCollection, Drop, Group
  <2>3. Promise!Withdraw(S)
    <3> HIDE DEF S
    <3> QED BY <1>2, <2>1, <2>2 DEF DeleteCollection, BumpAssignmentsEpoch, Promise!Withdraw
  <2> QED BY <2>1, <2>3 DEF Promise!Next
<1>3. ASSUME NEW s \in DOMAIN shards, NEW l \in 0..(nextWorkerID - 1), UpdateShardLeader(s, l)
      PROVE  UNCHANGED Promise!vars
  <2>1. /\ DOMAIN shards' = DOMAIN shards
        /\ \A x \in DOMAIN shards : /\ shards'[x].replicas = shards[x].replicas
                                    /\ shards'[x].epoch = shards[x].epoch
    BY <1>0, <1>3 DEF UpdateShardLeader, LeaderReported, ShardInfo
  <2>2. G' = G
    BY <2>1 DEF Group
  <2> QED BY <1>3, <2>2 DEF UpdateShardLeader, Promise!vars
<1>4. ASSUME NEW s \in DOMAIN shards, NEW w \in DOMAIN workers, AddShardReplica(s, w)
      PROVE  Promise!Next
  <2> DEFINE q == shards[s].replicas
  <2>1. /\ w \in Nat /\ w \notin Range(q) /\ w \notin D
        /\ Len(q) < MaxReplicationFactor /\ SetReplicas(s, Append(q, w))
    BY <1>0, <1>4 DEF AddShardReplica, Holds, IsWorkerHealthy
  <2>2. Append(q, w) \in Seq(Nat) /\ Range(Append(q, w)) = Range(q) \cup {w}
    BY <1>0, <2>1, AppendLemma
  <2>3. Promise!Change(s, Range(q) \cup {w})
    BY <2>1, <2>2, SetReplicasChanges
  <2>4. s \in DOMAIN G /\ G[s].members = Range(q) /\ Cardinality(Range(q)) = Len(q)
    BY <1>0, ReplicaCount DEF Group
  <2>5. Promise!Join(s, w)
    BY <2>1, <2>3, <2>4, SameCardinality DEF Promise!Join
  <2> QED BY <2>4, <2>5 DEF Promise!Next
<1>5. ASSUME NEW s \in DOMAIN shards, NEW w \in DOMAIN workers, RemoveShardReplica(s, w)
      PROVE  Promise!Next
  <2> DEFINE q == shards[s].replicas
  <2>1. PICK i \in 1..Len(q) : q[i] = w /\ SetReplicas(s, RemoveAt(q, i))
    BY <1>5 DEF RemoveShardReplica
  <2>2. RemoveAt(q, i) \in Seq(Nat) /\ Range(RemoveAt(q, i)) = Range(q) \ {w}
    BY <1>0, <2>1, RemoveAtLemma, RemoveAtTakesOne
  <2>3. Promise!Change(s, Range(q) \ {w})
    BY <2>1, <2>2, SetReplicasChanges
  <2>4. s \in DOMAIN G /\ G[s].members = Range(q) /\ Cardinality(Range(q)) = Len(q)
    BY <1>0, ReplicaCount DEF Group
  <2>5. w \in Range(q) /\ Len(q) > RF
    BY <1>0, <1>5, <2>1 DEF RemoveShardReplica, Range
  <2>6. Promise!Leave(s, w)
    BY <2>3, <2>4, <2>5, SameCardinality DEF Promise!Leave
  <2> QED BY <2>4, <2>6 DEF Promise!Next
<1> QED BY <1>1, <1>2, <1>3, <1>4, <1>5

\* Commands on a sound state do to the replica sets what ReplicaSets allows.
LEMMA CommandsKeepPromise == []IInv /\ [][Next]_vars => [][Promise!Next]_(Promise!vars)
<1>1. IInv /\ [Next]_vars => [Promise!Next]_(Promise!vars)
  <2>1. ASSUME IInv, Next PROVE [Promise!Next]_(Promise!vars)
    BY <2>1, WorkerCommandsKeepPromise, ShardCommandsKeepPromise DEF Next
  <2>2. ASSUME UNCHANGED vars PROVE UNCHANGED Promise!vars
    BY <2>2 DEF vars, Promise!vars
  <2> QED BY <2>1, <2>2
<1> QED BY <1>1, PTL

\* The state machine implements ReplicaSets, whatever commands it is given.
THEOREM PromiseKept == Spec => KeepsPromise
<1>1. Init => Promise!Init
  BY DEF Init, Promise!Init
<1> QED BY <1>1, Inductive, CommandsKeepPromise, PTL DEF Spec, KeepsPromise, Promise!Spec

=============================================================================
