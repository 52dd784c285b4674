------------------------------ MODULE SyncProofs ------------------------------
(***************************************************************************)
(* What ShardSync promises, for any number of placement drivers, workers   *)
(* and shards and any disturbances: what workers and copies of the state   *)
(* machine know of epochs is never ahead of the placement driver, and no   *)
(* leader takes itself out of its group.                                   *)
(***************************************************************************)
EXTENDS ShardSync, PlacementProofs

-------------------------------------------------------------------------------
(* The inductive invariant, on top of that of PlacementProofs (IInv): e    *)
(* and sh stand for assignmentsEpoch and shards.                           *)

\* A copy of the state machine is not ahead of it.
ViewOK(v, e, sh) ==
    /\ v.epoch \in 0..e
    /\ DOMAIN v.shards = ShardIDs
    /\ \A s \in ShardIDs : v.shards[s].epoch \in 0..sh[s].epoch /\ v.shards[s].replicas \subseteq Workers

\* Assignments of worker w: of epochs that have been, and of shards it is a replica of.
AssignmentsOK(a, w, sh) ==
    /\ DOMAIN a \subseteq ShardIDs
    /\ \A s \in DOMAIN a :
        a[s].epoch \in 0..sh[s].epoch /\ a[s].replicas \subseteq Workers /\ w \in a[s].replicas

HeartbeatOK(h, w, e, sh) ==
    /\ AssignmentsOK(h.assignments, w, sh)
    /\ h.epoch \in 0..e
    /\ h.phase = "read" =>
        /\ h.pd \in PDs
        /\ h = [phase |-> "read", pd |-> h.pd, assignments |-> h.assignments, epoch |-> h.epoch]

\* What worker w knows.
KnowledgeOK(last, running, epochs, dirs, e, sh) ==
    /\ running \subseteq dirs /\ dirs \subseteq ShardIDs
    /\ last \in 0..e
    /\ epochs = [s \in ShardIDs |-> epochs[s]]
    /\ \A s \in ShardIDs : epochs[s] \in 0..sh[s].epoch

GroupOK(g) ==
    /\ g = [nodes |-> g.nodes, leader |-> g.leader, initialMembers |-> g.initialMembers]
    /\ g.nodes \subseteq Workers
    /\ g.leader \in g.nodes \cup {0}

ClusterInv == IInv /\ workers = InitialWorkers /\ DOMAIN shards = ShardIDs

ViewsInv ==
    /\ views = [p \in PDs |-> views[p]]
    /\ \A p \in PDs : ViewOK(views[p], assignmentsEpoch, shards)

AnswersInv ==
    /\ heartbeat = [w \in Workers |-> heartbeat[w]] /\ syncing = [w \in Workers |-> syncing[w]]
    /\ \A w \in Workers :
        /\ HeartbeatOK(heartbeat[w], w, assignmentsEpoch, shards)
        /\ AssignmentsOK(syncing[w], w, shards)

KnowledgeInv ==
    /\ lastAssignmentsEpoch = [w \in Workers |-> lastAssignmentsEpoch[w]]
    /\ runningReplicas = [w \in Workers |-> runningReplicas[w]]
    /\ shardEpochs = [w \in Workers |-> shardEpochs[w]]
    /\ shardDirs = [w \in Workers |-> shardDirs[w]]
    /\ \A w \in Workers :
        KnowledgeOK(lastAssignmentsEpoch[w], runningReplicas[w], shardEpochs[w], shardDirs[w],
                    assignmentsEpoch, shards)

GroupsInv ==
    /\ group = [s \in ShardIDs |-> group[s]]
    /\ \A s \in ShardIDs : GroupOK(group[s])

SyncInv == ClusterInv /\ ViewsInv /\ AnswersInv /\ KnowledgeInv /\ GroupsInv

-------------------------------------------------------------------------------
(* Epochs grow.                                                            *)

\* The epochs e2 and sh2 are not older than e and sh.
Later(e, sh, e2, sh2) ==
    /\ e \in Nat /\ e2 \in Nat /\ e <= e2
    /\ \A s \in ShardIDs : sh[s].epoch \in Nat /\ sh2[s].epoch \in Nat /\ sh[s].epoch <= sh2[s].epoch

\* What is not ahead of the placement driver does not get ahead of it.
LEMMA LaterOK ==
    ASSUME NEW e, NEW sh, NEW e2, NEW sh2, Later(e, sh, e2, sh2)
    PROVE  /\ \A v : ViewOK(v, e, sh) => ViewOK(v, e2, sh2)
           /\ \A a, w : AssignmentsOK(a, w, sh) => AssignmentsOK(a, w, sh2)
           /\ \A h, w : HeartbeatOK(h, w, e, sh) => HeartbeatOK(h, w, e2, sh2)
           /\ \A last, running, epochs, dirs :
                KnowledgeOK(last, running, epochs, dirs, e, sh) => KnowledgeOK(last, running, epochs, dirs, e2, sh2)
<1>1. 0..e \subseteq 0..e2 /\ \A s \in ShardIDs : 0..sh[s].epoch \subseteq 0..sh2[s].epoch
  BY DEF Later
<1>2. \A v : ViewOK(v, e, sh) => ViewOK(v, e2, sh2)
  BY <1>1 DEF ViewOK
<1>3. \A a, w : AssignmentsOK(a, w, sh) => AssignmentsOK(a, w, sh2)
  BY <1>1 DEF AssignmentsOK
<1>4. \A h, w : HeartbeatOK(h, w, e, sh) => HeartbeatOK(h, w, e2, sh2)
  BY <1>1, <1>3, Zenon DEF HeartbeatOK
<1>5. \A last, running, epochs, dirs :
         KnowledgeOK(last, running, epochs, dirs, e, sh) => KnowledgeOK(last, running, epochs, dirs, e2, sh2)
  BY <1>1, Zenon DEF KnowledgeOK
<1> QED BY <1>2, <1>3, <1>4, <1>5

LEMMA ClusterFacts ==
    ASSUME ClusterInv
    PROVE  /\ RegistryOK /\ ShardsOK /\ assignmentsEpoch \in Nat /\ DOMAIN shards = ShardIDs
           /\ DOMAIN workers = Workers /\ Workers \subseteq Nat
           /\ \A s \in ShardIDs :
                /\ ShardOK(shards[s], Workers) /\ shards[s].epoch \in Nat
                /\ Range(shards[s].replicas) \subseteq Workers
<1>1. IInv /\ DOMAIN workers = Workers /\ DOMAIN shards = ShardIDs
  BY DEF ClusterInv, Workers
<1>2. RegistryOK /\ ShardsOK
  BY <1>1, IInvParts
<1>3. \A s \in ShardIDs : ShardOK(shards[s], Workers)
  BY <1>1, <1>2 DEF ShardsOK
<1>4. \A s \in ShardIDs : shards[s].epoch \in Nat /\ Range(shards[s].replicas) \subseteq Workers
  BY <1>3 DEF ShardOK, ShardInfo
<1>5. assignmentsEpoch \in Nat /\ Workers \subseteq Nat
  BY <1>1, <1>2 DEF ShardsOK, RegistryOK
<1> QED BY <1>1, <1>2, <1>3, <1>4, <1>5

\* No step takes an epoch back, and each keeps the state machine sound.
LEMMA StepFacts ==
    ASSUME SyncInv, SyncNext
    PROVE  ClusterInv' /\ Later(assignmentsEpoch, shards, assignmentsEpoch', shards')
<1>1. ClusterInv /\ RegistryOK /\ ShardsOK
  BY ClusterFacts DEF SyncInv
<1>2. CASE UNCHANGED vars
  <2>1. IInv'
    BY <1>1, <1>2, NextPreserves DEF ClusterInv
  <2> QED BY <1>1, <1>2, <2>1, ClusterFacts DEF ClusterInv, Later, vars
<1>3. ASSUME NEW s \in ShardIDs, NEW q, SetReplicas(s, q), RegistryOK' /\ ShardsOK'
      PROVE  ClusterInv' /\ Later(assignmentsEpoch, shards, assignmentsEpoch', shards')
  <2>1. /\ DOMAIN shards' = DOMAIN shards /\ workers' = workers /\ assignmentsEpoch' = assignmentsEpoch + 1
        /\ \A x \in DOMAIN shards : x # s => shards'[x] = shards[x]
        /\ shards'[s] = [shards[s] EXCEPT !.replicas = q, !.epoch = @ + 1]
    BY <1>1, <1>3, ClusterFacts DEF SetReplicas, BumpAssignmentsEpoch
  <2>2. shards[s] \in ShardInfo
    BY <1>1, ClusterFacts DEF ShardOK
  <2>3. shards'[s].epoch = shards[s].epoch + 1
    BY <2>1, <2>2 DEF ShardInfo
  <2>4. IInv'
    BY <1>3, IInvParts, PTL
  <2>5. ClusterInv'
    BY <1>1, <2>1, <2>4 DEF ClusterInv
  <2>6. /\ assignmentsEpoch \in Nat /\ \A x \in ShardIDs : shards[x].epoch \in Nat
    BY <1>1, ClusterFacts
  <2>7. ASSUME NEW x \in ShardIDs PROVE shards'[x].epoch \in Nat /\ shards[x].epoch <= shards'[x].epoch
    <3>1. x # s => shards'[x] = shards[x]
      BY <1>1, <2>1 DEF ClusterInv
    <3> QED BY <2>3, <2>6, <3>1
  <2> QED BY <2>1, <2>5, <2>6, <2>7 DEF Later
<1>4. ASSUME NEW s, NEW w, ReplicaAdded(s, w)
      PROVE  ClusterInv' /\ Later(assignmentsEpoch, shards, assignmentsEpoch', shards')
  <2>1. /\ AddShardReplica(s, w) /\ s \in DOMAIN shards /\ w \in DOMAIN workers
        /\ SetReplicas(s, Append(shards[s].replicas, w))
    BY <1>4 DEF ReplicaAdded, AddShardReplica, IsWorkerHealthy
  <2>2. RegistryOK' /\ ShardsOK'
    BY <1>1, <2>1, ShardCommandsPreserve
  <2> QED BY <1>1, <1>3, <2>1, <2>2 DEF ClusterInv
<1>5. ASSUME NEW s, NEW w, ReplicaRemoved(s, w)
      PROVE  ClusterInv' /\ Later(assignmentsEpoch, shards, assignmentsEpoch', shards')
  <2>1. RemoveShardReplica(s, w) /\ s \in DOMAIN shards
    BY <1>5 DEF ReplicaRemoved, RemoveShardReplica
  <2>2. PICK i \in 1..Len(shards[s].replicas) :
           shards[s].replicas[i] = w /\ SetReplicas(s, RemoveAt(shards[s].replicas, i))
    BY <2>1 DEF RemoveShardReplica
  <2>3. shards[s].replicas \in Seq(Nat) /\ Range(shards[s].replicas) \subseteq DOMAIN workers
    BY <1>1, <2>1 DEF ShardsOK, ShardOK, ShardInfo
  <2>4. w \in DOMAIN workers
    BY <2>2, <2>3 DEF Range
  <2>5. RegistryOK' /\ ShardsOK'
    BY <1>1, <2>1, <2>4, ShardCommandsPreserve
  <2> QED BY <1>1, <1>3, <2>1, <2>2, <2>5 DEF ClusterInv
<1>6. ASSUME NEW p, NEW w, NEW ok, HandleHeartbeat(p, w, ok)
      PROVE  ClusterInv' /\ Later(assignmentsEpoch, shards, assignmentsEpoch', shards')
  <2>1. UNCHANGED <<workers, fresh, assignmentsEpoch, nextWorkerID, nextShardID>>
    BY <1>6 DEF HandleHeartbeat
  <2>2. CASE shards' = shards
    BY <1>2, <2>1, <2>2 DEF vars
  <2>3. CASE shards' = [s \in DOMAIN shards |->
                          IF s \in runningReplicas[w] /\ Holds(s, w)
                          THEN LeaderReported(shards[s], group[s].leader)
                          ELSE shards[s]]
    <3>1. \A s \in ShardIDs : group[s].leader \in Nat
      BY <1>1, ClusterFacts DEF SyncInv, GroupsInv, GroupOK
    <3>2. ASSUME NEW s \in ShardIDs PROVE ShardOK(shards'[s], Workers) /\ shards'[s].epoch = shards[s].epoch
      <4>1. ShardOK(shards[s], Workers) /\ s \in DOMAIN shards
        BY <1>1, ClusterFacts
      <4>2. shards'[s] = LeaderReported(shards[s], group[s].leader) \/ shards'[s] = shards[s]
        BY <2>3, <4>1
      <4> QED BY <3>1, <4>1, <4>2, LeaderReportedOK
    <3>3. DOMAIN shards' = DOMAIN shards /\ shards' = [s \in DOMAIN shards' |-> shards'[s]]
      BY <2>3
    <3>4. RegistryOK' /\ DOMAIN workers' = Workers
      BY <1>1, <2>1, ClusterFacts DEF RegistryOK
    <3>5. ShardsOK'
      BY <1>1, <2>1, <3>2, <3>3, <3>4, ClusterFacts DEF ShardsOK
    <3>6. IInv'
      BY <3>4, <3>5, IInvParts, PTL
    <3>7. ClusterInv'
      BY <1>1, <2>1, <3>3, <3>6 DEF ClusterInv
    <3> QED BY <1>1, <2>1, <3>2, <3>7, ClusterFacts DEF Later
  <2> QED BY <1>6, <2>2, <2>3, Zenon DEF HandleHeartbeat
<1>7. ASSUME NEW w, WorkerStep(w) \/ SyncEnds(w) \/ LoseAnswer(w) \/ WorkerRestarts(w)
      PROVE  UNCHANGED vars
  BY <1>7, Zenon DEF WorkerStep, AnswerHeartbeat, IgnoreAnswer, SyncShards, AddNode, DeleteNode,
     SyncEnds, LoseAnswer,
         WorkerRestarts
<1>8. ASSUME NEW p, CatchUp(p) PROVE UNCHANGED vars
  BY <1>8 DEF CatchUp
<1>9. ASSUME NEW s, LeaderLost(s) \/ \E l \in Workers : Elect(s, l) PROVE UNCHANGED vars
  BY <1>9 DEF LeaderLost, Elect
<1> QED BY <1>2, <1>4, <1>5, <1>6, <1>7, <1>8, <1>9 DEF SyncNext

-------------------------------------------------------------------------------
(* The copies and the answers read from them.                              *)

LEMMA CopyOK ==
    ASSUME NEW sh, DOMAIN sh = ShardIDs, assignmentsEpoch \in Nat,
           \A s \in ShardIDs : sh[s].epoch \in Nat /\ Range(sh[s].replicas) \subseteq Workers
    PROVE  ViewOK(Copy(sh), assignmentsEpoch, sh)
<1> DEFINE v == Copy(sh)
<1>1. v.epoch = assignmentsEpoch /\ DOMAIN v.shards = ShardIDs
  BY DEF Copy
<1>2. \A s \in ShardIDs : v.shards[s].epoch = sh[s].epoch /\ v.shards[s].replicas = Range(sh[s].replicas)
  BY DEF Copy
<1> HIDE DEF v
<1>3. \A s \in ShardIDs : v.shards[s].epoch \in 0..sh[s].epoch /\ v.shards[s].replicas \subseteq Workers
  BY <1>2
<1>4. v.epoch \in 0..assignmentsEpoch
  BY <1>1
<1> QED BY <1>1, <1>3, <1>4 DEF ViewOK, v

LEMMA AssignmentsFromView ==
    ASSUME NEW v, NEW e, NEW sh, ViewOK(v, e, sh), NEW w
    PROVE  AssignmentsOK(Assignments(v, w), w, sh)
<1> DEFINE a == Assignments(v, w)
<1>1. /\ DOMAIN a = {s \in DOMAIN v.shards : w \in v.shards[s].replicas}
      /\ \A s \in DOMAIN a : a[s].epoch = v.shards[s].epoch /\ a[s].replicas = v.shards[s].replicas
  BY DEF Assignments
<1> HIDE DEF a
<1>2. DOMAIN a \subseteq ShardIDs /\ \A s \in DOMAIN a : w \in v.shards[s].replicas
  BY <1>1 DEF ViewOK
<1> QED BY <1>1, <1>2 DEF ViewOK, AssignmentsOK, a

LEMMA ViewsKept ==
    ASSUME SyncInv, SyncNext
    PROVE  ViewsInv'
<1>1. ClusterInv /\ ClusterInv' /\ Later(assignmentsEpoch, shards, assignmentsEpoch', shards')
  BY StepFacts DEF SyncInv
<1>2. views = [p \in PDs |-> views[p]] /\ \A p \in PDs : ViewOK(views[p], assignmentsEpoch, shards)
  BY DEF SyncInv, ViewsInv
<1>3. \A p \in PDs : ViewOK(views[p], assignmentsEpoch', shards')
  BY <1>1, <1>2, LaterOK
<1>4. CASE UNCHANGED views
  BY <1>2, <1>3, <1>4 DEF ViewsInv
<1>5. ASSUME NEW p \in PDs, NEW sh, sh = shards', assignmentsEpoch' = assignmentsEpoch,
             views' = [views EXCEPT ![p] = Copy(sh)]
      PROVE  ViewsInv'
  <2>1. /\ DOMAIN sh = ShardIDs /\ assignmentsEpoch \in Nat
        /\ \A s \in ShardIDs : sh[s].epoch \in Nat /\ Range(sh[s].replicas) \subseteq Workers
    <3>1. /\ DOMAIN shards' = ShardIDs
          /\ \A s \in ShardIDs : shards'[s].epoch \in Nat /\ Range(shards'[s].replicas) \subseteq Workers
      BY <1>1 DEF ClusterInv, IInv, TypeOK, ShardInfo, ReplicasRegistered, Workers
    <3>2. assignmentsEpoch \in Nat
      BY <1>1, ClusterFacts
    <3> QED BY <1>5, <3>1, <3>2
  <2>2. ViewOK(Copy(sh), assignmentsEpoch, sh)
    BY <2>1, CopyOK
  <2>3. PICK v : v = Copy(sh)
    OBVIOUS
  <2>4. views' = [q \in PDs |-> IF q = p THEN v ELSE views[q]]
    BY <1>2, <1>5, <2>3
  <2>5. \A q \in PDs : ViewOK(views'[q], assignmentsEpoch', shards')
    BY <1>3, <1>5, <2>2, <2>3, <2>4
  <2>6. views' = [q \in PDs |-> views'[q]]
    BY <2>4
  <2> QED BY <2>5, <2>6 DEF ViewsInv
<1>6. ASSUME NEW p \in PDs, CatchUp(p) PROVE ViewsInv'
  <2>1. /\ views' = [views EXCEPT ![p] = Copy(shards)] /\ shards' = shards
        /\ assignmentsEpoch' = assignmentsEpoch
    BY <1>6 DEF CatchUp, vars
  <2>2. PICK sh : sh = shards
    OBVIOUS
  <2> QED BY <1>5, <2>1, <2>2
<1>7. ASSUME NEW p \in PDs, NEW w, NEW ok, HandleHeartbeat(p, w, ok) PROVE ViewsInv'
  <2>1. /\ UNCHANGED views \/ views' = [views EXCEPT ![p] = Copy(shards')]
        /\ assignmentsEpoch' = assignmentsEpoch
    BY <1>7, Zenon DEF HandleHeartbeat
  <2>2. PICK sh : sh = shards'
    OBVIOUS
  <2> QED BY <1>4, <1>5, <2>1, <2>2
<1>8. ASSUME NEW w, WorkerStep(w) \/ SyncEnds(w) \/ LoseAnswer(w) \/ WorkerRestarts(w)
      PROVE  UNCHANGED views
  BY <1>8, Zenon DEF WorkerStep, AnswerHeartbeat, IgnoreAnswer, SyncShards, AddNode, DeleteNode,
     SyncEnds, LoseAnswer,
         WorkerRestarts
<1> QED BY <1>4, <1>6, <1>7, <1>8 DEF SyncNext, ReplicaAdded, ReplicaRemoved, LeaderLost, Elect

LEMMA AnswersKept ==
    ASSUME SyncInv, SyncNext
    PROVE  AnswersInv'
<1>1. Later(assignmentsEpoch, shards, assignmentsEpoch', shards') /\ assignmentsEpoch' \in Nat /\ ViewsInv'
  BY StepFacts, ViewsKept DEF Later
<1>2. /\ heartbeat = [w \in Workers |-> heartbeat[w]] /\ syncing = [w \in Workers |-> syncing[w]]
      /\ \A w \in Workers : /\ HeartbeatOK(heartbeat[w], w, assignmentsEpoch, shards)
                            /\ AssignmentsOK(syncing[w], w, shards)
  BY DEF SyncInv, AnswersInv
<1>3. \A w \in Workers : /\ HeartbeatOK(heartbeat[w], w, assignmentsEpoch', shards')
                         /\ AssignmentsOK(syncing[w], w, shards')
  BY <1>1, <1>2, LaterOK
<1>4. CASE UNCHANGED <<heartbeat, syncing>>
  BY <1>2, <1>3, <1>4 DEF AnswersInv
<1>5. ASSUME NEW w \in Workers, NEW h, HeartbeatOK(h, w, assignmentsEpoch', shards'),
             heartbeat' = [heartbeat EXCEPT ![w] = h] \/ heartbeat' = heartbeat,
             NEW a, AssignmentsOK(a, w, shards'),
             syncing' = [syncing EXCEPT ![w] = a] \/ syncing' = syncing
      PROVE  AnswersInv'
  <2>1. /\ heartbeat' = [heartbeat EXCEPT ![w] = h] =>
              heartbeat' = [x \in Workers |-> IF x = w THEN h ELSE heartbeat[x]]
        /\ syncing' = [syncing EXCEPT ![w] = a] =>
              syncing' = [x \in Workers |-> IF x = w THEN a ELSE syncing[x]]
    BY <1>2
  <2>2. heartbeat' = [x \in Workers |-> heartbeat'[x]] /\ syncing' = [x \in Workers |-> syncing'[x]]
    BY <1>2, <1>5, <2>1
  <2>3. \A x \in Workers : HeartbeatOK(heartbeat'[x], x, assignmentsEpoch', shards')
    BY <1>3, <1>5, <2>1
  <2>4. \A x \in Workers : AssignmentsOK(syncing'[x], x, shards')
    BY <1>3, <1>5, <2>1
  <2> QED BY <2>2, <2>3, <2>4 DEF AnswersInv
<1>6. ASSUME NEW w
      PROVE  AssignmentsOK(<<>>, w, shards') /\ HeartbeatOK(NoHeartbeat, w, assignmentsEpoch', shards')
  <2>1. AssignmentsOK(<<>>, w, shards')
    BY DEF AssignmentsOK
  <2>2. NoHeartbeat.assignments = <<>> /\ NoHeartbeat.epoch = 0 /\ NoHeartbeat.phase # "read"
    BY DEF NoHeartbeat
  <2>3. 0 \in 0..assignmentsEpoch'
    BY <1>1
  <2> QED BY <2>1, <2>2, <2>3, Zenon DEF HeartbeatOK
<1>7. ASSUME NEW p \in PDs, NEW w \in Workers, NEW ok, HandleHeartbeat(p, w, ok) PROVE AnswersInv'
  <2> DEFINE a == Assignments(views'[p], w)
             h == [phase |-> "read", pd |-> p, assignments |-> a, epoch |-> 0]
  <2>1. heartbeat' = [heartbeat EXCEPT ![w] = h] /\ syncing' = syncing
    BY <1>7 DEF HandleHeartbeat
  <2>2. AssignmentsOK(a, w, shards')
    BY <1>1, AssignmentsFromView DEF ViewsInv
  <2> HIDE DEF a
  <2>3. h.assignments = a /\ h.epoch = 0 /\ h.phase = "read" /\ h.pd = p
    OBVIOUS
  <2>4. 0 \in 0..assignmentsEpoch'
    BY <1>1
  <2>5. h = [phase |-> "read", pd |-> h.pd, assignments |-> h.assignments, epoch |-> h.epoch]
    BY <2>3
  <2> HIDE DEF h
  <2>6. HeartbeatOK(h, w, assignmentsEpoch', shards')
    BY <2>2, <2>3, <2>4, <2>5 DEF HeartbeatOK
  <2>7. PICK g : g = h
    OBVIOUS
  <2> QED BY <1>5, <1>6, <2>1, <2>6, <2>7
<1>8. ASSUME NEW w \in Workers, AnswerHeartbeat(w) PROVE AnswersInv'
  <2> DEFINE old == heartbeat[w]
             e == views[old.pd].epoch
             h == [[old EXCEPT !.phase = "answered"] EXCEPT !.epoch = e]
  <2>1. /\ old.phase = "read" /\ HeartbeatOK(old, w, assignmentsEpoch', shards')
        /\ heartbeat' = [heartbeat EXCEPT ![w] = h]
        /\ syncing' = syncing /\ views' = views
    BY <1>2, <1>3, <1>8 DEF AnswerHeartbeat
  <2>2. /\ old.pd \in PDs
        /\ old = [phase |-> "read", pd |-> old.pd, assignments |-> old.assignments, epoch |-> old.epoch]
    BY <2>1 DEF HeartbeatOK
  <2>3. e \in 0..assignmentsEpoch'
    BY <1>1, <2>1, <2>2 DEF ViewsInv, ViewOK
  <2>4. h.phase = "answered" /\ h.assignments = old.assignments /\ h.epoch = e
    <3> HIDE DEF e, old
    <3> QED BY <2>2
  <2> HIDE DEF h, e, old
  <2>5. HeartbeatOK(h, w, assignmentsEpoch', shards')
    BY <2>1, <2>3, <2>4 DEF HeartbeatOK
  <2>6. PICK g : g = h
    OBVIOUS
  <2> QED BY <1>5, <1>6, <2>1, <2>5, <2>6
<1>9. ASSUME NEW w \in Workers, SyncShards(w) PROVE AnswersInv'
  <2>1. /\ heartbeat' = [heartbeat EXCEPT ![w] = NoHeartbeat]
        /\ syncing' = [syncing EXCEPT ![w] = heartbeat[w].assignments]
    BY <1>9 DEF SyncShards
  <2>2. AssignmentsOK(heartbeat[w].assignments, w, shards')
    BY <1>3 DEF HeartbeatOK
  <2>3. PICK a : a = heartbeat[w].assignments
    OBVIOUS
  <2> QED BY <1>5, <1>6, <2>1, <2>2, <2>3
<1>10. ASSUME NEW w \in Workers, IgnoreAnswer(w) \/ LoseAnswer(w) \/ WorkerRestarts(w) \/ SyncEnds(w)
       PROVE  AnswersInv'
  <2>1. /\ heartbeat' = [heartbeat EXCEPT ![w] = NoHeartbeat] \/ heartbeat' = heartbeat
        /\ syncing' = [syncing EXCEPT ![w] = <<>>] \/ syncing' = syncing
    BY <1>10, Zenon DEF IgnoreAnswer, LoseAnswer, WorkerRestarts, SyncEnds
  <2> QED BY <1>5, <1>6, <2>1
<1>11. ASSUME NEW w, NEW s, NEW n, AddNode(w, s, n) \/ DeleteNode(w, s, n)
       PROVE  UNCHANGED <<heartbeat, syncing>>
  BY <1>11 DEF AddNode, DeleteNode
<1> QED BY <1>4, <1>7, <1>8, <1>9, <1>10, <1>11
        DEF SyncNext, WorkerStep, ReplicaAdded, ReplicaRemoved, CatchUp, LeaderLost, Elect

-------------------------------------------------------------------------------
(* The workers and the groups.                                             *)

LEMMA MaxOfTwo ==
    ASSUME NEW a \in Int, NEW b \in Int
    PROVE  Max({a, b}) \in {a, b}
<1>1. \E x \in {a, b} : \A y \in {a, b} : x >= y
  <2>1. CASE a >= b
    BY <2>1
  <2>2. CASE b >= a
    BY <2>2
  <2> QED BY <2>1, <2>2
<1> QED BY <1>1 DEF Max

LEMMA KnowledgeKept ==
    ASSUME SyncInv, SyncNext
    PROVE  KnowledgeInv'
<1>1. Later(assignmentsEpoch, shards, assignmentsEpoch', shards') /\ AnswersInv'
  BY StepFacts, AnswersKept
<1>2. /\ lastAssignmentsEpoch = [w \in Workers |-> lastAssignmentsEpoch[w]]
      /\ runningReplicas = [w \in Workers |-> runningReplicas[w]]
      /\ shardEpochs = [w \in Workers |-> shardEpochs[w]]
      /\ shardDirs = [w \in Workers |-> shardDirs[w]]
  BY DEF SyncInv, KnowledgeInv
<1>3. \A w \in Workers :
        KnowledgeOK(lastAssignmentsEpoch[w], runningReplicas[w], shardEpochs[w], shardDirs[w],
                    assignmentsEpoch', shards')
  <2>1. \A w \in Workers :
          KnowledgeOK(lastAssignmentsEpoch[w], runningReplicas[w], shardEpochs[w], shardDirs[w],
                      assignmentsEpoch, shards)
    BY DEF SyncInv, KnowledgeInv
  <2> QED BY <1>1, <2>1, LaterOK
<1>4. CASE UNCHANGED workerVars
  <2>1. /\ lastAssignmentsEpoch' = lastAssignmentsEpoch /\ runningReplicas' = runningReplicas
        /\ shardEpochs' = shardEpochs /\ shardDirs' = shardDirs
    BY <1>4 DEF workerVars
  <2> QED BY <1>2, <1>3, <2>1 DEF KnowledgeInv
<1>5. ASSUME NEW w \in Workers, NEW last, NEW running, NEW epochs, NEW dirs,
             KnowledgeOK(last, running, epochs, dirs, assignmentsEpoch', shards'),
             lastAssignmentsEpoch' = [lastAssignmentsEpoch EXCEPT ![w] = last],
             runningReplicas' = [runningReplicas EXCEPT ![w] = running],
             shardEpochs' = [shardEpochs EXCEPT ![w] = epochs],
             shardDirs' = [shardDirs EXCEPT ![w] = dirs]
      PROVE  KnowledgeInv'
  <2>1. /\ lastAssignmentsEpoch' = [x \in Workers |-> lastAssignmentsEpoch'[x]]
        /\ runningReplicas' = [x \in Workers |-> runningReplicas'[x]]
        /\ shardEpochs' = [x \in Workers |-> shardEpochs'[x]]
        /\ shardDirs' = [x \in Workers |-> shardDirs'[x]]
    BY <1>2, <1>5
  <2>2. ASSUME NEW x \in Workers
        PROVE  KnowledgeOK(lastAssignmentsEpoch'[x], runningReplicas'[x], shardEpochs'[x], shardDirs'[x],
                           assignmentsEpoch', shards')
    <3>1. CASE x = w
      <4>1. /\ lastAssignmentsEpoch'[x] = last /\ runningReplicas'[x] = running
            /\ shardEpochs'[x] = epochs /\ shardDirs'[x] = dirs
        BY <1>2, <1>5, <3>1
      <4> QED BY <1>5, <4>1
    <3>2. CASE x # w
      <4>1. /\ lastAssignmentsEpoch'[x] = lastAssignmentsEpoch[x] /\ runningReplicas'[x] = runningReplicas[x]
            /\ shardEpochs'[x] = shardEpochs[x] /\ shardDirs'[x] = shardDirs[x]
        BY <1>2, <1>5, <3>2
      <4> QED BY <1>3, <4>1
    <3> QED BY <3>1, <3>2
  <2> QED BY <2>1, <2>2 DEF KnowledgeInv
<1>6. ASSUME NEW w \in Workers
      PROVE  /\ lastAssignmentsEpoch[w] \in 0..assignmentsEpoch' /\ heartbeat[w].epoch \in 0..assignmentsEpoch'
             /\ AssignmentsOK(heartbeat[w].assignments, w, shards')
             /\ \A s \in ShardIDs : shardEpochs[w][s] \in 0..shards'[s].epoch
             /\ runningReplicas[w] \subseteq shardDirs[w] /\ shardDirs[w] \subseteq ShardIDs
  <2>1. HeartbeatOK(heartbeat[w], w, assignmentsEpoch', shards')
    BY <1>1, LaterOK DEF SyncInv, AnswersInv
  <2> QED BY <1>3, <2>1 DEF KnowledgeOK, HeartbeatOK
<1>7. ASSUME NEW w \in Workers, IgnoreAnswer(w) PROVE KnowledgeInv'
  <2> DEFINE last == Max({lastAssignmentsEpoch[w], heartbeat[w].epoch})
  <2>1. /\ lastAssignmentsEpoch' = [lastAssignmentsEpoch EXCEPT ![w] = last]
        /\ UNCHANGED <<runningReplicas, shardEpochs, shardDirs>>
    BY <1>7 DEF IgnoreAnswer
  <2>2. last \in 0..assignmentsEpoch'
    <3>1. lastAssignmentsEpoch[w] \in Int /\ heartbeat[w].epoch \in Int
      BY <1>6
    <3>2. last \in {lastAssignmentsEpoch[w], heartbeat[w].epoch}
      BY <3>1, MaxOfTwo
    <3> HIDE DEF last
    <3> QED BY <1>6, <3>2
  <2> HIDE DEF last
  <2>3. KnowledgeOK(last, runningReplicas[w], shardEpochs[w], shardDirs[w], assignmentsEpoch', shards')
    BY <1>3, <2>2 DEF KnowledgeOK
  <2>4. PICK l, r, ep, d : l = last /\ r = runningReplicas[w] /\ ep = shardEpochs[w] /\ d = shardDirs[w]
    OBVIOUS
  <2>5. /\ runningReplicas' = [runningReplicas EXCEPT ![w] = r]
        /\ shardEpochs' = [shardEpochs EXCEPT ![w] = ep]
        /\ shardDirs' = [shardDirs EXCEPT ![w] = d]
    BY <1>2, <2>1, <2>4
  <2>6. lastAssignmentsEpoch' = [lastAssignmentsEpoch EXCEPT ![w] = l]
    BY <2>1, <2>4
  <2>7. KnowledgeOK(l, r, ep, d, assignmentsEpoch', shards')
    BY <2>3, <2>4
  <2> QED BY <1>5, <2>5, <2>6, <2>7
<1>8. ASSUME NEW w \in Workers, SyncShards(w) PROVE KnowledgeInv'
  <2> DEFINE desired == heartbeat[w].assignments
             toStop == runningReplicas[w] \ DOMAIN desired
             toStart == DOMAIN desired \ runningReplicas[w]
             running == (runningReplicas[w] \ toStop) \cup toStart
             dirs == (shardDirs[w] \ toStop) \cup toStart
             epochs == [s \in ShardIDs |-> IF s \in DOMAIN desired /\ desired[s].epoch > shardEpochs[w][s]
                                           THEN desired[s].epoch ELSE shardEpochs[w][s]]
  <2>1. /\ lastAssignmentsEpoch' = [lastAssignmentsEpoch EXCEPT ![w] = heartbeat[w].epoch]
        /\ runningReplicas' = [runningReplicas EXCEPT ![w] = running]
        /\ shardDirs' = [shardDirs EXCEPT ![w] = dirs]
        /\ shardEpochs' = [shardEpochs EXCEPT ![w] = epochs]
    BY <1>8 DEF SyncShards
  <2>2. DOMAIN desired \subseteq ShardIDs /\ \A s \in DOMAIN desired : desired[s].epoch \in 0..shards'[s].epoch
    BY <1>6 DEF AssignmentsOK
  <2>3. running \subseteq dirs /\ dirs \subseteq ShardIDs
    BY <1>6, <2>2
  <2>4. epochs = [s \in ShardIDs |-> epochs[s]] /\ \A s \in ShardIDs : epochs[s] \in 0..shards'[s].epoch
    <3> HIDE DEF desired
    <3> QED BY <1>6, <2>2
  <2> HIDE DEF running, dirs, epochs
  <2>5. KnowledgeOK(heartbeat[w].epoch, running, epochs, dirs, assignmentsEpoch', shards')
    BY <1>6, <2>3, <2>4 DEF KnowledgeOK
  <2>6. PICK l, r, ep, d : l = heartbeat[w].epoch /\ r = running /\ ep = epochs /\ d = dirs
    OBVIOUS
  <2> QED BY <1>5, <2>1, <2>5, <2>6
<1>9. ASSUME NEW w \in Workers, WorkerRestarts(w) PROVE KnowledgeInv'
  <2> DEFINE zero == [s \in ShardIDs |-> 0]
  <2>1. /\ lastAssignmentsEpoch' = [lastAssignmentsEpoch EXCEPT ![w] = 0]
        /\ runningReplicas' = [runningReplicas EXCEPT ![w] = {}]
        /\ shardEpochs' = [shardEpochs EXCEPT ![w] = zero]
        /\ shardDirs' = shardDirs
    BY <1>9 DEF WorkerRestarts
  <2>2. zero = [s \in ShardIDs |-> zero[s]] /\ \A s \in ShardIDs : zero[s] \in 0..shards'[s].epoch
    BY <1>1 DEF Later
  <2>3. 0 \in 0..assignmentsEpoch'
    BY <1>1 DEF Later
  <2> HIDE DEF zero
  <2>4. KnowledgeOK(0, {}, zero, shardDirs[w], assignmentsEpoch', shards')
    BY <1>6, <2>2, <2>3 DEF KnowledgeOK
  <2>5. PICK ep, d : ep = zero /\ d = shardDirs[w]
    OBVIOUS
  <2>6. shardDirs' = [shardDirs EXCEPT ![w] = d]
    BY <1>2, <2>1, <2>5
  <2> QED BY <1>5, <2>1, <2>4, <2>5, <2>6
<1>10. ASSUME NEW w, AnswerHeartbeat(w) \/ SyncEnds(w) \/ LoseAnswer(w)
                     \/ \E s \in ShardIDs, n \in Workers : AddNode(w, s, n) \/ DeleteNode(w, s, n)
       PROVE  UNCHANGED workerVars
  BY <1>10, Zenon DEF AnswerHeartbeat, SyncEnds, LoseAnswer, AddNode, DeleteNode
<1>11. ASSUME NEW p, NEW w, NEW ok, HandleHeartbeat(p, w, ok) PROVE UNCHANGED workerVars
  BY <1>11 DEF HandleHeartbeat
<1> QED BY <1>4, <1>7, <1>8, <1>9, <1>10, <1>11
        DEF SyncNext, WorkerStep, ReplicaAdded, ReplicaRemoved, CatchUp, LeaderLost, Elect

LEMMA GroupsKept ==
    ASSUME SyncInv, SyncNext
    PROVE  GroupsInv'
<1>1. group = [s \in ShardIDs |-> group[s]] /\ \A s \in ShardIDs : GroupOK(group[s])
  BY DEF SyncInv, GroupsInv
<1>2. CASE UNCHANGED group
  BY <1>1, <1>2 DEF GroupsInv
<1>3. ASSUME NEW s \in ShardIDs, NEW g, GroupOK(g), group' = [group EXCEPT ![s] = g]
      PROVE  GroupsInv'
  <2>1. group' = [x \in ShardIDs |-> IF x = s THEN g ELSE group[x]]
    BY <1>1, <1>3
  <2>2. \A x \in ShardIDs : GroupOK(group'[x])
    BY <1>1, <1>3, <2>1
  <2>3. group' = [x \in ShardIDs |-> group'[x]]
    BY <2>1
  <2> QED BY <2>2, <2>3 DEF GroupsInv
<1>4. ASSUME NEW g, GroupOK(g), NEW nodes \in SUBSET Workers, NEW leader \in nodes \cup {0}, NEW members
      PROVE  /\ g.leader \in nodes \cup {0} => GroupOK([g EXCEPT !.nodes = nodes])
             /\ leader \in g.nodes \cup {0} => GroupOK([g EXCEPT !.leader = leader])
             /\ g.leader \in nodes \cup {0} => GroupOK([[g EXCEPT !.nodes = nodes] EXCEPT !.initialMembers = members])
  <2>1. PICK n, l, m : g = [nodes |-> n, leader |-> l, initialMembers |-> m]
    BY <1>4 DEF GroupOK
  <2>2. n \subseteq Workers /\ l \in n \cup {0} /\ g.leader = l /\ g.nodes = n
    BY <1>4, <2>1 DEF GroupOK
  <2> DEFINE R == [nodes : SUBSET Workers, leader : Workers \cup {0}, initialMembers : {m, members}]
             g1 == [g EXCEPT !.nodes = nodes]
             g2 == [g EXCEPT !.leader = leader]
             g3 == [g1 EXCEPT !.initialMembers = members]
  <2>3. g \in R
    BY <2>1, <2>2
  <2>4. g1 \in R /\ g1.nodes = nodes /\ g1.leader = l
    BY <2>2, <2>3
  <2>5. g2 \in R /\ g2.nodes = n /\ g2.leader = leader
    BY <2>2, <2>3
  <2> HIDE DEF g1, g2
  <2>6. g3 \in R /\ g3.nodes = nodes /\ g3.leader = l
    BY <2>4
  <2> HIDE DEF g3
  <2>7. ASSUME NEW x \in R, x.leader \in x.nodes \cup {0} PROVE GroupOK(x)
    BY <2>7 DEF GroupOK
  <2> HIDE DEF R
  <2>8. /\ l \in nodes \cup {0} => GroupOK(g1) /\ GroupOK(g3)
        /\ leader \in n \cup {0} => GroupOK(g2)
    BY <2>4, <2>5, <2>6, <2>7
  <2> QED BY <2>2, <2>8 DEF g1, g2, g3
<1>5. ASSUME NEW s \in ShardIDs, NEW nodes \in SUBSET Workers, group[s].leader \in nodes \cup {0},
             group' = [group EXCEPT ![s].nodes = nodes]
      PROVE  GroupsInv'
  <2>1. GroupOK([group[s] EXCEPT !.nodes = nodes])
    BY <1>1, <1>4, <1>5
  <2>2. PICK g : g = [group[s] EXCEPT !.nodes = nodes]
    OBVIOUS
  <2>3. group' = [group EXCEPT ![s] = g]
    BY <1>5, <2>2
  <2> QED BY <1>3, <2>1, <2>2, <2>3
<1>6. ASSUME NEW s \in ShardIDs, NEW l \in group[s].nodes \cup {0}, group' = [group EXCEPT ![s].leader = l]
      PROVE  GroupsInv'
  <2>1. group[s].nodes \in SUBSET Workers
    BY <1>1 DEF GroupOK
  <2>2. GroupOK([group[s] EXCEPT !.leader = l])
    BY <1>1, <1>4, <2>1
  <2>3. PICK g : g = [group[s] EXCEPT !.leader = l]
    OBVIOUS
  <2>4. group' = [group EXCEPT ![s] = g]
    BY <1>6, <2>3
  <2> QED BY <1>3, <2>2, <2>3, <2>4
<1>7. ASSUME NEW w \in Workers, NEW s \in ShardIDs, NEW n \in Workers, AddNode(w, s, n) PROVE GroupsInv'
  <2>1. group' = [group EXCEPT ![s].nodes = group[s].nodes \cup {n}]
    BY <1>7 DEF AddNode
  <2>2. group[s].nodes \cup {n} \in SUBSET Workers /\ group[s].leader \in (group[s].nodes \cup {n}) \cup {0}
    BY <1>1 DEF GroupOK
  <2>3. PICK nodes : nodes = group[s].nodes \cup {n}
    OBVIOUS
  <2> QED BY <1>5, <2>1, <2>2, <2>3
\* The leader is one of the replicas it was told of: it does not drop itself.
<1>8. ASSUME NEW w \in Workers, NEW s \in ShardIDs, NEW n \in Workers, DeleteNode(w, s, n) PROVE GroupsInv'
  <2>1. /\ group' = [group EXCEPT ![s].nodes = group[s].nodes \ {n}] /\ group[s].leader = w
        /\ s \in DOMAIN syncing[w] /\ n \notin syncing[w][s].replicas /\ w \in group[s].nodes
    BY <1>8 DEF DeleteNode, Reconciles, Surplus, RunningNodes
  <2>2. w \in syncing[w][s].replicas
    BY <2>1 DEF SyncInv, AnswersInv, AssignmentsOK
  <2>3. group[s].nodes \ {n} \in SUBSET Workers /\ group[s].leader \in group[s].nodes \ {n}
    BY <1>1, <2>1, <2>2 DEF GroupOK
  <2>4. PICK nodes : nodes = group[s].nodes \ {n}
    OBVIOUS
  <2> QED BY <1>5, <2>1, <2>3, <2>4
<1>9. ASSUME NEW w \in Workers, SyncShards(w) PROVE GroupsInv'
  <2> DEFINE desired == heartbeat[w].assignments
             bootstrapping == {s \in DOMAIN desired \ runningReplicas[w] : desired[s].bootstrap}
             nodes(s) == IF group[s].nodes = {} THEN desired[s].replicas ELSE group[s].nodes
             started(s) == [[group[s] EXCEPT !.nodes = nodes(s)]
                              EXCEPT !.initialMembers = Put(@, w, desired[s].replicas)]
  <2>1. group' = [s \in ShardIDs |-> IF s \in bootstrapping THEN started(s) ELSE group[s]]
    BY <1>9 DEF SyncShards
  <2>2. ASSUME NEW s \in ShardIDs PROVE GroupOK(group'[s])
    <3>1. CASE s \notin bootstrapping
      BY <1>1, <2>1, <3>1
    <3>2. CASE s \in bootstrapping
      <4>1. desired[s].replicas \subseteq Workers
        BY <3>2 DEF SyncInv, AnswersInv, HeartbeatOK, AssignmentsOK
      <4>2. nodes(s) \in SUBSET Workers /\ group[s].leader \in nodes(s) \cup {0}
        BY <1>1, <4>1 DEF GroupOK
      <4>3. PICK members : members = Put(group[s].initialMembers, w, desired[s].replicas)
        OBVIOUS
      <4>4. started(s) = [[group[s] EXCEPT !.nodes = nodes(s)] EXCEPT !.initialMembers = members]
        <5>1. PICK n, l, m : group[s] = [nodes |-> n, leader |-> l, initialMembers |-> m]
          BY <1>1 DEF GroupOK
        <5>2. [group[s] EXCEPT !.nodes = nodes(s)].initialMembers = group[s].initialMembers
          BY <5>1
        <5> QED BY <4>3, <5>2
      <4> HIDE DEF nodes
      <4>5. GroupOK(started(s))
        BY <1>1, <1>4, <4>2, <4>4
      <4> HIDE DEF started, bootstrapping
      <4> QED BY <2>1, <3>2, <4>5
    <3> QED BY <3>1, <3>2
  <2> HIDE DEF started, bootstrapping
  <2>3. group' = [s \in ShardIDs |-> group'[s]]
    BY <2>1
  <2> QED BY <2>2, <2>3 DEF GroupsInv
<1>10. ASSUME NEW s \in ShardIDs, NEW l, Elect(s, l) PROVE GroupsInv'
  <2>1. l \in group[s].nodes /\ group' = [group EXCEPT ![s].leader = l]
    BY <1>10 DEF Elect, RunningNodes
  <2> QED BY <1>6, <2>1
<1>11. ASSUME NEW s \in ShardIDs, LeaderLost(s) PROVE GroupsInv'
  BY <1>6, <1>11 DEF LeaderLost
<1>12. ASSUME NEW w, AnswerHeartbeat(w) \/ IgnoreAnswer(w) \/ SyncEnds(w) \/ LoseAnswer(w) \/ WorkerRestarts(w)
       PROVE  UNCHANGED group
  BY <1>12, Zenon DEF AnswerHeartbeat, IgnoreAnswer, SyncEnds, LoseAnswer, WorkerRestarts
<1>13. ASSUME NEW p, NEW w, NEW ok, HandleHeartbeat(p, w, ok) PROVE UNCHANGED group
  BY <1>13 DEF HandleHeartbeat
<1> QED BY <1>2, <1>7, <1>8, <1>9, <1>10, <1>11, <1>12, <1>13
        DEF SyncNext, WorkerStep, ReplicaAdded, ReplicaRemoved, CatchUp

-------------------------------------------------------------------------------
(* The initial state.                                                      *)

LEMMA AdditionsFinite ==
    /\ \A s \in ShardIDs : Cardinality(Additions(s)) \in Nat
    /\ Cardinality(AllAdditions) \in Nat
<1>1. /\ InitialReplicas \in Seq(Seq(Workers)) /\ ShardIDs = 1..Len(InitialReplicas)
      /\ Len(InitialReplicas) \in Nat
  BY SyncAssumption DEF ShardIDs, Workers
<1>2. ASSUME NEW s \in ShardIDs PROVE Cardinality(Additions(s)) \in Nat
  <2>1. RF + 1 \in Int /\ Len(InitialReplicas[s]) \in Int
    BY <1>1, FSMAssumption
  <2>2. IsFiniteSet(Additions(s))
    BY <2>1, FS_Interval DEF Additions
  <2> QED BY <2>2, FS_CardinalityType
<1>3. IsFiniteSet(ShardIDs) /\ IsFiniteSet(1..MaxReplicationFactor)
  <2>1. IsFiniteSet(1..Len(InitialReplicas))
    BY <1>1, FS_Interval
  <2>2. IsFiniteSet(1..MaxReplicationFactor)
    BY FSMAssumption, FS_Interval
  <2> QED BY <1>1, <2>1, <2>2
<1>4. IsFiniteSet(ShardIDs \X (1..MaxReplicationFactor))
  BY <1>3, FS_Product
<1>5. AllAdditions \subseteq ShardIDs \X (1..MaxReplicationFactor)
  BY DEF AllAdditions
<1>6. IsFiniteSet(AllAdditions)
  BY <1>4, <1>5, FS_Subset
<1>7. Cardinality(AllAdditions) \in Nat
  BY <1>6, FS_CardinalityType
<1> QED BY <1>2, <1>7

LEMMA SyncInitInv == SyncInit => SyncInv
<1> SUFFICES ASSUME SyncInit PROVE SyncInv
  OBVIOUS
<1>1. /\ workers = InitialWorkers /\ fresh = Workers /\ nextWorkerID = Cardinality(Workers) + 1
      /\ nextShardID = Cardinality(ShardIDs) + 1 /\ assignmentsEpoch = 2 + Cardinality(AllAdditions)
  BY DEF SyncInit
<1>2. /\ InitialWorkers \in [Workers -> WorkerInfo] /\ Workers \subseteq Nat \ {0}
      /\ nextWorkerID \in Nat \ {0} /\ Workers \subseteq 1..(nextWorkerID - 1)
  <2> DEFINE n == Len(InitialWorkers)
  <2>1. n \in Nat /\ Workers = 1..n /\ InitialWorkers \in [1..n -> WorkerInfo]
    BY SyncAssumption DEF Workers
  <2> HIDE DEF n
  <2>2. Cardinality(1..n) = IF 1 > n THEN 0 ELSE n - 1 + 1
    BY <2>1, FS_Interval
  <2> QED BY <1>1, <2>1, <2>2
<1>3. nextShardID \in Nat \ {0} /\ ShardIDs \subseteq 1..(nextShardID - 1)
  <2> DEFINE n == Len(InitialReplicas)
  <2>1. n \in Nat /\ ShardIDs = 1..n
    BY SyncAssumption DEF ShardIDs
  <2> HIDE DEF n
  <2>2. Cardinality(1..n) = IF 1 > n THEN 0 ELSE n - 1 + 1
    BY <2>1, FS_Interval
  <2> QED BY <1>1, <2>1, <2>2
<1>4. ASSUME NEW s \in ShardIDs
      PROVE  /\ InitialReplicas[s] \in Seq(Nat) /\ Range(InitialReplicas[s]) \subseteq Workers
             /\ InitialReplicas[s][1] \in Range(InitialReplicas[s]) /\ InitialReplicas[s] # <<>>
             /\ IsInjective(InitialReplicas[s]) /\ Len(InitialReplicas[s]) \in 1..MaxReplicationFactor
  <2> DEFINE r == InitialReplicas[s]
  <2>1. /\ r \in Seq(Workers) /\ IsInjective(r) /\ Len(r) \in 1..MaxReplicationFactor
    BY SyncAssumption DEF ShardIDs, Workers
  <2> HIDE DEF r
  <2>2. Range(r) \subseteq Workers /\ 1 \in DOMAIN r
    BY <2>1, FSMAssumption DEF Range
  <2>3. r \in Seq(Nat) /\ r # <<>>
    BY <1>2, <2>1
  <2>4. r[1] \in Range(r)
    BY <2>2 DEF Range
  <2> QED BY <2>1, <2>2, <2>3, <2>4 DEF r
<1>5. PICK c \in Colls :
         shards = [s \in ShardIDs |->
                    IF Bootstrapped
                    THEN [NewShard(c, InitialReplicas[s]) EXCEPT
                            !.leader = InitialReplicas[s][1], !.bootstrapped = TRUE,
                            !.bootstrapMembers = <<>>, !.epoch = 1 + Cardinality(Additions(s))]
                    ELSE NewShard(c, InitialReplicas[s])]
  BY DEF SyncInit
<1>6. ASSUME NEW s \in ShardIDs
      PROVE  ShardOK(shards[s], Workers) /\ shards[s].replicas = InitialReplicas[s] /\ shards[s].epoch \in Nat
  <2> DEFINE r == InitialReplicas[s]
             l == r[1]
             k == 1 + Cardinality(Additions(s))
             sh == NewShard(c, r)
  <2>1. k \in Nat /\ l \in Nat /\ l # 0
    BY <1>2, <1>4, AdditionsFinite
  <2>2. /\ r \in Seq(Nat) /\ r # <<>> /\ Range(r) \subseteq Workers /\ IsInjective(r)
        /\ Len(r) \in 1..MaxReplicationFactor
    BY <1>4
  <2> HIDE DEF r, k, l
  <2>3. /\ sh \in ShardInfo /\ sh.replicas = r /\ sh.leader = 0 /\ sh.epoch = 1
        /\ sh.bootstrapped = FALSE /\ sh.bootstrapMembers = r
    BY <2>2 DEF NewShard, ShardInfo
  <2> HIDE DEF sh
  <2>4. CASE ~Bootstrapped
    <3>1. shards[s] = sh
      BY <1>5, <2>4 DEF sh, r
    <3> QED BY <2>2, <2>3, <3>1 DEF ShardOK, r
  <2>5. CASE Bootstrapped
    <3> DEFINE x == [[[[sh EXCEPT !.leader = l] EXCEPT !.bootstrapped = TRUE]
                        EXCEPT !.bootstrapMembers = <<>>] EXCEPT !.epoch = k]
    <3>1. shards[s] = x
      BY <1>5, <2>5 DEF sh, r, l, k
    <3>2. x \in ShardInfo
      <4>1. [sh EXCEPT !.leader = l] \in ShardInfo
        BY <2>1, <2>3 DEF ShardInfo
      <4>2. \A y \in ShardInfo : [y EXCEPT !.bootstrapped = TRUE] \in ShardInfo
        BY DEF ShardInfo
      <4>3. \A y \in ShardInfo, m \in Seq(Nat) : [y EXCEPT !.bootstrapMembers = m] \in ShardInfo
        BY DEF ShardInfo
      <4>4. \A y \in ShardInfo : [y EXCEPT !.epoch = k] \in ShardInfo
        BY <2>1 DEF ShardInfo
      <4>5. <<>> \in Seq(Nat)
        OBVIOUS
      <4> QED BY <4>1, <4>2, <4>3, <4>4, <4>5
    <3>3. x.replicas = r /\ x.leader = l /\ x.bootstrapped = TRUE /\ x.bootstrapMembers = <<>> /\ x.epoch = k
      BY <2>3 DEF ShardInfo
    <3> HIDE DEF x
    <3> QED BY <2>1, <2>2, <3>1, <3>2, <3>3 DEF ShardOK, r
  <2> QED BY <2>4, <2>5
<1>7. /\ DOMAIN shards = ShardIDs /\ shards = [s \in DOMAIN shards |-> shards[s]]
      /\ assignmentsEpoch \in Nat \ {0}
  <2> DEFINE f(s) == IF Bootstrapped
                     THEN [NewShard(c, InitialReplicas[s]) EXCEPT
                             !.leader = InitialReplicas[s][1], !.bootstrapped = TRUE,
                             !.bootstrapMembers = <<>>, !.epoch = 1 + Cardinality(Additions(s))]
                     ELSE NewShard(c, InitialReplicas[s])
  <2>1. shards = [s \in ShardIDs |-> f(s)]
    BY <1>5
  <2> HIDE DEF f
  <2>2. DOMAIN shards = ShardIDs /\ shards = [s \in DOMAIN shards |-> shards[s]]
    BY <2>1
  <2>3. assignmentsEpoch \in Nat \ {0}
    BY <1>1, AdditionsFinite
  <2> QED BY <2>2, <2>3
<1>8. ClusterInv
  <2>1. RegistryOK
    BY <1>1, <1>2 DEF RegistryOK, Workers
  <2>2. ShardsOK
    BY <1>1, <1>3, <1>6, <1>7 DEF ShardsOK, Workers
  <2> QED BY <1>1, <1>7, <2>1, <2>2, IInvParts DEF ClusterInv
<1>9. \A w : GetShardsOnWorker(w) \subseteq ShardIDs
  BY <1>7 DEF GetShardsOnWorker
<1>10. ViewsInv
  <2>1. ViewOK(Copy(shards), assignmentsEpoch, shards)
    BY <1>8, ClusterFacts, CopyOK
  <2>2. views = [p \in PDs |-> Copy(shards)]
    BY DEF SyncInit
  <2>3. views = [p \in PDs |-> views[p]] /\ \A p \in PDs : views[p] = Copy(shards)
    BY <2>2
  <2> QED BY <2>1, <2>3 DEF ViewsInv
<1>11. AnswersInv
  <2>1. heartbeat = [w \in Workers |-> NoHeartbeat] /\ syncing = [w \in Workers |-> <<>>]
    BY DEF SyncInit
  <2>2. \A w : AssignmentsOK(<<>>, w, shards)
    BY DEF AssignmentsOK
  <2>3. NoHeartbeat.assignments = <<>> /\ NoHeartbeat.epoch = 0 /\ NoHeartbeat.phase # "read"
    BY DEF NoHeartbeat
  <2>4. 0 \in 0..assignmentsEpoch
    BY <1>7
  <2>5. \A w : HeartbeatOK(NoHeartbeat, w, assignmentsEpoch, shards)
    BY <2>2, <2>3, <2>4, Zenon DEF HeartbeatOK
  <2> QED BY <2>1, <2>2, <2>5 DEF AnswersInv
<1>12. KnowledgeInv
  <2>1. /\ lastAssignmentsEpoch = [w \in Workers |-> IF Bootstrapped THEN assignmentsEpoch ELSE 0]
        /\ runningReplicas = [w \in Workers |-> IF Bootstrapped THEN GetShardsOnWorker(w) ELSE {}]
        /\ shardEpochs = [w \in Workers |-> [s \in ShardIDs |->
                            IF s \in runningReplicas[w] THEN shards[s].epoch ELSE 0]]
        /\ shardDirs = runningReplicas
    BY DEF SyncInit
  <2>2. /\ lastAssignmentsEpoch = [w \in Workers |-> lastAssignmentsEpoch[w]]
        /\ runningReplicas = [w \in Workers |-> runningReplicas[w]]
        /\ shardDirs = [w \in Workers |-> shardDirs[w]]
    BY <2>1
  <2>3. shardEpochs = [w \in Workers |-> shardEpochs[w]]
    BY <2>1
  <2>4. ASSUME NEW w \in Workers
        PROVE  KnowledgeOK(lastAssignmentsEpoch[w], runningReplicas[w], shardEpochs[w], shardDirs[w],
                           assignmentsEpoch, shards)
    <3>1. lastAssignmentsEpoch[w] \in 0..assignmentsEpoch
      BY <1>7, <2>1
    <3>2. runningReplicas[w] \subseteq shardDirs[w] /\ shardDirs[w] \subseteq ShardIDs
      BY <1>9, <2>1
    <3>3. shardEpochs[w] = [s \in ShardIDs |-> IF s \in runningReplicas[w] THEN shards[s].epoch ELSE 0]
      BY <2>1
    <3>4. shardEpochs[w] = [s \in ShardIDs |-> shardEpochs[w][s]]
      BY <3>3
    <3>5. \A s \in ShardIDs : shardEpochs[w][s] \in 0..shards[s].epoch
      BY <1>6, <3>3
    <3> QED BY <3>1, <3>2, <3>4, <3>5 DEF KnowledgeOK
  <2> QED BY <2>2, <2>3, <2>4 DEF KnowledgeInv
<1>13. GroupsInv
  <2>1. group = [s \in ShardIDs |->
                 [nodes |-> IF Bootstrapped THEN Range(InitialReplicas[s]) ELSE {},
                  leader |-> IF Bootstrapped THEN InitialReplicas[s][1] ELSE 0,
                  initialMembers |-> <<>>]]
    BY DEF SyncInit
  <2>2. ASSUME NEW s \in ShardIDs PROVE GroupOK(group[s])
    <3> DEFINE n == IF Bootstrapped THEN Range(InitialReplicas[s]) ELSE {}
               l == IF Bootstrapped THEN InitialReplicas[s][1] ELSE 0
    <3>1. n \subseteq Workers /\ l \in n \cup {0}
      BY <1>4
    <3>2. group[s] = [nodes |-> n, leader |-> l, initialMembers |-> <<>>]
      BY <2>1
    <3> HIDE DEF n, l
    <3> QED BY <3>1, <3>2 DEF GroupOK
  <2> QED BY <2>1, <2>2 DEF GroupsInv
<1> QED BY <1>8, <1>10, <1>11, <1>12, <1>13 DEF SyncInv

-------------------------------------------------------------------------------
(* The theorems.                                                           *)

LEMMA SyncInvariant == SyncSpec => []SyncInv
<1>1. SyncInv /\ SyncNext => SyncInv'
  BY StepFacts, ViewsKept, AnswersKept, KnowledgeKept, GroupsKept DEF SyncInv
<1>2. SyncInv /\ UNCHANGED allVars => SyncInv'
  <2> SUFFICES ASSUME SyncInv, UNCHANGED allVars PROVE SyncInv'
    OBVIOUS
  <2>1. /\ UNCHANGED vars /\ views' = views /\ heartbeat' = heartbeat /\ syncing' = syncing /\ group' = group
        /\ lastAssignmentsEpoch' = lastAssignmentsEpoch /\ runningReplicas' = runningReplicas
        /\ shardEpochs' = shardEpochs /\ shardDirs' = shardDirs
    BY DEF allVars, syncVars, workerVars
  <2>2. IInv'
    BY <2>1, NextPreserves DEF SyncInv, ClusterInv
  <2>3. ClusterInv'
    BY <2>1, <2>2 DEF SyncInv, ClusterInv, vars
  <2>4. ViewsInv' /\ AnswersInv'
    BY <2>1 DEF SyncInv, ViewsInv, AnswersInv, vars
  <2>5. KnowledgeInv'
    BY <2>1 DEF SyncInv, KnowledgeInv, vars
  <2>6. GroupsInv'
    BY <2>1 DEF SyncInv, GroupsInv
  <2> QED BY <2>3, <2>4, <2>5, <2>6 DEF SyncInv
<1> QED BY <1>1, <1>2, SyncInitInv, PTL DEF SyncSpec

\* The workers' state is well formed whatever is lost, late or restarted: what a worker
\* knows of epochs the placement driver has handed out, although copies of the state
\* machine lag and an answer pairs assignments and an epoch read at different times; and
\* reconcileMembership never takes the leader that runs it out of its group.
THEOREM SyncWellFormed == SyncSpec => []SyncTypeOK
<1>1. SyncInv => SyncTypeOK
  <2> SUFFICES ASSUME SyncInv PROVE SyncTypeOK
    OBVIOUS
  <2>1. \A w \in Workers :
          /\ runningReplicas[w] \subseteq shardDirs[w]
          /\ shardDirs[w] \subseteq ShardIDs
          /\ lastAssignmentsEpoch[w] \in 0..assignmentsEpoch
          /\ \A s \in ShardIDs : shardEpochs[w][s] \in 0..shards[s].epoch
    BY DEF SyncInv, KnowledgeInv, KnowledgeOK
  <2>2. \A s \in ShardIDs : group[s].leader \in group[s].nodes \cup {0}
    BY DEF SyncInv, GroupsInv, GroupOK
  <2> QED BY <2>1, <2>2 DEF SyncTypeOK
<1> QED BY <1>1, SyncInvariant, PTL

\* Leader reports that arrive in heartbeats, several shards at a time and from workers
\* whose view is old, leave the replica lists sound and never ask a running group to
\* bootstrap again.
THEOREM SyncKeepsLists == SyncSpec => [](ReplicaListsSound /\ BootstrapLatch)
<1>1. SyncInv => ReplicaListsSound /\ BootstrapLatch
  BY DEF SyncInv, ClusterInv, IInv
<1> QED BY <1>1, SyncInvariant, PTL

\* The promise of ReplicaSets holds while workers follow it: heartbeats, in which a worker
\* reports the leaders of several shards at once, answers, restarts, elections and
\* membership changes leave every replica set and both epochs alone.
THEOREM SyncKeepsPromise == SyncSpec => [][Promise!Next]_(Promise!vars)
<1>1. SyncInv /\ [SyncNext]_allVars => [Promise!Next]_(Promise!vars)
  <2> SUFFICES ASSUME SyncInv, [SyncNext]_allVars
               PROVE  [Promise!Next]_(Promise!vars)
    OBVIOUS
  <2>1. ClusterInv /\ IInv
    BY DEF SyncInv, ClusterInv
  <2>2. ASSUME UNCHANGED vars PROVE UNCHANGED Promise!vars
    BY <2>2 DEF vars, Promise!vars
  <2>3. ASSUME NEW s, NEW w, ReplicaAdded(s, w) PROVE [Promise!Next]_(Promise!vars)
    <3>1. AddShardReplica(s, w) /\ s \in DOMAIN shards /\ w \in DOMAIN workers
      BY <2>3 DEF ReplicaAdded, AddShardReplica, IsWorkerHealthy
    <3> QED BY <2>1, <3>1, ShardCommandsKeepPromise
  <2>4. ASSUME NEW s, NEW w, ReplicaRemoved(s, w) PROVE [Promise!Next]_(Promise!vars)
    <3>1. RemoveShardReplica(s, w) /\ s \in DOMAIN shards
      BY <2>4 DEF ReplicaRemoved, RemoveShardReplica
    <3>2. \E i \in 1..Len(shards[s].replicas) : shards[s].replicas[i] = w
      BY <3>1 DEF RemoveShardReplica
    <3>3. shards[s].replicas \in Seq(Nat) /\ Range(shards[s].replicas) \subseteq DOMAIN workers
      BY <2>1, <3>1, ClusterFacts DEF ShardsOK, ShardOK, ShardInfo
    <3>4. w \in DOMAIN workers
      BY <3>2, <3>3 DEF Range
    <3> QED BY <2>1, <3>1, <3>4, ShardCommandsKeepPromise
  <2>5. ASSUME NEW p, NEW w, NEW ok, HandleHeartbeat(p, w, ok) PROVE UNCHANGED Promise!vars
    <3> DEFINE G == [s \in DOMAIN shards |-> Group(shards[s])]
    <3>1. UNCHANGED <<workers, fresh, assignmentsEpoch, nextWorkerID, nextShardID>>
      BY <2>5 DEF HandleHeartbeat
    <3>2. CASE shards' = shards
      BY <2>2, <3>1, <3>2 DEF vars
    <3>3. CASE shards' = [s \in DOMAIN shards |->
                            IF s \in runningReplicas[w] /\ Holds(s, w)
                            THEN LeaderReported(shards[s], group[s].leader)
                            ELSE shards[s]]
      <4>1. \A s \in ShardIDs : group[s].leader \in Nat
        BY <2>1, ClusterFacts DEF SyncInv, GroupsInv, GroupOK
      <4>2. ASSUME NEW s \in DOMAIN shards
            PROVE  shards'[s].replicas = shards[s].replicas /\ shards'[s].epoch = shards[s].epoch
        <5>1. ShardOK(shards[s], Workers) /\ s \in ShardIDs
          BY <2>1, ClusterFacts
        <5>2. shards'[s] = LeaderReported(shards[s], group[s].leader) \/ shards'[s] = shards[s]
          BY <3>3
        <5> QED BY <4>1, <5>1, <5>2, LeaderReportedOK
      <4>3. DOMAIN shards' = DOMAIN shards
        BY <3>3
      <4>4. G' = G
        BY <4>2, <4>3 DEF Group
      <4> QED BY <3>1, <4>4 DEF Promise!vars
    <3> QED BY <2>5, <3>2, <3>3, Zenon DEF HandleHeartbeat
  <2>6. ASSUME NEW w, WorkerStep(w) \/ SyncEnds(w) \/ LoseAnswer(w) \/ WorkerRestarts(w)
        PROVE  UNCHANGED vars
    BY <2>6, Zenon DEF WorkerStep, AnswerHeartbeat, IgnoreAnswer, SyncShards, AddNode, DeleteNode,
                       SyncEnds, LoseAnswer, WorkerRestarts
  <2>7. ASSUME NEW p, CatchUp(p) PROVE UNCHANGED vars
    BY <2>7 DEF CatchUp
  <2>8. ASSUME NEW s, LeaderLost(s) \/ \E l \in Workers : Elect(s, l) PROVE UNCHANGED vars
    BY <2>8 DEF LeaderLost, Elect
  <2>9. UNCHANGED allVars => UNCHANGED vars
    BY DEF allVars
  <2> QED BY <2>2, <2>3, <2>4, <2>5, <2>6, <2>7, <2>8, <2>9 DEF SyncNext
<1> QED BY <1>1, SyncInvariant, PTL DEF SyncSpec

===============================================================================
