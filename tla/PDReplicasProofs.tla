--------------------------- MODULE PDReplicasProofs ---------------------------
(***************************************************************************)
(* Copies of the placement driver's state machine agree on the registry of *)
(* workers, for logs of any length, any number of restarts and any number  *)
(* of workers, whatever they disagree on about the shards.                 *)
(*                                                                         *)
(* The proof exhibits a history: the registry after each log entry.  The   *)
(* leader's registry is its last element, the follower's the one at        *)
(* `applied', and every entry determines one element from the one before.  *)
(***************************************************************************)
EXTENDS PDReplicas, TLAPS

WorkerRecord == [addr : Addrs, state : {"joining", "ready", "draining"},
                 role : {"write", "search_only"}]

\* Entries about workers.
RegistryCommands == {"RegisterWorker", "UpdateWorkerHeartbeat", "UpdateWorkerState", "RemoveWorker"}

\* What log entry c makes of the workers w and the id counter n: v and m.
Registers(c, w, n, v, m) ==
    \/ /\ c.type = "RegisterWorker"
       /\ \E x \in DOMAIN w : w[x].addr = c.addr /\ v = [w EXCEPT ![x].role = c.role]
       /\ m = n
    \/ /\ c.type = "RegisterWorker" /\ \A x \in DOMAIN w : w[x].addr # c.addr
       /\ n <= MaxWorkerID
       /\ v = [x \in DOMAIN w \cup {n} |->
                  IF x = n THEN [addr |-> c.addr, state |-> "joining", role |-> c.role] ELSE w[x]]
       /\ m = n + 1
    \/ /\ c.type = "RegisterWorker" /\ \A x \in DOMAIN w : w[x].addr # c.addr
       /\ ~ (n <= MaxWorkerID)
       /\ v = w /\ m = n
    \/ /\ c.type = "UpdateWorkerHeartbeat" /\ c.worker \in DOMAIN w
       /\ v = [w EXCEPT ![c.worker].state = IF @ = "joining" THEN "ready" ELSE @]
       /\ m = n
    \/ /\ c.type = "UpdateWorkerState" /\ c.worker \in DOMAIN w
       /\ v = [w EXCEPT ![c.worker].state = "draining"]
       /\ m = n
    \/ /\ c.type \in {"UpdateWorkerHeartbeat", "UpdateWorkerState"} /\ c.worker \notin DOMAIN w
       /\ v = w /\ m = n
    \/ /\ c.type \notin RegistryCommands
       /\ v = w /\ m = n

\* The leader's copy does that with any command but RemoveWorker.
LEMMA LeaderRegisters ==
    ASSUME NEW c, c.type # "RemoveWorker",
           Leader!Update(c) \/ (Leader!Refused(c) /\ UNCHANGED lVars)
    PROVE  Registers(c, lWorkers, lNextWorkerID, lWorkers', lNextWorkerID')
<1>1. CASE Leader!Refused(c) /\ UNCHANGED lVars
  <2>1. CASE c.type = "RegisterWorker"
    BY <1>1, <2>1 DEF Leader!Refused, Registers, lVars
  <2>2. CASE c.type \in {"UpdateWorkerHeartbeat", "UpdateWorkerState"}
    BY <1>1, <2>2 DEF Leader!Refused, Registers, lVars
  <2>3. CASE c.type \notin RegistryCommands
    BY <1>1, <2>3 DEF Registers, lVars
  <2> QED
    BY <2>1, <2>2, <2>3 DEF RegistryCommands
<1>2. CASE c.type = "RegisterWorker" /\ Leader!Update(c)
  <2>1. CASE Leader!ReRegisterWorker(c.addr, c.role)
    BY <1>2, <2>1 DEF Leader!ReRegisterWorker, Registers
  <2>2. CASE Leader!RegisterNewWorker(c.addr, c.role)
    BY <1>2, <2>2 DEF Leader!RegisterNewWorker, Leader!Put, Registers
  <2> QED
    BY <1>2, <2>1, <2>2 DEF Leader!Update
<1>3. CASE c.type = "UpdateWorkerHeartbeat" /\ Leader!Update(c)
  BY <1>3 DEF Leader!Update, Leader!UpdateWorkerHeartbeat, Registers
<1>4. CASE c.type = "UpdateWorkerState" /\ Leader!Update(c)
  BY <1>4 DEF Leader!Update, Leader!UpdateWorkerState, Registers
<1>5. CASE c.type \notin RegistryCommands /\ Leader!Update(c)
  <2>1. lWorkers' = lWorkers /\ lNextWorkerID' = lNextWorkerID
    BY <1>5 DEF Leader!Update, RegistryCommands, Leader!CreateCollection, Leader!DeleteCollection,
       Leader!UpdateShardLeader, Leader!AddShardReplica, Leader!RemoveShardReplica,
       Leader!SetReplicas
  <2> QED
    BY <1>5, <2>1 DEF Registers
<1> QED
  BY <1>1, <1>2, <1>3, <1>4, <1>5 DEF RegistryCommands

\* So does the follower's.
LEMMA FollowerRegisters ==
    ASSUME NEW c, c.type # "RemoveWorker",
           Follower!Update(c) \/ (Follower!Refused(c) /\ UNCHANGED fVars)
    PROVE  Registers(c, fWorkers, fNextWorkerID, fWorkers', fNextWorkerID')
<1>1. CASE Follower!Refused(c) /\ UNCHANGED fVars
  <2>1. CASE c.type = "RegisterWorker"
    BY <1>1, <2>1 DEF Follower!Refused, Registers, fVars
  <2>2. CASE c.type \in {"UpdateWorkerHeartbeat", "UpdateWorkerState"}
    BY <1>1, <2>2 DEF Follower!Refused, Registers, fVars
  <2>3. CASE c.type \notin RegistryCommands
    BY <1>1, <2>3 DEF Registers, fVars
  <2> QED
    BY <2>1, <2>2, <2>3 DEF RegistryCommands
<1>2. CASE c.type = "RegisterWorker" /\ Follower!Update(c)
  <2>1. CASE Follower!ReRegisterWorker(c.addr, c.role)
    BY <1>2, <2>1 DEF Follower!ReRegisterWorker, Registers
  <2>2. CASE Follower!RegisterNewWorker(c.addr, c.role)
    BY <1>2, <2>2 DEF Follower!RegisterNewWorker, Follower!Put, Registers
  <2> QED
    BY <1>2, <2>1, <2>2 DEF Follower!Update
<1>3. CASE c.type = "UpdateWorkerHeartbeat" /\ Follower!Update(c)
  BY <1>3 DEF Follower!Update, Follower!UpdateWorkerHeartbeat, Registers
<1>4. CASE c.type = "UpdateWorkerState" /\ Follower!Update(c)
  BY <1>4 DEF Follower!Update, Follower!UpdateWorkerState, Registers
<1>5. CASE c.type \notin RegistryCommands /\ Follower!Update(c)
  <2>1. fWorkers' = fWorkers /\ fNextWorkerID' = fNextWorkerID
    BY <1>5 DEF Follower!Update, RegistryCommands, Follower!CreateCollection,
       Follower!DeleteCollection, Follower!UpdateShardLeader, Follower!AddShardReplica, Follower!RemoveShardReplica,
       Follower!SetReplicas
  <2> QED
    BY <1>5, <2>1 DEF Registers
<1> QED
  BY <1>1, <1>2, <1>3, <1>4, <1>5 DEF RegistryCommands

----------------------------------------------------------------------------
(* An entry determines the registry.                                       *)

\* Every worker has an address of its own.
Distinct(w) ==
    /\ w \in [DOMAIN w -> WorkerRecord]
    /\ \A x, y \in DOMAIN w : w[x].addr = w[y].addr => x = y

\* An entry that may be in the log: what Command says of one, for any state.
Entry(c) ==
    /\ c.type # "RemoveWorker"
    /\ c.type = "RegisterWorker" => c.addr \in Addrs /\ c.role \in {"write", "search_only"}

LEMMA RegistersDetermined ==
    ASSUME NEW c, NEW w, NEW n, Distinct(w),
           NEW v1, NEW m1, Registers(c, w, n, v1, m1),
           NEW v2, NEW m2, Registers(c, w, n, v2, m2)
    PROVE  v1 = v2 /\ m1 = m2
<1>1. CASE c.type = "RegisterWorker"
  <2>1. CASE \A x \in DOMAIN w : w[x].addr # c.addr
    BY <1>1, <2>1 DEF Registers, RegistryCommands
  <2>2. ASSUME NEW x \in DOMAIN w, w[x].addr = c.addr PROVE v1 = v2 /\ m1 = m2
    <3>1. \A y \in DOMAIN w : w[y].addr = c.addr => y = x
      BY <2>2 DEF Distinct
    <3>2. v1 = [w EXCEPT ![x].role = c.role] /\ m1 = n
      BY <1>1, <2>2, <3>1 DEF Registers, RegistryCommands
    <3>3. v2 = [w EXCEPT ![x].role = c.role] /\ m2 = n
      BY <1>1, <2>2, <3>1 DEF Registers, RegistryCommands
    <3> QED
      BY <3>2, <3>3
  <2> QED
    BY <2>1, <2>2
<1>2. CASE c.type # "RegisterWorker"
  BY <1>2 DEF Registers, RegistryCommands
<1> QED
  BY <1>1, <1>2

LEMMA RegistersKeepsDistinct ==
    ASSUME NEW c, Entry(c), NEW w, Distinct(w), NEW n, NEW v, NEW m, Registers(c, w, n, v, m)
    PROVE  Distinct(v)
<1>0. w \in [DOMAIN w -> WorkerRecord] /\ \A x \in DOMAIN w : w[x] \in WorkerRecord
  BY DEF Distinct
<1>1. ASSUME NEW x \in DOMAIN w, NEW r \in WorkerRecord, r.addr = w[x].addr, v = [w EXCEPT ![x] = r]
      PROVE  Distinct(v)
  <2>1. DOMAIN v = DOMAIN w /\ \A y \in DOMAIN w : v[y] \in WorkerRecord /\ v[y].addr = w[y].addr
    BY <1>0, <1>1
  <2>2. v \in [DOMAIN v -> WorkerRecord]
    BY <1>1, <2>1
  <2> QED
    BY <2>1, <2>2 DEF Distinct
<1>2. ASSUME NEW x \in DOMAIN w, c.role \in {"write", "search_only"},
             v = [w EXCEPT ![x].role = c.role]
      PROVE  Distinct(v)
  <2> DEFINE r == [w[x] EXCEPT !.role = c.role]
  <2>1. r \in WorkerRecord /\ r.addr = w[x].addr
    BY <1>0, <1>2 DEF WorkerRecord
  <2>2. v = [w EXCEPT ![x] = r]
    BY <1>2
  <2> HIDE DEF r
  <2> QED
    BY <1>1, <2>1, <2>2
<1>3. ASSUME NEW x \in DOMAIN w, NEW s \in {"joining", "ready", "draining"},
             v = [w EXCEPT ![x].state = s]
      PROVE  Distinct(v)
  <2> DEFINE r == [w[x] EXCEPT !.state = s]
  <2>1. r \in WorkerRecord /\ r.addr = w[x].addr
    BY <1>0, <1>3 DEF WorkerRecord
  <2>2. v = [w EXCEPT ![x] = r]
    BY <1>3
  <2> HIDE DEF r
  <2> QED
    BY <1>1, <2>1, <2>2
<1>4. ASSUME NEW r \in WorkerRecord, \A x \in DOMAIN w : w[x].addr # r.addr,
             v = [x \in DOMAIN w \cup {n} |-> IF x = n THEN r ELSE w[x]]
      PROVE  Distinct(v)
  BY <1>0, <1>4 DEF Distinct
<1>5. CASE v = w
  BY <1>5
<1>6. CASE c.type = "RegisterWorker"
  <2>1. c.addr \in Addrs /\ c.role \in {"write", "search_only"}
    BY <1>6 DEF Entry
  <2> DEFINE r == [addr |-> c.addr, state |-> "joining", role |-> c.role]
  <2>2. r \in WorkerRecord /\ r.addr = c.addr
    BY <2>1 DEF WorkerRecord
  <2>3. \/ \E x \in DOMAIN w : v = [w EXCEPT ![x].role = c.role]
        \/ /\ \A x \in DOMAIN w : w[x].addr # c.addr
           /\ v = [x \in DOMAIN w \cup {n} |-> IF x = n THEN r ELSE w[x]]
        \/ v = w
    BY <1>6 DEF Registers, RegistryCommands
  <2> HIDE DEF r
  <2> QED
    BY <1>2, <1>4, <1>5, <2>1, <2>2, <2>3
<1>7. CASE c.type = "UpdateWorkerHeartbeat" /\ c.worker \in DOMAIN w
  <2> DEFINE s == IF w[c.worker].state = "joining" THEN "ready" ELSE w[c.worker].state
  <2>1. s \in {"joining", "ready", "draining"}
    BY <1>0, <1>7 DEF WorkerRecord
  <2>2. v = [w EXCEPT ![c.worker].state = s]
    BY <1>7 DEF Registers, RegistryCommands
  <2> HIDE DEF s
  <2> QED
    BY <1>3, <1>7, <2>1, <2>2
<1>8. CASE c.type = "UpdateWorkerState" /\ c.worker \in DOMAIN w
  <2>1. v = [w EXCEPT ![c.worker].state = "draining"]
    BY <1>8 DEF Registers, RegistryCommands
  <2> QED
    BY <1>3, <1>8, <2>1
<1>9. CASE /\ c.type # "RegisterWorker"
           /\ ~ (c.type \in {"UpdateWorkerHeartbeat", "UpdateWorkerState"} /\ c.worker \in DOMAIN w)
  <2>1. v = w
    BY <1>9 DEF Registers
  <2> QED
    BY <1>5, <2>1
<1> QED
  BY <1>6, <1>7, <1>8, <1>9

----------------------------------------------------------------------------
(* The history.                                                            *)

\* w[k] and n[k] are the workers and the id counter after the first k entries.
History(w, n) ==
    /\ w[0] = <<>> /\ n[0] = 1
    /\ \A k \in 1..Len(log) : Registers(log[k], w[k - 1], n[k - 1], w[k], n[k])
    /\ \A k \in 0..Len(log) : Distinct(w[k])
    /\ w[Len(log)] = lWorkers /\ n[Len(log)] = lNextWorkerID
    /\ w[applied] = fWorkers /\ n[applied] = fNextWorkerID

LogInv ==
    /\ \E S : log \in Seq(S)
    /\ applied \in 0..Len(log)
    /\ \A k \in 1..Len(log) : Entry(log[k])

CopiesInv == LogInv /\ \E w, n : History(w, n)

LEMMA SeqGrows ==
    ASSUME NEW S, NEW T, S \subseteq T, NEW s \in Seq(S)
    PROVE  s \in Seq(T)
<1>1. Len(s) \in Nat /\ s \in [1..Len(s) -> S]
  OBVIOUS
<1>2. s \in [1..Len(s) -> T]
  BY <1>1
<1> QED
  BY <1>1, <1>2

LEMMA CopiesInit == PDInit => CopiesInv
<1> SUFFICES ASSUME PDInit PROVE CopiesInv
  OBVIOUS
<1>1. log = <<>> /\ applied = 0 /\ lWorkers = <<>> /\ lNextWorkerID = 1
      /\ fWorkers = <<>> /\ fNextWorkerID = 1
  BY DEF PDInit, Leader!Init, Follower!Init
<1>2. LogInv
  <2>1. log \in Seq({}) /\ Len(log) = 0
    BY <1>1
  <2> QED
    BY <1>1, <2>1 DEF LogInv
<1>3. Distinct(<<>>)
  BY DEF Distinct
<1> DEFINE w == [k \in {0} |-> <<>>]
           n == [k \in {0} |-> 1]
<1>4. w[0] = <<>> /\ n[0] = 1
  OBVIOUS
<1>5. Len(log) = 0
  BY <1>1
<1> HIDE DEF w, n
<1>6. History(w, n)
  BY <1>1, <1>3, <1>4, <1>5 DEF History
<1> QED
  BY <1>2, <1>6 DEF CopiesInv

\* Every command but RemoveWorker is an entry.
LEMMA CommandIsEntry ==
    ASSUME "RemoveWorker" \notin Kinds, NEW c \in Command
    PROVE  Entry(c)
<1>1. c.type \in Kinds
  BY DEF Command
<1>2. c.type = "RegisterWorker" => c \in [type : {"RegisterWorker"}, addr : Addrs, role : {"write"}]
  BY DEF Command
<1> QED
  BY <1>1, <1>2 DEF Entry

LEMMA LeaderKeepsCopies ==
    ASSUME "RemoveWorker" \notin Kinds, CopiesInv, NEW c \in Command, LeaderApplies(c)
    PROVE  CopiesInv'
<1>1. Entry(c)
  BY CommandIsEntry
<1>2. PICK S : log \in Seq(S)
  BY DEF CopiesInv, LogInv
<1> DEFINE L == Len(log)
<1>3. L \in Nat /\ applied \in 0..L /\ \A k \in 1..L : Entry(log[k])
  BY <1>2 DEF CopiesInv, LogInv
<1>4. log \in Seq(S \cup {c}) /\ c \in S \cup {c}
  BY <1>2, SeqGrows
<1>5. /\ log' \in Seq(S \cup {c}) /\ Len(log') = L + 1 /\ log'[L + 1] = c
      /\ \A k \in 1..L : log'[k] = log[k]
  BY <1>4 DEF LeaderApplies
<1>6. applied' = applied /\ fWorkers' = fWorkers /\ fNextWorkerID' = fNextWorkerID
  BY DEF LeaderApplies, fVars
<1>7. LogInv'
  BY <1>1, <1>3, <1>5, <1>6 DEF LogInv
<1>8. PICK w, n : History(w, n)
  BY DEF CopiesInv
<1>9. Registers(c, lWorkers, lNextWorkerID, lWorkers', lNextWorkerID')
  BY <1>1, LeaderRegisters DEF LeaderApplies, Entry
<1> DEFINE w2 == [k \in 0..(L + 1) |-> IF k = L + 1 THEN lWorkers' ELSE w[k]]
           n2 == [k \in 0..(L + 1) |-> IF k = L + 1 THEN lNextWorkerID' ELSE n[k]]
<1>10. /\ w2[L + 1] = lWorkers' /\ n2[L + 1] = lNextWorkerID'
       /\ \A k \in 0..L : w2[k] = w[k] /\ n2[k] = n[k]
  BY <1>3
<1> HIDE DEF w2, n2
<1>11. w[L] = lWorkers /\ n[L] = lNextWorkerID /\ Distinct(w[L])
  BY <1>3, <1>8 DEF History
<1>12. Distinct(w2[L + 1])
  BY <1>1, <1>9, <1>10, <1>11, RegistersKeepsDistinct
<1>13. \A k \in 0..(L + 1) : Distinct(w2[k])
  <2>1. \A k \in 0..L : Distinct(w2[k])
    BY <1>8, <1>10 DEF History
  <2> HIDE DEF L
  <2> QED
    BY <1>3, <1>12, <2>1
<1>14. ASSUME NEW k \in 1..(L + 1) PROVE Registers(log'[k], w2[k - 1], n2[k - 1], w2[k], n2[k])
  <2>1. CASE k = L + 1
    <3>1. k - 1 = L /\ L \in 0..L
      BY <1>3, <2>1
    <3>2. w2[k - 1] = lWorkers /\ n2[k - 1] = lNextWorkerID
      BY <1>10, <1>11, <3>1
    <3> QED
      BY <1>5, <1>9, <1>10, <2>1, <3>2
  <2>2. CASE k # L + 1
    <3>1. k \in 1..L /\ k \in 0..L /\ k - 1 \in 0..L
      BY <1>3, <2>2
    <3>2. Registers(log[k], w[k - 1], n[k - 1], w[k], n[k])
      BY <1>8, <3>1 DEF History
    <3> QED
      BY <1>5, <1>10, <3>1, <3>2
  <2> QED
    BY <2>1, <2>2
<1>15. w2[0] = <<>> /\ n2[0] = 1
  BY <1>3, <1>8, <1>10 DEF History
<1>16. w2[applied'] = fWorkers' /\ n2[applied'] = fNextWorkerID'
  BY <1>3, <1>6, <1>8, <1>10 DEF History
<1>17. PICK x, y : x = w2 /\ y = n2
  OBVIOUS
<1>18. History(x, y)'
  BY <1>5, <1>10, <1>13, <1>14, <1>15, <1>16, <1>17 DEF History
<1> QED
  BY <1>7, <1>18 DEF CopiesInv

LEMMA FollowerKeepsCopies ==
    ASSUME CopiesInv, FollowerApplies
    PROVE  CopiesInv'
<1> DEFINE L == Len(log)
           c == log[applied + 1]
<1>1. PICK w, n : History(w, n)
  BY DEF CopiesInv
<1>2. L \in Nat /\ applied \in 0..L /\ \A k \in 1..L : Entry(log[k])
  BY DEF CopiesInv, LogInv
<1>3. /\ applied < L /\ applied' = applied + 1 /\ log' = log
      /\ lWorkers' = lWorkers /\ lNextWorkerID' = lNextWorkerID
  BY DEF FollowerApplies, lVars
<1>4. applied + 1 \in 1..L /\ applied + 1 \in 0..L /\ (applied + 1) - 1 = applied
  BY <1>2, <1>3
<1>5. Entry(c)
  BY <1>2, <1>4
<1>6. Registers(c, fWorkers, fNextWorkerID, fWorkers', fNextWorkerID')
  BY <1>5, FollowerRegisters DEF FollowerApplies, Entry
<1>7. Registers(c, fWorkers, fNextWorkerID, w[applied + 1], n[applied + 1])
  <2>1. Registers(c, w[(applied + 1) - 1], n[(applied + 1) - 1], w[applied + 1], n[applied + 1])
    BY <1>1, <1>4 DEF History
  <2> QED
    BY <1>1, <1>4, <2>1 DEF History
<1>8. Distinct(fWorkers)
  BY <1>1, <1>2 DEF History
<1>9. fWorkers' = w[applied + 1] /\ fNextWorkerID' = n[applied + 1]
  <2> HIDE DEF c
  <2> QED
    BY <1>6, <1>7, <1>8, RegistersDetermined
<1>10. History(w, n)'
  BY <1>1, <1>3, <1>9 DEF History
<1>11. LogInv'
  BY <1>3, <1>4 DEF CopiesInv, LogInv
<1> QED
  BY <1>10, <1>11 DEF CopiesInv

LEMMA CopiesStep ==
    ASSUME "RemoveWorker" \notin Kinds, CopiesInv, [PDNext]_pdVars
    PROVE  CopiesInv'
<1>1. ASSUME NEW c \in Command, LeaderApplies(c) PROVE CopiesInv'
  BY <1>1, LeaderKeepsCopies
<1>2. CASE FollowerApplies
  BY <1>2, FollowerKeepsCopies
<1>3. CASE FollowerRestarts
  <2>1. /\ log' = log /\ lWorkers' = lWorkers /\ lNextWorkerID' = lNextWorkerID
        /\ applied' = 0 /\ fWorkers' = <<>> /\ fNextWorkerID' = 1
    BY <1>3 DEF FollowerRestarts, lVars
  <2>2. LogInv'
    BY <2>1 DEF CopiesInv, LogInv
  <2>3. PICK w, n : History(w, n)
    BY DEF CopiesInv
  <2>4. History(w, n)'
    BY <2>1, <2>3 DEF History
  <2> QED
    BY <2>2, <2>4 DEF CopiesInv
<1>4. ASSUME /\ log' = log /\ applied' = applied
             /\ lWorkers' = lWorkers /\ lNextWorkerID' = lNextWorkerID
             /\ fWorkers' = fWorkers /\ fNextWorkerID' = fNextWorkerID
      PROVE  CopiesInv'
  <2>1. LogInv'
    BY <1>4 DEF CopiesInv, LogInv
  <2>2. PICK w, n : History(w, n)
    BY DEF CopiesInv
  <2>3. History(w, n)'
    BY <1>4, <2>2 DEF History
  <2> QED
    BY <2>1, <2>3 DEF CopiesInv
<1>5. CASE TimePasses
  BY <1>4, <1>5 DEF TimePasses, Leader!HeartbeatExpires, Follower!HeartbeatExpires, lVars, fVars
<1>6. CASE UNCHANGED pdVars
  BY <1>4, <1>6 DEF pdVars, lVars, fVars
<1> QED
  BY <1>1, <1>2, <1>3, <1>5, <1>6 DEF PDNext

\* Copies that have applied the same log have the same registry: the workers' ids,
\* addresses, roles and states (applyRegisterWorker, applyUpdateWorkerHeartbeat and
\* applyUpdateWorkerState), for any log and any restarts, although the copies may place
\* the shards differently.  RemoveWorker is left out: applyRemoveWorker refuses by the
\* shards that the copy lists on the worker, so there the registry is only as much a
\* function of the log as the shards are.
THEOREM RegistriesAgree ==
    ASSUME "RemoveWorker" \notin Kinds
    PROVE  PDSpec => []RegistryAgrees
<1>1. CopiesInv => RegistryAgrees
  BY DEF CopiesInv, History, RegistryAgrees, CaughtUp
<1> QED
  BY <1>1, CopiesInit, CopiesStep, PTL DEF PDSpec
===============================================================================
