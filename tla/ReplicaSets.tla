----------------------------- MODULE ReplicaSets -----------------------------
(***************************************************************************)
(* What the placement driver promises about replica sets, to the workers   *)
(* that follow them and to the loops that change them, whoever proposes a  *)
(* change and in whatever order the proposals are applied.  There are no   *)
(* lists, leaders, heartbeats, collections or failure domains here: only   *)
(* which workers exist, which of them are on their way out, which workers  *)
(* hold which shard, and the numbers by which a reader tells an older      *)
(* answer from a newer one.                                                *)
(***************************************************************************)
EXTENDS Naturals, FiniteSets

CONSTANTS
    WorkerIDs,
    ShardIDs,
    RF,           \* no removal leaves a shard with fewer members
    Limit         \* no shard has more members

VARIABLES
    registered,   \* the workers that exist
    draining,     \* those of them that must not be given another shard
    usedWorkers,  \* the worker ids that were ever given out
    usedShards,   \* the shard ids that were ever given out
    groups,       \* shard -> its members, and the number of times they changed
    version       \* the number of times any of the groups changed

vars == <<registered, draining, usedWorkers, usedShards, groups, version>>

Init ==
    /\ registered = {} /\ draining = {}
    /\ usedWorkers = {} /\ usedShards = {}
    /\ groups = <<>>
    /\ version = 1

\* A worker comes with an id that no worker ever had.
Register(w) ==
    /\ w \notin usedWorkers
    /\ registered' = registered \cup {w}
    /\ usedWorkers' = usedWorkers \cup {w}
    /\ UNCHANGED <<draining, usedShards, groups, version>>

\* A worker is on its way out, for good.
Drain(w) ==
    /\ draining' = draining \cup {w}
    /\ UNCHANGED <<registered, usedWorkers, usedShards, groups, version>>

\* A worker goes when no shard needs it.
Forget(w) ==
    /\ \A s \in DOMAIN groups : w \notin groups[s].members
    /\ registered' = registered \ {w}
    /\ draining' = draining \ {w}
    /\ UNCHANGED <<usedWorkers, usedShards, groups, version>>

\* New shards, under ids that no shard ever had, all on the same workers.
Place(S, M) ==
    /\ S # {} /\ S \cap usedShards = {}
    /\ M \cap draining = {} /\ Cardinality(M) \in 1..RF
    /\ groups' = [s \in DOMAIN groups \cup S |->
                     IF s \in S THEN [members |-> M, epoch |-> 1] ELSE groups[s]]
    /\ usedShards' = usedShards \cup S
    /\ version' = version + 1
    /\ UNCHANGED <<registered, draining, usedWorkers>>

\* Shards are given up.
Withdraw(S) ==
    /\ S # {}
    /\ groups' = [s \in DOMAIN groups \ S |-> groups[s]]
    /\ version' = version + 1
    /\ UNCHANGED <<registered, draining, usedWorkers, usedShards>>

\* The members of one shard change: its own number and the common one both rise.
Change(s, M) ==
    /\ groups' = [groups EXCEPT ![s] = [members |-> M, epoch |-> @.epoch + 1]]
    /\ version' = version + 1
    /\ UNCHANGED <<registered, draining, usedWorkers, usedShards>>

\* One worker more, never one that is on its way out.
Join(s, w) ==
    /\ w \notin draining \cup groups[s].members
    /\ Cardinality(groups[s].members) < Limit
    /\ Change(s, groups[s].members \cup {w})

\* One worker less, while there are more than RF.
Leave(s, w) ==
    /\ w \in groups[s].members
    /\ Cardinality(groups[s].members) > RF
    /\ Change(s, groups[s].members \ {w})

Next ==
    \/ \E w \in WorkerIDs : Register(w)
    \/ \E w \in registered : Drain(w) \/ Forget(w)
    \/ \E S \in SUBSET ShardIDs, M \in SUBSET registered : Place(S, M)
    \/ \E S \in SUBSET DOMAIN groups : Withdraw(S)
    \/ \E s \in DOMAIN groups, w \in registered : Join(s, w) \/ Leave(s, w)

Spec == Init /\ [][Next]_vars
=============================================================================
