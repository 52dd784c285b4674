------------------------------ MODULE MCShardSync ------------------------------
(* Small clusters for ShardSync.                                           *)
EXTENDS ShardSync

CONSTANTS a1, a2, a3, z1, r1, p1, p2

MCFailureDomain == [a \in {a1, a2, a3} |-> <<z1, r1>>]

Writer(a) == [addr |-> a, state |-> "ready", role |-> "write"]

TwoWriters == <<Writer(a1), Writer(a2)>>
ThreeWriters == <<Writer(a1), Writer(a2), Writer(a3)>>

OneShardOnTwo == <<<<1, 2>>>>
OneShardOnOne == <<<<1>>>>
\* Shard 2 stays where it is: every worker always has some assignment.
OnOneSecondEverywhere == <<<<1>>, <<1, 2>>>>
===============================================================================
