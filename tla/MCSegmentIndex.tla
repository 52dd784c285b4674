---------------------------- MODULE MCSegmentIndex ----------------------------
(* A shard of a few documents for SegmentIndex.                            *)
EXTENDS SegmentIndex

CONSTANTS d1, d2

Store(ids) == [type |-> "store", ids |-> ids]
Delete(d) == [type |-> "delete", ids |-> {d}]

\* A single write, a batch that overlaps with it, and a deletion.
MixedCommands == {Store({d1}), Store({d1, d2}), Delete(d1)}
===============================================================================
