---------------------------- MODULE MCPlacementFSM ----------------------------
(* The state machine for TLC: three addresses, two of them in the same rack.   *)
EXTENDS PlacementRefinement

CONSTANTS a1, a2, a3, z1, z2, r1

MCFailureDomain == [a \in Addrs |-> IF a = a3 THEN <<z2, r1>> ELSE <<z1, r1>>]

\* The two addresses of the one rack are interchangeable.
SameRack == Permutations({a1, a2})
=============================================================================
