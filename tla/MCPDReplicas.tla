----------------------------- MODULE MCPDReplicas -----------------------------
(* PDReplicas for TLC: two workers in one rack.                            *)
EXTENDS PDReplicas

CONSTANTS a1, a2, z1, r1

MCFailureDomain == [a \in {a1, a2} |-> <<z1, r1>>]
===============================================================================
