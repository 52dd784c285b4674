--------------------------- MODULE MCReconciliation ---------------------------
(* Small clusters for the control loops of Reconciliation.                 *)
EXTENDS Reconciliation

CONSTANTS a1, a2, a3, z1, r1, p1

MCFailureDomain == [a \in {a1, a2, a3} |-> <<z1, r1>>]

RegisteredWorker(a, role) == [addr |-> a, state |-> "ready", role |-> role]

ThreeWriters == <<RegisteredWorker(a1, "write"), RegisteredWorker(a2, "write"), RegisteredWorker(a3, "write")>>
OnOne == <<1>>
OnTwo == <<1, 2>>
===============================================================================
