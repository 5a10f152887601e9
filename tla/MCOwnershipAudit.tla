-------------------------- MODULE MCOwnershipAudit --------------------------
(* Small instances of OwnershipAudit for TLC.                              *)
EXTENDS OwnershipAudit, TLC

CONSTANTS d, x, y, u1, u2

MCOwnerRef == (d :> u1) @@ (y :> u1)
MCOrder    == (d :> 1) @@ (x :> 2) @@ (y :> 3)

Troubled ==
    [f \in FaultKinds |-> IF f = "change" THEN 2 ELSE 1]
=============================================================================
