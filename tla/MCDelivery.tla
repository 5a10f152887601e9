----------------------------- MODULE MCDelivery -----------------------------
(* A small instance of Delivery for TLC.                                   *)
EXTENDS Delivery

Disturbed == [f \in FaultKinds |-> IF f \in {"expire", "hotfix"} THEN 2 ELSE 1]
=============================================================================
