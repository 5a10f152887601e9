----------------------------- MODULE MCStation -----------------------------
(* A small instance of Station for TLC.                                    *)
EXTENDS Station, TLC

CONSTANTS a, w1, w2, m1, m2, m3, m4

\* One fault of every kind.
OneOfEach == [f \in FaultKinds |-> 1]
=============================================================================
