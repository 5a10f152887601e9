--------------------------- MODULE MCRestoreDrill ---------------------------
(* Small instances of RestoreDrill for TLC.                                *)
EXTENDS RestoreDrill, TLC

CONSTANTS p1, p2, d1, d2

\* One operator: every kind of fault, once, and two crashes.
Troubled == [f \in FaultKinds |-> IF f = "crash" THEN 2 ELSE 1]

\* Two invocations on one state file.
OverlapFaults == [f \in FaultKinds |-> IF f \in {"crash", "aws", "job", "timeout"} THEN 1 ELSE 0]

Symmetries == Permutations(Procs) \cup Permutations(Drills)
=============================================================================
