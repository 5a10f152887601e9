SPECIFICATION Spec
CONSTANTS
  p1 = p1  p2 = p2  d1 = d1  d2 = d2
  None = None
  Drills = {d1, d2}
  Procs = {p1, p2}
  Commands = {"run"}
  Budget <- OverlapFaults
SYMMETRY Symmetries
INVARIANTS
  ValidatedBoundary
  LostOnlyToRace
\* A drill at its cleanup gate has nothing left to run.
CHECK_DEADLOCK FALSE
