SPECIFICATION FairSpec
CONSTANTS
  p1 = p1  p2 = p2  d1 = d1  d2 = d2
  None = None
  Drills = {d1}
  Procs = {p1}
  Commands = {"run", "cleanup"}
  Budget <- Troubled
INVARIANTS
  RestoreBoundary
  TargetIsRecorded
  CleanedLeavesNoMarker
PROPERTIES
  CleanupCompletes
\* A cleaned drill has nothing left to do.
CHECK_DEADLOCK FALSE
