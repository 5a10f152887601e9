SPECIFICATION FairSpec
CONSTANTS
  d = d  x = x  y = y  u1 = u1  u2 = u2
  None = None
  Resources = {d, x, y}
  Candidates = {d, x}
  Targets = {d, y}
  High = {x}
  OwnerRef <- MCOwnerRef
  Unregistered = {y}
  UIDs = {u1, u2}
  Order <- MCOrder
  MaxFindings = 3
  MaxFaults = 2
  Budget <- Troubled
INVARIANTS
  ConfirmedWasReal
  DetectedOnce
PROPERTIES
  StatusFirst
  RecoveryIsReal
  Converges
