SPECIFICATION FairSpec
CONSTANTS
  MaxCommits = 2
  Hotfixes = {11}
  MaxBuilds = 2
  Troubled = {1, 11}
  MaxFaults = 2
  Budget <- Disturbed
CHECK_DEADLOCK FALSE
INVARIANTS
  OneArtifact
  ProdWasTested
  DesiredCanBePulled
PROPERTIES
  EveryChangeSettles
