SPECIFICATION FairSpec
CONSTANTS
  SLOEnabled = TRUE
  MaxTrouble = 3
  MaxOthers = 2
INVARIANTS
  ClusterGoesLast
  CredentialsAgree
  ReportIsTrue
PROPERTIES
  SetupRecovers
