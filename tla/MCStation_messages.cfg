SPECIFICATION FairSpec
CONSTANTS
  a = a  w1 = w1  w2 = w2  m1 = m1  m2 = m2  m3 = m3  m4 = m4
  Zero = Zero
  None = None
  Items = {a}
  Malformed = {m1, m3}
  Unsupported = {m2, m4}
  Workers = {w1, w2}
  Prefetch = 2
  MaxConn = 2
  MaxEmit = 3
  Addressed = TRUE
  BoundAtStart = FALSE
  Budget <- OneOfEach
  MaxFaults = 1
INVARIANTS
  TypeOK
  CommittedWasAnnounced
  DroppedOnlyAfterFailure
PROPERTIES
  NoAnnouncementAfterCommit
  EveryItemSettles
\* A finite number of messages: once they are settled the station rests.
CHECK_DEADLOCK FALSE
