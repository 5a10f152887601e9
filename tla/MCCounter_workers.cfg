SPECIFICATION FairSpec
CONSTANTS
  o1 = o1  o2 = o2  o3 = o3  a = a  b = b  c = c  w1 = w1  w2 = w2  m1 = m1  m2 = m2
  None = None
  Orders = {o1}
  Items = {a, b}
  OrderOf <- PairOrderOf
  TypeOf <- PairTypeOf
  StationOf <- PairStationOf
  Request <- PairRequest
  Menu = {"CAPPUCCINO", "MUFFIN"}
  Workers = {w1, w2}
  Prefetch = 2
  MaxConn = 1
  MaxEmit = 1
  Unsupported = {m1, m2}
  Malformed = {}
  BoundAtStart = {"barista", "kitchen"}
  Budget <- CrashClose
INVARIANTS
  RowsAgree
PROPERTIES
  RegressionNeedsOverlap
  EveryUpdateSettles
  FulfilledUnlessOverlap
\* A finite number of orders: once they are done the system rests.
CHECK_DEADLOCK FALSE
