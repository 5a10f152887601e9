SPECIFICATION Spec
CONSTANTS
  o1 = o1  o2 = o2  o3 = o3  a = a  b = b  c = c  w1 = w1  w2 = w2  m1 = m1  m2 = m2
  None = None
  Orders = {o1, o2, o3}
  Items = {a, b, c}
  OrderOf <- MCOrderOf
  TypeOf <- MCTypeOf
  StationOf <- MCStationOf
  Request <- MCRequest
  Menu = {"CAPPUCCINO", "MUFFIN"}
  Workers = {w1}
  Prefetch = 1
  MaxConn = 1
  MaxEmit = 1
  Unsupported = {}
  Malformed = {m2}
  BoundAtStart = {}
  Budget <- PlaceFaults
INVARIANTS
  TypeOK
  UpdateFindsItsOrder
  AcceptedOrderPublished
  PublishedIsPrefix
  FulfilledTypeWasMade
\* A finite number of orders: once they are done the system rests.
CHECK_DEADLOCK FALSE
