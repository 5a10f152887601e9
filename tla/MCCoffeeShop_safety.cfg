SPECIFICATION FairSpec
CONSTANTS
  o1 = o1  a = a  b = b  w1 = w1  w2 = w2  v1 = v1
  Zero = Zero
  None = None
  Orders = {o1}
  Items = {a, b}
  OrderOf <- PairOrderOf
  TypeOf <- PairTypeOf
  StationOf <- PairStationOf
  Request <- PairRequest
  Menu = {"CAPPUCCINO", "MUFFIN"}
  StationWorkers = {v1}
  Prefetch = 2
  CounterWorkers = {w1, w2}
  MaxConn = 6
  MaxEmit = 2
  StationPub <- BaristaRepaired
  CounterBudget <- CounterFaulty
  BaristaBudget <- StationFaulty
  KitchenBudget <- StationQuiet
INVARIANTS
  FulfilledHasStationRow
PROPERTIES
  CounterSpec
  AcceptedItemsEnd
\* One order: once it is done the services rest.
CHECK_DEADLOCK FALSE
