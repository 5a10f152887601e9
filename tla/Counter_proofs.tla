--------------------------- MODULE Counter_proofs ---------------------------
(***************************************************************************)
(* Proofs about the counter service, for every set of orders, items,       *)
(* workers and every bound.                                                *)
(***************************************************************************)
EXTENDS Counter, TLAPS, SequenceTheorems

-----------------------------------------------------------------------------
(* Facts about the constants.                                              *)

\* A line item's position in its order leads back to a line item of that
\* order: CreateOrderFrom puts nothing else into order.LineItems.
LEMMA LineItemsType ==
    ASSUME NEW o \in Orders
    PROVE  /\ Len(LineItems(o)) \in Nat
           /\ \A n \in Positions(o) : LineItems(o)[n] \in Lines(o)
  <1>1. Request[o].barista \in Seq(Lines(o))
    <2>1. Request[o].barista \in Seq({i \in Lines(o) : StationOf[i] = "barista"})
      BY OrderAssumption
    <2> QED BY <2>1, SeqMonotonic
  <1>2. Request[o].kitchen \in Seq(Lines(o))
    <2>1. Request[o].kitchen \in Seq({i \in Lines(o) : StationOf[i] = "kitchen"})
      BY OrderAssumption
    <2> QED BY <2>1, SeqMonotonic
  <1>3. LineItems(o) \in Seq(Lines(o))
    BY <1>1, <1>2, ConcatProperties DEF LineItems
  <1> QED
    BY <1>3, LenProperties, ElementOfSeq DEF Positions

\* Every line item of an order has one position.
LEMMA LinesCovered ==
    ASSUME NEW o \in Orders
    PROVE  /\ \A i \in Lines(o) : \E n \in Positions(o) : LineItems(o)[n] = i
           /\ \A m, n \in Positions(o) : LineItems(o)[m] = LineItems(o)[n] => m = n
  BY OrderAssumption

\* An item belongs to exactly one order.
LEMMA LinesFacts ==
    /\ \A o \in Orders : Lines(o) \subseteq Items
    /\ \A i \in Items : OrderOf[i] \in Orders /\ i \in Lines(OrderOf[i])
    /\ \A o \in Orders : \A i \in Lines(o) : OrderOf[i] = o
    /\ \A i \in Items : StationOf[i] \in Stations
  BY OrderAssumption DEF Lines

\* A message is about one item, and never None.
LEMMA MsgFacts ==
    /\ \A m \in Updates : m[1] \in Items /\ m \in Msgs
    /\ None \notin Msgs /\ None \notin Status
    /\ Updates \cap Foreign = {} /\ Foreign \subseteq Msgs
    /\ Unsupported \subseteq Foreign /\ Malformed \subseteq Foreign
  BY MessageAssumption DEF Updates, Msgs, Foreign

LEMMA FaultType ==
    ASSUME NEW f \in FaultKinds, faults \in [FaultKinds -> Nat], Fault(f)
    PROVE  faults' \in [FaultKinds -> Nat]
  BY DEF Fault

LEMMA FaultKindsFacts ==
    /\ "product" \in FaultKinds /\ "db" \in FaultKinds /\ "publish" \in FaultKinds
    /\ "crash" \in FaultKinds /\ "channel" \in FaultKinds
  BY DEF FaultKinds

-----------------------------------------------------------------------------
(* Type correctness.                                                       *)

\* The item a publish round is about is a line item of the order.
LEMMA NextItem ==
    ASSUME TypeOK, NEW o \in Orders, next[o] <= Len(LineItems(o))
    PROVE  next[o] \in Positions(o) /\ LineItems(o)[next[o]] \in Lines(o)
  BY LineItemsType DEF TypeOK, Positions

\* The inductive strengthening: a loaded copy is an order with all its line
\* items, and an order's rows come and go together.
CopyTyped ==
    \A w \in Workers : wpc[w] = "loaded" =>
        /\ wmsg[w] \in Updates
        /\ wcopy[w] \in [order : Status, items : [Lines(OrderOf[wmsg[w][1]]) -> Status]]

RowsTogether == \A i \in Items : itemRow[i] = None <=> orderRow[OrderOf[i]] = None

StuckEmitted == stuck \subseteq emitted

TypeInv == TypeOK /\ CopyTyped /\ RowsTogether /\ StuckEmitted

LEMMA TypePlaceStep ==
    ASSUME TypeInv, NEW o \in Orders, PlaceStep(o)
    PROVE  TypeInv'
  <1>a. TypeOK BY DEF TypeInv
  <1>b. CopyTyped'
    BY DEF TypeInv, CopyTyped, PlaceStep, PlaceOrder, Lookup, LookupFails, CreateOrder,
           CreateRefused, CreateFails, Publish, PublishRefused, PublishFails, Reply, workerVars
  <1>c. RowsTogether'
    <2>1. CASE InsertRows(o)
      BY <2>1, <1>a, LinesFacts, MsgFacts DEF TypeInv, RowsTogether, InsertRows, TypeOK, Status
    <2>2. CASE UNCHANGED rowVars
      BY <2>2 DEF TypeInv, RowsTogether, rowVars
    <2> QED
      BY <2>1, <2>2 DEF PlaceStep, PlaceOrder, Lookup, LookupFails, CreateOrder,
           CreateRefused, CreateFails, Publish, PublishRefused, PublishFails, Reply, rowVars
  <1>d. StuckEmitted'
    BY DEF TypeInv, StuckEmitted, PlaceStep, PlaceOrder, Lookup, LookupFails, CreateOrder,
           CreateRefused, CreateFails, Publish, PublishRefused, PublishFails, Reply,
           queueVars, brokerVars
  <1> SUFFICES TypeOK' BY <1>b, <1>c, <1>d DEF TypeInv
  <1> USE <1>a, LineItemsType, LinesFacts, BoundAssumption, FaultKindsFacts
      DEF TypeOK, placeVars, rowVars, brokerVars, queueVars, workerVars
  <1>1. CASE PlaceOrder(o) BY <1>1 DEF PlaceOrder
  <1>2. CASE Lookup(o) BY <1>2 DEF Lookup
  <1>3. CASE LookupFails(o)
    <2>1. faults' \in [FaultKinds -> Nat] BY <1>3, FaultType DEF LookupFails
    <2> QED BY <1>3, <2>1 DEF LookupFails
  <1>4. CASE CreateOrder(o)
    <2>1. /\ orderRow' \in [Orders -> Status \cup {None}]
          /\ itemRow' \in [Items -> Status \cup {None}]
      BY <1>4 DEF CreateOrder, InsertRows, Status
    <2> QED BY <1>4, <2>1 DEF CreateOrder
  <1>5. CASE CreateRefused(o) BY <1>5 DEF CreateRefused
  <1>6. CASE CreateFails(o)
    <2>1. faults' \in [FaultKinds -> Nat] BY <1>6, FaultType DEF CreateFails
    <2>2. openTx' \in 0 .. MaxConn BY <1>6 DEF CreateFails
    <2>3. /\ orderRow' \in [Orders -> Status \cup {None}]
          /\ itemRow' \in [Items -> Status \cup {None}]
      BY <1>6 DEF CreateFails, InsertRows, Status
    <2> QED BY <1>6, <2>1, <2>2, <2>3 DEF CreateFails
  <1>7. CASE Publish(o)
    <2>1. LineItems(o)[next[o]] \in Items BY <1>7, NextItem DEF Publish
    <2>2. sent' \subseteq Items /\ dropped' \subseteq Items
      BY <1>7, <2>1 DEF Publish, Accept
    <2>3. next[o] + 1 \in Nat \ {0} OBVIOUS
    <2>4. next' \in [Orders -> Nat \ {0}] BY <1>7, <2>3 DEF Publish
    <2> QED BY <1>7, <2>2, <2>4 DEF Publish
  <1>8. CASE PublishRefused(o) BY <1>8 DEF PublishRefused
  <1>9. CASE PublishFails(o)
    <2>1. LineItems(o)[next[o]] \in Items BY <1>9, NextItem DEF PublishFails
    <2>2. sent' \subseteq Items /\ dropped' \subseteq Items
      BY <1>9, <2>1 DEF PublishFails, Accept
    <2>3. faults' \in [FaultKinds -> Nat] BY <1>9, FaultType DEF PublishFails
    <2> QED BY <1>9, <2>2, <2>3 DEF PublishFails
  <1>10. CASE Reply(o) BY <1>10 DEF Reply
  <1> QED
    BY <1>1, <1>2, <1>3, <1>4, <1>5, <1>6, <1>7, <1>8, <1>9, <1>10 DEF PlaceStep

\* Order.Apply yields an order with the same line items.
LEMMA ApplyType ==
    ASSUME NEW o \in Orders, NEW copy \in [order : Status, items : [Lines(o) -> Status]],
           NEW j \in Lines(o)
    PROVE  /\ Apply(copy, j) \in [order : Status, items : [Lines(o) -> Status]]
           /\ Apply(copy, j).items = [copy.items EXCEPT ![j] = "Fulfilled"]
           /\ Apply(copy, j).order = "Fulfilled" \/ Apply(copy, j).order = copy.order
  BY DEF Apply, Status

\* What the Update of a loaded worker writes.
LEMMA WriteFacts ==
    ASSUME TypeInv, NEW w \in Workers, wpc[w] = "loaded",
           NEW j \in Matches(wcopy[w], wmsg[w][1]),
           WriteRows(OrderOf[wmsg[w][1]], Apply(wcopy[w], j))
    PROVE  LET o == OrderOf[wmsg[w][1]]
               new == Apply(wcopy[w], j)
           IN  /\ o \in Orders /\ wmsg[w] \in Updates /\ wmsg[w] \in emitted
               /\ wmsg[w][1] \in Items
               /\ j \in Lines(o) /\ TypeOf[j] = TypeOf[wmsg[w][1]]
               /\ new \in [order : Status, items : [Lines(o) -> Status]]
               /\ orderRow' = [orderRow EXCEPT ![o] = new.order]
               /\ itemRow' = [i \in Items |-> IF i \in Lines(o) THEN new.items[i] ELSE itemRow[i]]
  <1> DEFINE o == OrderOf[wmsg[w][1]]
             new == Apply(wcopy[w], j)
  <1>1. /\ wmsg[w] \in Updates
        /\ wcopy[w] \in [order : Status, items : [Lines(o) -> Status]]
    BY DEF TypeInv, CopyTyped
  <1>2. wmsg[w][1] \in Items /\ o \in Orders
    BY <1>1, MsgFacts, LinesFacts
  <1>3. j \in Lines(o) /\ TypeOf[j] = TypeOf[wmsg[w][1]]
    BY <1>1 DEF Matches
  <1>4. new \in [order : Status, items : [Lines(o) -> Status]]
    BY <1>1, <1>2, <1>3, ApplyType
  <1>5. DOMAIN new.items = Lines(o)
    BY <1>4
  <1>6. wmsg[w] \in emitted
    BY <1>1, MsgFacts DEF TypeInv, TypeOK
  <1> QED
    BY <1>1, <1>2, <1>3, <1>4, <1>5, <1>6 DEF WriteRows

LEMMA TypeWrite ==
    ASSUME TypeInv, NEW w \in Workers, wpc[w] = "loaded",
           NEW j \in Matches(wcopy[w], wmsg[w][1]),
           WriteRows(OrderOf[wmsg[w][1]], Apply(wcopy[w], j))
    PROVE  /\ orderRow' \in [Orders -> Status \cup {None}]
           /\ itemRow' \in [Items -> Status \cup {None}]
           /\ RowsTogether'
  <1> DEFINE o == OrderOf[wmsg[w][1]]
             new == Apply(wcopy[w], j)
  <1> HIDE DEF new
  <1>1. /\ o \in Orders
        /\ new \in [order : Status, items : [Lines(o) -> Status]]
        /\ orderRow' = [orderRow EXCEPT ![o] = new.order]
        /\ itemRow' = [i \in Items |-> IF i \in Lines(o) THEN new.items[i] ELSE itemRow[i]]
    BY WriteFacts DEF new
  <1> HIDE DEF o
  <1>2. orderRow' \in [Orders -> Status \cup {None}]
    BY <1>1 DEF TypeInv, TypeOK
  <1>3. itemRow' \in [Items -> Status \cup {None}]
    BY <1>1 DEF TypeInv, TypeOK
  <1>4. RowsTogether'
    BY <1>1, LinesFacts, MsgFacts DEF TypeInv, TypeOK, RowsTogether
  <1> QED BY <1>2, <1>3, <1>4

LEMMA NoCopyType == NoCopy \in Copies
  BY DEF Copies

\* A restart of the process keeps the types: calls and goroutines start over.
LEMMA TypeRestart ==
    ASSUME TypeInv, Restart, faults' \in [FaultKinds -> Nat]
    PROVE  TypeInv'
  <1> USE DEF TypeOK, rowVars, brokerVars
  <1>a. TypeOK BY DEF TypeInv
  <1>1. Unacked \subseteq emitted \cup stuck
    BY <1>a DEF Unacked, Held
  <1>2. queue' \subseteq emitted'
    <2>1. stuck \subseteq emitted
      BY DEF TypeInv, StuckEmitted
    <2> QED BY <1>a, <1>1, <2>1 DEF Restart
  <1>3. place' \in [Orders -> {"idle", "lookup", "create", "publish", "ok", "error"}]
    BY <1>a DEF Restart
  <1>4. openTx' \in 0 .. MaxConn
    BY BoundAssumption DEF Restart
  <1>5. TypeOK'
    BY <1>a, <1>2, <1>3, <1>4, NoCopyType DEF Restart
  <1>6. CopyTyped'
    BY DEF CopyTyped, Restart
  <1>7. RowsTogether' /\ StuckEmitted'
    BY DEF TypeInv, RowsTogether, StuckEmitted, Restart
  <1> QED BY <1>5, <1>6, <1>7 DEF TypeInv

\* A worker's steps keep the types; the copy it loads is complete because an
\* order's rows are all there or none is.
LEMMA TypeWorkerStep ==
    ASSUME TypeInv, NEW w \in Workers, WorkerStep(w)
    PROVE  TypeInv'
  <1>a. TypeOK /\ CopyTyped /\ RowsTogether /\ StuckEmitted BY DEF TypeInv
  <1>b. faults \in [FaultKinds -> Nat] /\ wmsg \in [Workers -> emitted \cup {None}]
    BY <1>a DEF TypeOK
  <1> USE DEF placeVars, rowVars, brokerVars, queueVars, workerVars
  <1>1. CASE Take(w)
    <2>1. PICK m \in queue : queue' = queue \ {m} /\ wmsg' = [wmsg EXCEPT ![w] = m]
      BY <1>1 DEF Take
    <2>2. TypeOK'
      BY <1>a, <1>1, <2>1 DEF Take, TypeOK
    <2>3. CopyTyped'
      BY <1>a, <1>1, <2>1 DEF Take, CopyTyped, TypeOK
    <2> QED
      BY <1>1, <1>a, <2>2, <2>3 DEF Take, TypeInv, RowsTogether, StuckEmitted
  <1>2. CASE SkipUnsupported(w)
    <2>1. wmsg[w] \in emitted
      BY <1>2, <1>b, MsgFacts DEF SkipUnsupported
    <2>2. stuck' \subseteq Unsupported /\ stuck' \subseteq emitted
      BY <1>2, <1>a, <2>1 DEF SkipUnsupported, TypeOK, StuckEmitted
    <2>3. TypeOK'
      BY <1>a, <1>2, <2>2 DEF SkipUnsupported, TypeOK
    <2>4. CopyTyped'
      BY <1>a, <1>2 DEF SkipUnsupported, CopyTyped, TypeOK
    <2> QED
      BY <1>2, <1>a, <2>2, <2>3, <2>4 DEF SkipUnsupported, TypeInv, RowsTogether, StuckEmitted
  <1>3. CASE GetByID(w)
    <2> DEFINE o == OrderOf[wmsg[w][1]]
    <2>1. wmsg[w] \in Updates /\ o \in Orders /\ orderRow[o] # None
      BY <1>3, MsgFacts, LinesFacts DEF GetByID
    <2>2. orderRow[o] \in Status /\ \A i \in Lines(o) : itemRow[i] \in Status
      BY <1>a, <2>1, LinesFacts DEF TypeOK, RowsTogether
    <2>3. Snapshot(o) \in [order : Status, items : [Lines(o) -> Status]]
      BY <2>2 DEF Snapshot
    <2>4. Snapshot(o) \in Copies
      BY <2>1, <2>3 DEF Copies
    <2>5. TypeOK'
      BY <1>a, <1>3, <2>4 DEF GetByID, TypeOK
    <2>6. CopyTyped'
      <3> SUFFICES ASSUME NEW v \in Workers, wpc'[v] = "loaded"
                   PROVE  /\ wmsg'[v] \in Updates
                          /\ wcopy'[v] \in [order : Status,
                                           items : [Lines(OrderOf[wmsg'[v][1]]) -> Status]]
        BY DEF CopyTyped
      <3>1. wmsg' = wmsg /\ wcopy' = [wcopy EXCEPT ![w] = Snapshot(o)]
        BY <1>3 DEF GetByID
      <3>2. CASE v = w
        BY <3>1, <3>2, <1>a, <2>1, <2>3 DEF TypeOK
      <3>3. CASE v # w
        BY <3>1, <3>3, <1>a, <1>3 DEF TypeOK, CopyTyped, GetByID
      <3> QED BY <3>2, <3>3
    <2> QED
      BY <1>3, <1>a, <2>5, <2>6 DEF GetByID, TypeInv, RowsTogether, StuckEmitted
  <1>4. CASE Update(w)
    <2>1. PICK j \in Matches(wcopy[w], wmsg[w][1]) :
              WriteRows(OrderOf[wmsg[w][1]], Apply(wcopy[w], j))
      BY <1>4 DEF Update
    <2>2. wpc[w] = "loaded"
      BY <1>4 DEF Update
    <2>3. /\ orderRow' \in [Orders -> Status \cup {None}]
          /\ itemRow' \in [Items -> Status \cup {None}]
          /\ RowsTogether'
      BY <2>1, <2>2, TypeWrite
    <2>4. TypeOK'
      BY <1>a, <1>4, <2>3 DEF Update, TypeOK
    <2>5. CopyTyped' /\ StuckEmitted'
      BY <1>a, <1>4 DEF Update, CopyTyped, TypeOK, StuckEmitted
    <2> QED BY <2>3, <2>4, <2>5 DEF TypeInv
  <1>5. CASE NoConnection(w)
    <2>1. TypeOK'
      BY <1>a, <1>5 DEF NoConnection, TypeOK
    <2> QED
      BY <1>5, <1>a, <2>1 DEF NoConnection, TypeInv, RowsTogether, StuckEmitted, CopyTyped, TypeOK
  <1>6. CASE HandleFails(w)
    <2>1. faults' \in [FaultKinds -> Nat]
      BY <1>6, <1>b, FaultType, FaultKindsFacts DEF HandleFails
    <2>2. openTx' \in 0 .. MaxConn
      BY <1>6, <1>a, BoundAssumption DEF HandleFails, TypeOK
    <2>3. /\ orderRow' \in [Orders -> Status \cup {None}]
          /\ itemRow' \in [Items -> Status \cup {None}]
          /\ RowsTogether'
      <3>1. CASE UNCHANGED rowVars
        BY <3>1, <1>a DEF TypeOK, RowsTogether
      <3>2. CASE /\ wpc[w] = "loaded"
                 /\ \E j \in Matches(wcopy[w], wmsg[w][1]) :
                        WriteRows(OrderOf[wmsg[w][1]], Apply(wcopy[w], j))
        BY <3>2, TypeWrite
      <3> QED BY <1>6, <3>1, <3>2 DEF HandleFails
    <2>4. TypeOK'
      BY <1>a, <1>6, <2>1, <2>2, <2>3 DEF HandleFails, TypeOK
    <2>5. CopyTyped' /\ StuckEmitted'
      BY <1>a, <1>6 DEF HandleFails, CopyTyped, TypeOK, StuckEmitted
    <2> QED BY <2>3, <2>4, <2>5 DEF TypeInv
  <1>7. CASE PanicOnMalformed(w)
    BY <1>7, <1>b, TypeRestart DEF PanicOnMalformed
  <1>8. CASE Settle(w)
    <2>1. TypeOK'
      BY <1>a, <1>8, NoCopyType DEF Settle, TypeOK
    <2>2. CopyTyped'
      BY <1>a, <1>8 DEF Settle, CopyTyped, TypeOK
    <2> QED
      BY <1>8, <1>a, <2>1, <2>2 DEF Settle, TypeInv, RowsTogether, StuckEmitted
  <1> QED
    BY <1>1, <1>2, <1>3, <1>4, <1>5, <1>6, <1>7, <1>8 DEF WorkerStep

\* The environment's steps: messages appear, stations declare and bind.
LEMMA TypeOtherStep ==
    ASSUME TypeInv, Crash \/ ChannelCloses \/ StationNext
    PROVE  TypeInv'
  <1>a. TypeOK /\ CopyTyped /\ RowsTogether /\ StuckEmitted BY DEF TypeInv
  <1>b. faults \in [FaultKinds -> Nat]
    BY <1>a DEF TypeOK
  <1> USE DEF placeVars, rowVars, brokerVars, queueVars, workerVars
  <1>1. CASE Crash
    BY <1>1, <1>b, TypeRestart, FaultType, FaultKindsFacts DEF Crash
  <1>2. CASE ChannelCloses
    <2>1. faults' \in [FaultKinds -> Nat]
      BY <1>2, <1>b, FaultType, FaultKindsFacts DEF ChannelCloses
    <2>2. queue' \subseteq emitted'
      BY <1>2, <1>a DEF ChannelCloses, Unacked, Held, TypeOK, StuckEmitted
    <2>3. TypeOK'
      BY <1>2, <1>a, <2>1, <2>2 DEF ChannelCloses, TypeOK
    <2> QED
      BY <1>2, <1>a, <2>3 DEF ChannelCloses, TypeInv, CopyTyped, RowsTogether, StuckEmitted
  <1>3. ASSUME NEW s \in Stations, Declare(s) \/ Bind(s)
        PROVE  TypeInv'
    <2>1. TypeOK'
      BY <1>3, <1>a DEF Declare, Bind, TypeOK
    <2> QED
      BY <1>3, <1>a, <2>1 DEF Declare, Bind, TypeInv, CopyTyped, RowsTogether, StuckEmitted
  <1>4. ASSUME NEW m \in Msgs, Enqueue(m)
        PROVE  TypeInv'
    <2>1. TypeOK'
      BY <1>4, <1>a DEF Enqueue, TypeOK
    <2> QED
      BY <1>4, <1>a, <2>1 DEF Enqueue, TypeInv, CopyTyped, RowsTogether, StuckEmitted
  <1>5. ASSUME NEW i \in Items, NEW k \in 1 .. MaxEmit, EmitUpdate(i, k)
        PROVE  TypeInv'
    BY <1>4, <1>5 DEF EmitUpdate, Msgs, Updates
  <1>6. ASSUME NEW m \in Foreign, EmitForeign(m)
        PROVE  TypeInv'
    BY <1>4, <1>6 DEF EmitForeign, Msgs
  <1> QED
    BY <1>1, <1>2, <1>3, <1>5, <1>6 DEF StationNext

LEMMA TypeInit == Init => TypeInv
  <1> SUFFICES ASSUME Init PROVE TypeInv
    OBVIOUS
  <1>1. TypeOK
    BY BoundAssumption, NoCopyType DEF Init, TypeOK
  <1>2. CopyTyped /\ StuckEmitted
    BY DEF Init, CopyTyped, StuckEmitted
  <1>3. RowsTogether
    BY LinesFacts DEF Init, RowsTogether
  <1> QED BY <1>1, <1>2, <1>3 DEF TypeInv

LEMMA TypeStep == TypeInv /\ [Next]_vars => TypeInv'
  <1> SUFFICES ASSUME TypeInv, [Next]_vars PROVE TypeInv'
    OBVIOUS
  <1>1. CASE UNCHANGED vars
    <2>1. TypeOK'
      BY <1>1 DEF TypeInv, TypeOK, vars
    <2> QED
      BY <1>1, <2>1 DEF TypeInv, CopyTyped, RowsTogether, StuckEmitted, vars
  <1> QED
    BY <1>1, TypePlaceStep, TypeWorkerStep, TypeOtherStep DEF Next, CounterNext

\* Every variable keeps its type: in particular transactions the code leaves
\* open (BeginTx without Rollback in orders_repo.go) never exceed what
\* PostgreSQL grants, and no goroutine holds a message nobody put in the queue.
THEOREM TypeCorrect == Spec => []TypeOK
  <1>1. TypeInv => TypeOK
    BY DEF TypeInv
  <1> QED BY TypeInit, TypeStep, <1>1, PTL DEF Spec

LEMMA TypeInvariant == Spec => []TypeInv
  BY TypeInit, TypeStep, PTL DEF Spec

-----------------------------------------------------------------------------
(* PlaceOrder: what is out, and what is stored.                            *)

Out == sent \cup dropped

\* Before the transaction commits nothing of the order is anywhere.
Unplaced ==
    \A o \in Orders : place[o] \in {"idle", "lookup", "create"} =>
        /\ orderRow[o] = None /\ next[o] = 1
        /\ \A i \in Lines(o) : i \notin Out

\* Whatever is out has its order stored; so has a call past the commit.
OutPersisted == \A i \in Out : orderRow[OrderOf[i]] # None

PlacedPersisted == \A o \in Orders : place[o] \in {"publish", "ok"} => orderRow[o] # None

\* While the loop runs, exactly the items before the current one are out.
Progress ==
    \A o \in Orders : place[o] = "publish" =>
        \A n \in Positions(o) : LineItems(o)[n] \in Out <=> n < next[o]

OkAll == \A o \in Orders : place[o] = "ok" => \A i \in Lines(o) : i \in Out

EmittedSent == \A m \in emitted \cap Updates : m[1] \in sent

PlaceInv ==
    /\ Unplaced /\ OutPersisted /\ PlacedPersisted /\ Progress /\ OkAll
    /\ PublishedIsPrefix /\ EmittedSent

\* A step of neither a PlaceOrder call nor the process, which adds and
\* removes no order row and whose new messages are about sent items.
LEMMA PlaceFrame ==
    ASSUME PlaceInv, UNCHANGED <<place, next, sent, dropped>>,
           \A o \in Orders : orderRow'[o] = None <=> orderRow[o] = None,
           \A m \in emitted' \cap Updates : m \in emitted \/ m[1] \in sent,
           Out \subseteq Items
    PROVE  PlaceInv'
  <1>a. Out' = Out
    BY DEF Out
  <1> USE <1>a DEF PlaceInv
  <1>1. Unplaced' BY DEF Unplaced
  <1>2. OutPersisted' BY LinesFacts DEF OutPersisted
  <1>3. PlacedPersisted' BY DEF PlacedPersisted
  <1>4. Progress' BY DEF Progress
  <1>5. OkAll' BY DEF OkAll
  <1>6. PublishedIsPrefix' BY DEF PublishedIsPrefix, Out
  <1>7. EmittedSent' BY DEF EmittedSent
  <1> QED BY <1>1, <1>2, <1>3, <1>4, <1>5, <1>6, <1>7

\* A worker's Update touches only an order that is stored: the update it
\* handles was sent, and nothing is sent before the commit.
LEMMA WriteKeepsRows ==
    ASSUME TypeInv, PlaceInv, NEW w \in Workers, wpc[w] = "loaded",
           NEW j \in Matches(wcopy[w], wmsg[w][1]),
           WriteRows(OrderOf[wmsg[w][1]], Apply(wcopy[w], j))
    PROVE  \A o \in Orders : orderRow'[o] = None <=> orderRow[o] = None
  <1> DEFINE p == OrderOf[wmsg[w][1]]
             new == Apply(wcopy[w], j)
  <1> HIDE DEF new
  <1>1. /\ p \in Orders /\ wmsg[w] \in emitted \cap Updates
        /\ new \in [order : Status, items : [Lines(p) -> Status]]
        /\ orderRow' = [orderRow EXCEPT ![p] = new.order]
    BY WriteFacts DEF new
  <1>2. wmsg[w][1] \in Out
    BY <1>1 DEF PlaceInv, EmittedSent, Out
  <1>3. orderRow[p] # None
    BY <1>2 DEF PlaceInv, OutPersisted
  <1> HIDE DEF p
  <1>4. new.order # None
    BY <1>1, MsgFacts
  <1>5. orderRow \in [Orders -> Status \cup {None}]
    BY DEF TypeInv, TypeOK
  <1> QED BY <1>1, <1>3, <1>4, <1>5

\* Steps of a call that publish nothing: the program counter moves, and the
\* order's rows may appear.
LEMMA PlaceMove ==
    ASSUME TypeInv, PlaceInv, NEW o \in Orders, NEW q,
           place' = [place EXCEPT ![o] = q],
           UNCHANGED <<next, sent, dropped, emitted>>,
           UNCHANGED orderRow \/ (orderRow' = [orderRow EXCEPT ![o] = "InProcess"] /\ q \in {"publish", "error"}),
           \/ q = "error"
           \/ q \in {"lookup", "create"} /\ place[o] \in {"idle", "lookup"}
           \/ q = "publish" /\ place[o] = "create" /\ orderRow'[o] # None
           \/ q = "ok" /\ place[o] = "publish" /\ next[o] > Len(LineItems(o))
    PROVE  PlaceInv'
  <1>a. Out' = Out
    BY DEF Out
  <1>b. place \in [Orders -> {"idle", "lookup", "create", "publish", "ok", "error"}]
    BY DEF TypeInv, TypeOK
  <1>c. Out \subseteq Items /\ orderRow \in [Orders -> Status \cup {None}]
    BY DEF TypeInv, TypeOK, Out
  <1>d. \A p \in Orders : orderRow[p] # None => orderRow'[p] # None
    BY <1>c, MsgFacts DEF Status
  <1>e. \A p \in Orders \ {o} : place'[p] = place[p] /\ orderRow'[p] = orderRow[p]
    BY <1>b, <1>c
  <1>f. place'[o] = q
    BY <1>b
  <1> USE <1>a DEF PlaceInv
  <1>1. Unplaced'
    BY <1>e, <1>f DEF Unplaced
  <1>2. OutPersisted'
    BY <1>c, <1>d, LinesFacts DEF OutPersisted
  <1>3. PlacedPersisted'
    BY <1>d, <1>e, <1>f DEF PlacedPersisted
  <1>4. Progress'
    <2>1. CASE q = "publish"
      <3>1. next[o] = 1 /\ \A i \in Lines(o) : i \notin Out
        BY <2>1 DEF Unplaced
      <3>2. \A n \in Positions(o) : LineItems(o)[n] \notin Out /\ ~(n < next[o])
        BY <3>1, LineItemsType DEF Positions
      <3> QED BY <3>2, <1>e, <1>f DEF Progress
    <2>2. CASE q # "publish"
      BY <2>2, <1>e, <1>f DEF Progress
    <2> QED BY <2>1, <2>2
  <1>5. OkAll'
    <2>1. CASE q = "ok"
      <3>1. \A n \in Positions(o) : n < next[o]
        BY <2>1, LineItemsType DEF Positions, TypeInv, TypeOK
      <3>2. \A n \in Positions(o) : LineItems(o)[n] \in Out
        BY <2>1, <3>1 DEF Progress
      <3>3. \A i \in Lines(o) : i \in Out
        <4> TAKE i \in Lines(o)
        <4>1. PICK n \in Positions(o) : LineItems(o)[n] = i
          BY LinesCovered
        <4> QED BY <3>2, <4>1
      <3> QED BY <3>3, <1>e, <1>f DEF OkAll
    <2>2. CASE q # "ok"
      BY <2>2, <1>e, <1>f DEF OkAll
    <2> QED BY <2>1, <2>2
  <1>6. PublishedIsPrefix' /\ EmittedSent'
    BY DEF PublishedIsPrefix, EmittedSent
  <1> QED BY <1>1, <1>2, <1>3, <1>4, <1>5, <1>6

\* One more event is out: the next one in the order of the line items.
LEMMA AcceptKeeps ==
    ASSUME TypeInv, PlaceInv, NEW o \in Orders, place[o] = "publish",
           next[o] <= Len(LineItems(o)),
           Accept(LineItems(o)[next[o]]),
           UNCHANGED <<orderRow, emitted>>
    PROVE  LET x == LineItems(o)[next[o]]
           IN  /\ x \in Lines(o) /\ Out' = Out \cup {x}
               /\ OutPersisted' /\ PublishedIsPrefix' /\ EmittedSent'
               /\ \A n \in Positions(o) : LineItems(o)[n] \in Out' <=> n < next[o] + 1
  <1> DEFINE x == LineItems(o)[next[o]]
  <1>1. next[o] \in Positions(o) /\ x \in Lines(o)
    BY NextItem DEF TypeInv
  <1>2. Out' = Out \cup {x}
    BY DEF Accept, Out
  <1>3. orderRow[o] # None /\ OrderOf[x] = o
    BY <1>1, LinesFacts DEF PlaceInv, PlacedPersisted
  <1>4. OutPersisted'
    BY <1>2, <1>3 DEF PlaceInv, OutPersisted
  <1>5. EmittedSent'
    BY DEF Accept, PlaceInv, EmittedSent
  <1>6. \A n \in Positions(o) : LineItems(o)[n] \in Out' <=> n < next[o] + 1
    <2> SUFFICES ASSUME NEW n \in Positions(o)
                 PROVE  LineItems(o)[n] \in Out' <=> n < next[o] + 1
      OBVIOUS
    <2>1. LineItems(o)[n] \in Out <=> n < next[o]
      BY DEF PlaceInv, Progress
    <2>2. LineItems(o)[n] = x <=> n = next[o]
      BY <1>1, LinesCovered
    <2>3. n \in Nat /\ next[o] \in Nat
      BY <1>1, LineItemsType DEF Positions
    <2> QED BY <1>2, <2>1, <2>2, <2>3
  <1>7. PublishedIsPrefix'
    <2> SUFFICES ASSUME NEW p \in Orders, NEW m \in Positions(p), NEW n \in Positions(p),
                        m < n, LineItems(p)[n] \in Out'
                 PROVE  LineItems(p)[m] \in Out'
      BY <1>2 DEF PublishedIsPrefix, Out
    <2>1. CASE p = o
      <3>1. m \in Nat /\ n \in Nat /\ next[o] \in Nat
        BY <1>1, <2>1, LineItemsType DEF Positions
      <3> QED BY <1>6, <2>1, <3>1
    <2>2. CASE p # o
      <3>1. LineItems(p)[n] \in Lines(p)
        BY LineItemsType
      <3>2. LineItems(p)[n] # x
        BY <1>3, <2>2, <3>1, LinesFacts
      <3>3. LineItems(p)[n] \in Out
        BY <1>2, <3>2
      <3> QED BY <1>2, <3>3 DEF PlaceInv, PublishedIsPrefix, Out
    <2> QED BY <2>1, <2>2
  <1> QED BY <1>1, <1>2, <1>4, <1>5, <1>6, <1>7

LEMMA PlacePlaceStep ==
    ASSUME TypeInv, PlaceInv, NEW o \in Orders, PlaceStep(o)
    PROVE  PlaceInv'
  <1> USE DEF placeVars, rowVars, brokerVars
  <1>a. /\ place \in [Orders -> {"idle", "lookup", "create", "publish", "ok", "error"}]
        /\ next \in [Orders -> Nat \ {0}] /\ orderRow \in [Orders -> Status \cup {None}]
    BY DEF TypeInv, TypeOK
  <1>1. CASE PlaceOrder(o) BY <1>1, PlaceMove DEF PlaceOrder
  <1>2. CASE Lookup(o) BY <1>2, PlaceMove DEF Lookup
  <1>3. CASE LookupFails(o) BY <1>3, PlaceMove DEF LookupFails
  <1>4. CASE CreateOrder(o)
    <2>1. orderRow'[o] = "InProcess" /\ "InProcess" # None
      BY <1>4, <1>a, MsgFacts DEF CreateOrder, InsertRows, Status
    <2> QED BY <1>4, <2>1, PlaceMove DEF CreateOrder, InsertRows
  <1>5. CASE CreateRefused(o) BY <1>5, PlaceMove DEF CreateRefused
  <1>6. CASE CreateFails(o) BY <1>6, PlaceMove DEF CreateFails, InsertRows
  <1>7. CASE Publish(o)
    <2> DEFINE x == LineItems(o)[next[o]]
    <2>1. /\ x \in Lines(o) /\ Out' = Out \cup {x}
          /\ OutPersisted' /\ PublishedIsPrefix' /\ EmittedSent'
          /\ \A n \in Positions(o) : LineItems(o)[n] \in Out' <=> n < next[o] + 1
      BY <1>7, AcceptKeeps DEF Publish
    <2> HIDE DEF x
    <2>2. /\ place' = place /\ orderRow' = orderRow /\ place[o] = "publish"
          /\ next' = [next EXCEPT ![o] = @ + 1]
      BY <1>7 DEF Publish
    <2>3. \A p \in Orders \ {o} : x \notin Lines(p) /\ next'[p] = next[p]
      BY <1>a, <2>1, <2>2, LinesFacts
    <2>4. Unplaced'
      BY <2>1, <2>2, <2>3 DEF PlaceInv, Unplaced
    <2>5. Progress'
      <3> SUFFICES ASSUME NEW p \in Orders, place[p] = "publish", NEW n \in Positions(p)
                   PROVE  LineItems(p)[n] \in Out' <=> n < next'[p]
        BY <2>2 DEF Progress
      <3>1. CASE p = o
        BY <3>1, <1>a, <2>1, <2>2
      <3>2. CASE p # o
        BY <3>2, <2>1, <2>3, LineItemsType DEF PlaceInv, Progress
      <3> QED BY <3>1, <3>2
    <2>6. OkAll' /\ PlacedPersisted'
      BY <2>1, <2>2 DEF PlaceInv, OkAll, PlacedPersisted
    <2> QED BY <2>1, <2>4, <2>5, <2>6 DEF PlaceInv
  <1>8. CASE PublishRefused(o) BY <1>8, PlaceMove DEF PublishRefused
  <1>9. CASE PublishFails(o)
    <2>1. CASE UNCHANGED <<sent, dropped>>
      BY <1>9, <2>1, PlaceMove DEF PublishFails
    <2>2. CASE Accept(LineItems(o)[next[o]])
      <3> DEFINE x == LineItems(o)[next[o]]
      <3>1. /\ x \in Lines(o) /\ Out' = Out \cup {x}
            /\ OutPersisted' /\ PublishedIsPrefix' /\ EmittedSent'
        BY <1>9, <2>2, AcceptKeeps DEF PublishFails
      <3> HIDE DEF x
      <3>2. place' = [place EXCEPT ![o] = "error"] /\ next' = next /\ orderRow' = orderRow
        BY <1>9 DEF PublishFails
      <3>3. \A p \in Orders \ {o} : x \notin Lines(p) /\ place'[p] = place[p]
        BY <1>a, <3>1, <3>2, LinesFacts
      <3>4. place'[o] = "error"
        BY <1>a, <3>2
      <3>5. Unplaced'
        BY <3>1, <3>2, <3>3, <3>4 DEF PlaceInv, Unplaced
      <3>6. Progress'
        <4> SUFFICES ASSUME NEW p \in Orders, place'[p] = "publish", NEW n \in Positions(p)
                     PROVE  LineItems(p)[n] \in Out' <=> n < next[p]
          BY <3>2 DEF Progress
        <4>1. p # o
          BY <3>4
        <4> QED BY <4>1, <3>1, <3>3, LineItemsType DEF PlaceInv, Progress
      <3>7. OkAll' /\ PlacedPersisted'
        BY <3>1, <3>2, <3>3, <3>4 DEF PlaceInv, OkAll, PlacedPersisted
      <3> QED BY <3>1, <3>5, <3>6, <3>7 DEF PlaceInv
    <2> QED BY <1>9, <2>1, <2>2 DEF PublishFails
  <1>10. CASE Reply(o) BY <1>10, PlaceMove DEF Reply
  <1> QED
    BY <1>1, <1>2, <1>3, <1>4, <1>5, <1>6, <1>7, <1>8, <1>9, <1>10 DEF PlaceStep

\* A restart ends the calls in flight where they are: what is out stays a
\* prefix, and no call is left that could publish the rest.
LEMMA PlaceRestart ==
    ASSUME TypeInv, PlaceInv, Restart
    PROVE  PlaceInv'
  <1> USE DEF rowVars, brokerVars
  <1>1. UNCHANGED <<next, orderRow, sent, dropped, emitted>> /\ Out' = Out
    BY DEF Restart, Out
  <1>2. \A o \in Orders : /\ place'[o] = place[o] \/ place'[o] = "error"
                          /\ place'[o] \notin {"lookup", "create", "publish"}
    BY DEF Restart
  <1> USE <1>1, <1>2 DEF PlaceInv
  <1>3. Unplaced' BY DEF Unplaced
  <1>4. OutPersisted' /\ PlacedPersisted' BY DEF OutPersisted, PlacedPersisted
  <1>5. Progress' BY DEF Progress
  <1>6. OkAll' BY DEF OkAll
  <1>7. PublishedIsPrefix' BY DEF PublishedIsPrefix
  <1>8. EmittedSent' BY DEF EmittedSent
  <1> QED BY <1>3, <1>4, <1>5, <1>6, <1>7, <1>8

LEMMA PlaceWorkerStep ==
    ASSUME TypeInv, PlaceInv, NEW w \in Workers, WorkerStep(w)
    PROVE  PlaceInv'
  <1> USE DEF placeVars, rowVars, brokerVars
  <1>1. CASE PanicOnMalformed(w)
    BY <1>1, PlaceRestart DEF PanicOnMalformed
  <1>2. CASE ~PanicOnMalformed(w)
    <2>1. UNCHANGED <<placeVars, brokerVars>>
      BY <1>2 DEF WorkerStep, Take, SkipUnsupported, GetByID, Update, NoConnection,
                  HandleFails, Settle
    <2>2. \A o \in Orders : orderRow'[o] = None <=> orderRow[o] = None
      <3>1. CASE UNCHANGED rowVars
        BY <3>1
      <3>2. CASE /\ wpc[w] = "loaded"
                 /\ \E j \in Matches(wcopy[w], wmsg[w][1]) :
                        WriteRows(OrderOf[wmsg[w][1]], Apply(wcopy[w], j))
        BY <3>2, WriteKeepsRows
      <3> QED
        BY <1>2, <3>1, <3>2 DEF WorkerStep, Take, SkipUnsupported, GetByID, Update,
                                NoConnection, HandleFails, Settle
    <2>3. Out \subseteq Items
      BY DEF TypeInv, TypeOK, Out
    <2> QED BY <2>1, <2>2, <2>3, PlaceFrame
  <1> QED BY <1>1, <1>2

LEMMA PlaceOtherStep ==
    ASSUME TypeInv, PlaceInv, Crash \/ ChannelCloses \/ StationNext
    PROVE  PlaceInv'
  <1> USE DEF placeVars, rowVars, brokerVars
  <1>a. Out \subseteq Items
    BY DEF TypeInv, TypeOK, Out
  <1>1. CASE Crash
    BY <1>1, PlaceRestart DEF Crash
  <1>2. CASE ChannelCloses
    BY <1>2, <1>a, PlaceFrame DEF ChannelCloses
  <1>3. ASSUME NEW s \in Stations, Declare(s) \/ Bind(s)
        PROVE  PlaceInv'
    BY <1>3, <1>a, PlaceFrame DEF Declare, Bind
  <1>4. ASSUME NEW i \in Items, NEW k \in 1 .. MaxEmit, EmitUpdate(i, k)
        PROVE  PlaceInv'
    BY <1>4, <1>a, PlaceFrame DEF EmitUpdate, Enqueue
  <1>5. ASSUME NEW m \in Foreign, EmitForeign(m)
        PROVE  PlaceInv'
    BY <1>5, <1>a, MsgFacts, PlaceFrame DEF EmitForeign, Enqueue
  <1> QED
    BY <1>1, <1>2, <1>3, <1>4, <1>5 DEF StationNext

LEMMA PlaceInit == Init => PlaceInv
  <1> SUFFICES ASSUME Init PROVE PlaceInv
    OBVIOUS
  <1>1. Out = {}
    BY DEF Init, Out
  <1> QED
    BY <1>1 DEF Init, PlaceInv, Unplaced, OutPersisted, PlacedPersisted, Progress, OkAll,
                PublishedIsPrefix, EmittedSent, Out

LEMMA PlaceInvStep == TypeInv /\ PlaceInv /\ [Next]_vars => PlaceInv'
  <1> SUFFICES ASSUME TypeInv, PlaceInv, [Next]_vars PROVE PlaceInv'
    OBVIOUS
  <1>1. CASE UNCHANGED vars
    <2>1. Out \subseteq Items
      BY DEF TypeInv, TypeOK, Out
    <2> QED BY <1>1, <2>1, PlaceFrame DEF vars
  <1> QED
    BY <1>1, PlacePlaceStep, PlaceWorkerStep, PlaceOtherStep DEF Next, CounterNext

LEMMA PlaceInvariant == Spec => []PlaceInv
  BY TypeInvariant, PlaceInit, PlaceInvStep, PTL DEF Spec

\* Events leave in the order of order.LineItems and none leaves after one
\* that failed, for any number of orders, items, faults and restarts.
THEOREM PrefixPublished == Spec => []PublishedIsPrefix
  <1>1. PlaceInv => PublishedIsPrefix
    BY DEF PlaceInv
  <1> QED BY <1>1, PlaceInvariant, PTL

\* A PlaceOrder call that answers without error has committed its order and
\* had every event confirmed.
THEOREM AcceptedPublished == Spec => []AcceptedOrderPublished
  <1>1. PlaceInv => AcceptedOrderPublished
    BY DEF PlaceInv, AcceptedOrderPublished, PlacedPersisted, OkAll, Out
  <1> QED BY <1>1, PlaceInvariant, PTL

\* GetByID finds the order of every update a station announces, so the nil
\* order it returns for an unknown one never reaches Order.Apply.
THEOREM UpdateHasOrder == Spec => []UpdateFindsItsOrder
  <1>1. TypeInv /\ PlaceInv => UpdateFindsItsOrder
    BY MsgFacts DEF PlaceInv, UpdateFindsItsOrder, EmittedSent, OutPersisted, Out,
                    TypeInv, RowsTogether
  <1> QED BY <1>1, TypeInvariant, PlaceInvariant, PTL

-----------------------------------------------------------------------------
(* The order rows under concurrent read-modify-writes.                     *)

\* Some station announced an item of i's type and order.
Made(i) == \E m \in emitted \cap Updates :
               OrderOf[m[1]] = OrderOf[i] /\ TypeOf[m[1]] = TypeOf[i]

\* A loaded copy is consistent in itself and shows only what was made: it
\* may be outdated, but it was true once, and what was made stays made.
CopyAgree ==
    \A w \in Workers : wpc[w] = "loaded" =>
        (wcopy[w].order = "Fulfilled"
            <=> \A i \in Lines(OrderOf[wmsg[w][1]]) : wcopy[w].items[i] = "Fulfilled")

CopyMade ==
    \A w \in Workers : wpc[w] = "loaded" =>
        \A i \in Lines(OrderOf[wmsg[w][1]]) : wcopy[w].items[i] = "Fulfilled" => Made(i)

RowInv == RowsAgree /\ FulfilledTypeWasMade /\ CopyAgree /\ CopyMade

\* checkFulfilledStatus: Order.Apply on a consistent copy is consistent, and
\* marks nothing but the line item it matched.
LEMMA ApplyAgrees ==
    ASSUME NEW o \in Orders, NEW copy \in [order : Status, items : [Lines(o) -> Status]],
           NEW j \in Lines(o),
           copy.order = "Fulfilled" <=> \A i \in Lines(o) : copy.items[i] = "Fulfilled"
    PROVE  LET new == Apply(copy, j)
           IN  /\ new.order = "Fulfilled" <=> \A i \in Lines(o) : new.items[i] = "Fulfilled"
               /\ \A i \in Lines(o) : i # j => new.items[i] = copy.items[i]
               /\ new.items[j] = "Fulfilled"
  BY DEF Apply, Status

LEMMA RowWrite ==
    ASSUME TypeInv, RowInv, NEW w \in Workers, wpc[w] = "loaded",
           NEW j \in Matches(wcopy[w], wmsg[w][1]),
           WriteRows(OrderOf[wmsg[w][1]], Apply(wcopy[w], j)),
           UNCHANGED emitted
    PROVE  /\ RowsAgree' /\ FulfilledTypeWasMade'
           /\ \A i \in Items : itemRow[i] = "Fulfilled" /\ itemRow'[i] # "Fulfilled" =>
                 OrderOf[wmsg[w][1]] = OrderOf[i] /\ wcopy[w].items[i] # itemRow[i]
  <1> DEFINE o == OrderOf[wmsg[w][1]]
             new == Apply(wcopy[w], j)
  <1> HIDE DEF new
  <1>1. /\ o \in Orders /\ wmsg[w] \in emitted \cap Updates
        /\ j \in Lines(o) /\ TypeOf[j] = TypeOf[wmsg[w][1]]
        /\ new \in [order : Status, items : [Lines(o) -> Status]]
        /\ orderRow' = [orderRow EXCEPT ![o] = new.order]
        /\ itemRow' = [i \in Items |-> IF i \in Lines(o) THEN new.items[i] ELSE itemRow[i]]
    BY WriteFacts DEF new
  <1>2. wcopy[w] \in [order : Status, items : [Lines(o) -> Status]]
    BY DEF TypeInv, CopyTyped
  <1>3. wcopy[w].order = "Fulfilled" <=> \A i \in Lines(o) : wcopy[w].items[i] = "Fulfilled"
    BY DEF RowInv, CopyAgree
  <1>4. /\ new.order = "Fulfilled" <=> \A i \in Lines(o) : new.items[i] = "Fulfilled"
        /\ \A i \in Lines(o) : i # j => new.items[i] = wcopy[w].items[i]
        /\ new.items[j] = "Fulfilled"
    BY <1>1, <1>2, <1>3, ApplyAgrees DEF new
  <1>6. /\ orderRow \in [Orders -> Status \cup {None}]
        /\ itemRow \in [Items -> Status \cup {None}]
    BY DEF TypeInv, TypeOK
  <1>7. \A i \in Lines(o) : wcopy[w].items[i] = "Fulfilled" => Made(i)
    BY DEF RowInv, CopyMade
  <1>8. Made(j)
    <2>1. OrderOf[j] = o
      BY <1>1, LinesFacts
    <2> QED BY <1>1, <2>1 DEF Made
  <1> HIDE DEF o
  <1>9. \A i \in Items : Made(i)' <=> Made(i)
    BY DEF Made
  <1>10. RowsAgree'
    <2> SUFFICES ASSUME NEW p \in Orders, orderRow'[p] # None, Lines(p) # {}
                 PROVE  orderRow'[p] = "Fulfilled"
                          <=> \A i \in Lines(p) : itemRow'[i] = "Fulfilled"
      BY DEF RowsAgree
    <2>1. CASE p = o
      <3>1. orderRow'[p] = new.order /\ \A i \in Lines(p) : itemRow'[i] = new.items[i]
        BY <2>1, <1>1, <1>6, LinesFacts
      <3> QED BY <2>1, <3>1, <1>4
    <2>2. CASE p # o
      <3>1. orderRow'[p] = orderRow[p] /\ \A i \in Lines(p) : itemRow'[i] = itemRow[i]
        BY <2>2, <1>1, <1>6, LinesFacts
      <3> QED BY <3>1 DEF RowInv, RowsAgree
    <2> QED BY <2>1, <2>2
  <1>11. FulfilledTypeWasMade'
    <2> SUFFICES ASSUME NEW i \in Items, itemRow'[i] = "Fulfilled"
                 PROVE  Made(i)
      BY <1>9 DEF FulfilledTypeWasMade, Made
    <2>1. CASE i \in Lines(o)
      <3>1. itemRow'[i] = new.items[i]
        BY <2>1, <1>1
      <3> QED BY <2>1, <3>1, <1>4, <1>7, <1>8
    <2>2. CASE i \notin Lines(o)
      <3>1. itemRow[i] = "Fulfilled"
        BY <2>2, <1>1
      <3> QED BY <3>1 DEF RowInv, FulfilledTypeWasMade, Made
    <2> QED BY <2>1, <2>2
  <1>12. ASSUME NEW i \in Items, itemRow[i] = "Fulfilled", itemRow'[i] # "Fulfilled"
         PROVE  o = OrderOf[i] /\ wcopy[w].items[i] # itemRow[i]
    <2>1. i \in Lines(o) /\ itemRow'[i] = new.items[i]
      BY <1>1, <1>12
    <2>2. i # j
      BY <1>4, <1>12, <2>1
    <2> QED BY <1>1, <1>4, <1>12, <2>1, <2>2, LinesFacts
  <1> QED BY <1>10, <1>11, <1>12 DEF o

\* No worker loads an order in this step.
NoLoad ==
    \A v \in Workers : wpc'[v] = "loaded" =>
        wpc[v] = "loaded" /\ wmsg'[v] = wmsg[v] /\ wcopy'[v] = wcopy[v]

LEMMA CopyFrame ==
    ASSUME TypeInv, RowInv, NoLoad, emitted \subseteq emitted'
    PROVE  CopyAgree' /\ CopyMade'
  <1>1. \A i \in Items : Made(i) => Made(i)'
    BY DEF Made
  <1>2. CopyAgree'
    BY DEF RowInv, CopyAgree, NoLoad
  <1>3. CopyMade'
    <2> SUFFICES ASSUME NEW v \in Workers, wpc'[v] = "loaded",
                        NEW i \in Lines(OrderOf[wmsg'[v][1]]),
                        wcopy'[v].items[i] = "Fulfilled"
                 PROVE  Made(i)'
      BY DEF CopyMade
    <2>1. wpc[v] = "loaded" /\ wmsg'[v] = wmsg[v] /\ wcopy'[v] = wcopy[v]
      BY DEF NoLoad
    <2>2. Made(i)
      BY <2>1 DEF RowInv, CopyMade
    <2>3. i \in Items
      BY DEF Lines
    <2> QED BY <1>1, <2>2, <2>3
  <1> QED BY <1>2, <1>3

LEMMA RowFrame ==
    ASSUME TypeInv, RowInv, NoLoad, emitted \subseteq emitted', UNCHANGED rowVars
    PROVE  RowInv'
  <1>1. RowsAgree'
    BY DEF RowInv, RowsAgree, rowVars
  <1>2. FulfilledTypeWasMade'
    BY DEF RowInv, FulfilledTypeWasMade, rowVars
  <1> QED BY <1>1, <1>2, CopyFrame DEF RowInv

LEMMA RowPlaceStep ==
    ASSUME TypeInv, RowInv, NEW o \in Orders, PlaceStep(o)
    PROVE  RowInv'
  <1> USE DEF PlaceStep, PlaceOrder, Lookup, LookupFails, CreateOrder, CreateRefused,
              CreateFails, Publish, PublishRefused, PublishFails, Reply
  <1>1. UNCHANGED workerVars /\ UNCHANGED emitted
    BY DEF brokerVars
  <1>2. NoLoad
    BY <1>1 DEF NoLoad, workerVars
  <1>3. UNCHANGED rowVars \/ InsertRows(o)
    BY DEF rowVars
  <1>4. CASE UNCHANGED rowVars
    BY <1>1, <1>2, <1>4, RowFrame
  <1>5. CASE InsertRows(o)
    <2>1. /\ orderRow \in [Orders -> Status \cup {None}]
          /\ itemRow \in [Items -> Status \cup {None}]
      BY DEF TypeInv, TypeOK
    <2>2. /\ orderRow' = [orderRow EXCEPT ![o] = "InProcess"]
          /\ \A i \in Items : itemRow'[i] = IF OrderOf[i] = o THEN "InProcess" ELSE itemRow[i]
      BY <1>5 DEF InsertRows
    <2>3. RowsAgree'
      <3> SUFFICES ASSUME NEW p \in Orders, orderRow'[p] # None, Lines(p) # {}
                   PROVE  orderRow'[p] = "Fulfilled"
                            <=> \A i \in Lines(p) : itemRow'[i] = "Fulfilled"
        BY DEF RowsAgree
      <3>1. CASE p = o
        BY <3>1, <2>1, <2>2, LinesFacts
      <3>2. CASE p # o
        <4>1. orderRow'[p] = orderRow[p] /\ \A i \in Lines(p) : itemRow'[i] = itemRow[i]
          BY <3>2, <2>1, <2>2, LinesFacts
        <4> QED BY <4>1 DEF RowInv, RowsAgree
      <3> QED BY <3>1, <3>2
    <2>4. FulfilledTypeWasMade'
      BY <2>2, <1>1 DEF RowInv, FulfilledTypeWasMade
    <2> QED BY <2>3, <2>4, <1>1, <1>2, CopyFrame DEF RowInv
  <1> QED BY <1>3, <1>4, <1>5

LEMMA RowWorkerStep ==
    ASSUME TypeInv, RowInv, NEW w \in Workers, WorkerStep(w)
    PROVE  RowInv'
  <1> USE DEF rowVars, brokerVars, workerVars
  <1>a. /\ wpc \in [Workers -> {"idle", "taken", "loaded", "ack", "reject"}]
        /\ wmsg \in [Workers -> emitted \cup {None}] /\ wcopy \in [Workers -> Copies]
    BY DEF TypeInv, TypeOK
  <1>1. CASE Take(w) \/ SkipUnsupported(w) \/ NoConnection(w) \/ Settle(w)
    <2>1. NoLoad
      BY <1>1, <1>a DEF NoLoad, Take, SkipUnsupported, NoConnection, Settle
    <2>2. UNCHANGED rowVars /\ UNCHANGED emitted
      BY <1>1 DEF Take, SkipUnsupported, NoConnection, Settle
    <2> QED BY <2>1, <2>2, RowFrame
  <1>2. CASE GetByID(w)
    <2> DEFINE o == OrderOf[wmsg[w][1]]
    <2>1. wmsg[w] \in Updates /\ o \in Orders /\ wmsg[w][1] \in Lines(o)
      BY <1>2, MsgFacts, LinesFacts DEF GetByID
    <2>2. /\ wcopy' = [wcopy EXCEPT ![w] = Snapshot(o)] /\ wmsg' = wmsg
          /\ wpc' = [wpc EXCEPT ![w] = "loaded"] /\ orderRow[o] # None
          /\ UNCHANGED <<orderRow, itemRow, emitted>>
      BY <1>2 DEF GetByID
    <2>3. /\ orderRow[o] = "Fulfilled" <=> \A i \in Lines(o) : itemRow[i] = "Fulfilled"
          /\ \A i \in Lines(o) : itemRow[i] = "Fulfilled" => Made(i)
      BY <2>1, <2>2, LinesFacts DEF RowInv, RowsAgree, FulfilledTypeWasMade, Made
    <2>4. RowsAgree' /\ FulfilledTypeWasMade'
      BY <2>2 DEF RowInv, RowsAgree, FulfilledTypeWasMade
    <2>5. /\ wcopy'[w] = Snapshot(o)
          /\ \A v \in Workers \ {w} : wcopy'[v] = wcopy[v] /\ wpc'[v] = wpc[v]
      BY <1>a, <2>2
    <2>6. CopyAgree'
      <3> SUFFICES ASSUME NEW v \in Workers, wpc'[v] = "loaded"
                   PROVE  wcopy'[v].order = "Fulfilled" <=>
                            \A i \in Lines(OrderOf[wmsg[v][1]]) : wcopy'[v].items[i] = "Fulfilled"
        BY <2>2 DEF CopyAgree
      <3>1. CASE v = w
        <4>1. Snapshot(o).order = orderRow[o]
              /\ \A i \in Lines(o) : Snapshot(o).items[i] = itemRow[i]
          BY DEF Snapshot
        <4> QED BY <3>1, <4>1, <2>3, <2>5
      <3>2. CASE v # w
        BY <3>2, <2>5 DEF RowInv, CopyAgree
      <3> QED BY <3>1, <3>2
    <2>7. \A i \in Items : Made(i)' <=> Made(i)
      BY <2>2 DEF Made
    <2>8. CopyMade'
      <3> SUFFICES ASSUME NEW v \in Workers, wpc'[v] = "loaded",
                          NEW i \in Lines(OrderOf[wmsg[v][1]]),
                          wcopy'[v].items[i] = "Fulfilled"
                   PROVE  Made(i)
        BY <2>2, <2>7 DEF CopyMade, Made
      <3>1. CASE v = w
        BY <3>1, <2>3, <2>5 DEF Snapshot
      <3>2. CASE v # w
        BY <3>2, <2>5 DEF RowInv, CopyMade
      <3> QED BY <3>1, <3>2
    <2> QED BY <2>4, <2>6, <2>8 DEF RowInv
  <1>3. CASE Update(w) \/ HandleFails(w)
    <2>1. NoLoad
      BY <1>3, <1>a DEF NoLoad, Update, HandleFails
    <2>2. UNCHANGED emitted
      BY <1>3 DEF Update, HandleFails
    <2>3. CASE UNCHANGED rowVars
      BY <2>1, <2>2, <2>3, RowFrame
    <2>4. CASE /\ wpc[w] = "loaded"
               /\ \E j \in Matches(wcopy[w], wmsg[w][1]) :
                      WriteRows(OrderOf[wmsg[w][1]], Apply(wcopy[w], j))
      <3>1. RowsAgree' /\ FulfilledTypeWasMade'
        BY <2>2, <2>4, RowWrite
      <3> QED BY <2>1, <2>2, <3>1, CopyFrame DEF RowInv
    <2> QED BY <1>3, <2>3, <2>4 DEF Update, HandleFails
  <1>4. CASE PanicOnMalformed(w)
    <2>1. NoLoad
      BY <1>4 DEF NoLoad, PanicOnMalformed, Restart
    <2> QED BY <1>4, <2>1, RowFrame DEF PanicOnMalformed, Restart
  <1> QED BY <1>1, <1>2, <1>3, <1>4 DEF WorkerStep

LEMMA RowOtherStep ==
    ASSUME TypeInv, RowInv, Crash \/ ChannelCloses \/ StationNext
    PROVE  RowInv'
  <1>1. NoLoad
    BY DEF NoLoad, Crash, Restart, ChannelCloses, StationNext, Declare, Bind, EmitUpdate,
           EmitForeign, Enqueue, workerVars
  <1>2. emitted \subseteq emitted' /\ UNCHANGED rowVars
    BY DEF Crash, Restart, ChannelCloses, StationNext, Declare, Bind, EmitUpdate,
           EmitForeign, Enqueue, rowVars, brokerVars
  <1> QED BY <1>1, <1>2, RowFrame

LEMMA RowInit == Init => RowInv
  <1> SUFFICES ASSUME Init PROVE RowInv
    OBVIOUS
  <1>1. RowsAgree /\ CopyAgree /\ CopyMade
    BY DEF Init, RowsAgree, CopyAgree, CopyMade
  <1>2. FulfilledTypeWasMade
    BY MsgFacts DEF Init, FulfilledTypeWasMade, Status
  <1> QED BY <1>1, <1>2 DEF RowInv

LEMMA RowInvStep == TypeInv /\ RowInv /\ [Next]_vars => RowInv'
  <1> SUFFICES ASSUME TypeInv, RowInv, [Next]_vars PROVE RowInv'
    OBVIOUS
  <1>1. CASE UNCHANGED vars
    <2>1. NoLoad /\ UNCHANGED rowVars /\ UNCHANGED emitted
      BY <1>1 DEF vars, NoLoad, rowVars
    <2> QED BY <2>1, RowFrame
  <1> QED
    BY <1>1, RowPlaceStep, RowWorkerStep, RowOtherStep DEF Next, CounterNext

LEMMA RowInvariant == Spec => []RowInv
  BY TypeInvariant, RowInit, RowInvStep, PTL DEF Spec

\* The order's status and its line items' statuses agree, however many
\* goroutines read and write them and however their commits are lost.
THEOREM RowsAlwaysAgree == Spec => []RowsAgree
  <1>1. RowInv => RowsAgree
    BY DEF RowInv
  <1> QED BY <1>1, RowInvariant, PTL

\* No line item is shown as fulfilled before an item of its type and order
\* was announced.
THEOREM FulfilledWasMade == Spec => []FulfilledTypeWasMade
  <1>1. RowInv => FulfilledTypeWasMade
    BY DEF RowInv
  <1> QED BY <1>1, RowInvariant, PTL

\* Only the overlap of two workers' read-modify-writes undoes a fulfilled
\* line item: no insert, restart, failure or single worker does.
THEOREM RegressionOnlyByOverlap == Spec => RegressionNeedsOverlap
  <1> DEFINE Regression ==
        \A i \in Items : itemRow[i] = "Fulfilled" /\ itemRow'[i] # "Fulfilled" =>
          \E w \in Workers :
             /\ wpc[w] = "loaded" /\ wpc'[w] # "loaded"
             /\ OrderOf[wmsg[w][1]] = OrderOf[i]
             /\ \E j \in Lines(OrderOf[i]) : wcopy[w].items[j] # itemRow[j]
  <1>1. TypeInv /\ PlaceInv /\ RowInv /\ [Next]_vars => [Regression]_vars
    <2> SUFFICES ASSUME TypeInv, PlaceInv, RowInv, Next,
                        NEW i \in Items, itemRow[i] = "Fulfilled", itemRow'[i] # "Fulfilled"
                 PROVE  \E w \in Workers :
                           /\ wpc[w] = "loaded" /\ wpc'[w] # "loaded"
                           /\ OrderOf[wmsg[w][1]] = OrderOf[i]
                           /\ \E j \in Lines(OrderOf[i]) : wcopy[w].items[j] # itemRow[j]
      OBVIOUS
    <2>1. ~ UNCHANGED itemRow
      OBVIOUS
    <2>2. ~ \E o \in Orders : PlaceStep(o)
      <3> SUFFICES ASSUME NEW o \in Orders, PlaceStep(o) PROVE FALSE
        OBVIOUS
      <3>1. place[o] = "create" /\ InsertRows(o)
        BY <2>1 DEF PlaceStep, PlaceOrder, Lookup, LookupFails, CreateOrder, CreateRefused,
                    CreateFails, Publish, PublishRefused, PublishFails, Reply, rowVars
      <3>2. OrderOf[i] = o
        BY <3>1 DEF InsertRows
      <3>3. itemRow[i] = None
        BY <3>1, <3>2 DEF PlaceInv, Unplaced, TypeInv, RowsTogether
      <3> QED BY <3>3, MsgFacts DEF Status
    <2>3. ~(Crash \/ ChannelCloses \/ StationNext)
      BY <2>1 DEF Crash, Restart, ChannelCloses, StationNext, Declare, Bind, EmitUpdate,
                  EmitForeign, Enqueue, rowVars
    <2>4. PICK w \in Workers : WorkerStep(w)
      BY <2>2, <2>3 DEF Next, CounterNext
    <2>5. /\ wpc[w] = "loaded" /\ UNCHANGED emitted
          /\ wpc' = [wpc EXCEPT ![w] = "ack"] \/ wpc' = [wpc EXCEPT ![w] = "reject"]
          /\ \E j \in Matches(wcopy[w], wmsg[w][1]) :
                 WriteRows(OrderOf[wmsg[w][1]], Apply(wcopy[w], j))
      BY <2>1, <2>4 DEF WorkerStep, Take, SkipUnsupported, GetByID, Update, NoConnection,
                        HandleFails, PanicOnMalformed, Restart, Settle, rowVars, brokerVars
    <2>6. wpc'[w] # "loaded"
      BY <2>5 DEF TypeInv, TypeOK
    <2>7. OrderOf[wmsg[w][1]] = OrderOf[i] /\ wcopy[w].items[i] # itemRow[i]
      BY <2>5, RowWrite
    <2> QED BY <2>5, <2>6, <2>7, LinesFacts
  <1> QED
    BY <1>1, TypeInvariant, PlaceInvariant, RowInvariant, PTL DEF Spec, RegressionNeedsOverlap
=============================================================================
