------------------------------ MODULE Counter ------------------------------
(***************************************************************************)
(* The counter service: the PlaceOrder gRPC handler (product lookup, order *)
(* transaction, one confirmed publish per line item), the pool of worker   *)
(* goroutines that consume counter-order-queue and fold the stations'      *)
(* updates into the order rows, and what PostgreSQL and RabbitMQ do for    *)
(* them.  Every network or database call is a step of its own; what a      *)
(* handler computes in memory between two calls belongs to the next step.  *)
(*                                                                         *)
(* A line item is its ItemLineID.  A message of counter-order-queue is an  *)
(* update <<i, k>> (the k-th time the station announced item i) or a       *)
(* foreign message: Unsupported ones carry a Type the worker's switch does *)
(* not know, Malformed ones a body json.Unmarshal rejects.                 *)
(***************************************************************************)
EXTENDS Naturals, Sequences, FiniteSets

CONSTANTS
    Orders,        \* one PlaceOrder call each; the order's uuid
    Items,         \* line items of all orders
    OrderOf,       \* the order a line item belongs to
    TypeOf,        \* its ItemType
    StationOf,     \* "barista" or "kitchen": which list of the request it is in
    Request,       \* per order, the line items of the two lists of the request
    Menu,          \* item types the product service knows
    Workers,       \* worker goroutines (24 in the code)
    Prefetch,      \* unacknowledged deliveries allowed on the channel (5)
    MaxConn,       \* connections PostgreSQL grants the service
    MaxEmit,       \* bound: announcements of one item
    Unsupported,   \* bound: messages of a type the worker does not know
    Malformed,     \* bound: messages whose body does not unmarshal
    BoundAtStart,  \* stations whose queue exists before the first order
    Budget,        \* bound: how often each kind of fault happens
    None           \* no row, no delivery

Stations   == {"barista", "kitchen"}
FaultKinds == {"product", "db", "publish", "crash", "channel"}

\* The order's line items, barista list first: the order in which
\* CreateOrderFrom records their events.
LineItems(o) == Request[o].barista \o Request[o].kitchen
Lines(o)     == {i \in Items : OrderOf[i] = o}
Positions(o) == 1 .. Len(LineItems(o))

Updates == Items \X (1 .. MaxEmit)
Foreign == Unsupported \cup Malformed
Msgs    == Updates \cup Foreign
Status  == {"InProcess", "Fulfilled"}

ASSUME OrderAssumption ==
    /\ OrderOf \in [Items -> Orders]
    /\ StationOf \in [Items -> Stations]
    /\ \A o \in Orders :
         /\ Request[o].barista \in Seq({i \in Lines(o) : StationOf[i] = "barista"})
         /\ Request[o].kitchen \in Seq({i \in Lines(o) : StationOf[i] = "kitchen"})
         /\ \A i \in Lines(o) : \E n \in Positions(o) : LineItems(o)[n] = i
         /\ \A m, n \in Positions(o) : LineItems(o)[m] = LineItems(o)[n] => m = n

ASSUME MessageAssumption ==
    /\ Updates \cap Foreign = {}
    /\ None \notin Msgs \cup Status
    /\ Unsupported \cap Malformed = {}

ASSUME BoundAssumption ==
    /\ Prefetch \in Nat \ {0} /\ MaxConn \in Nat \ {0} /\ MaxEmit \in Nat \ {0}
    /\ BoundAtStart \subseteq Stations
    /\ Budget \in [FaultKinds -> Nat]
    /\ IsFiniteSet(Workers)

VARIABLES
    place,      \* PlaceOrder handler of each order: program counter
    next,       \* index of the next domain event it publishes
    orderRow,   \* "order".orders: order_status, None while there is no row
    itemRow,    \* "order".line_items: item_status
    openTx,     \* transactions begun and never finished: their connections
    route,      \* per station: exchange absent, declared, or bound to its queue
    sent,       \* items whose event reached the station's queue
    dropped,    \* items whose event the broker confirmed but could not route
    emitted,    \* messages ever put on counter-order-queue
    queue,      \* messages ready on counter-order-queue
    stuck,      \* delivered, never acknowledged, no worker has them
    consuming,  \* the consumer's channel is open
    wpc,        \* worker goroutines: program counter
    wmsg,       \* the delivery each holds
    wcopy,      \* the order each has loaded
    faults      \* faults of each kind so far

placeVars  == <<place, next>>
rowVars    == <<orderRow, itemRow>>
brokerVars == <<route, sent, dropped, emitted>>
queueVars  == <<queue, stuck, consuming>>
workerVars == <<wpc, wmsg, wcopy>>
vars == <<place, next, orderRow, itemRow, openTx, route, sent, dropped, emitted,
          queue, stuck, consuming, wpc, wmsg, wcopy, faults>>

-----------------------------------------------------------------------------
NoCopy == [order |-> None, items |-> <<>>]
Copies == {NoCopy} \cup UNION {[order : Status, items : [Lines(o) -> Status]] : o \in Orders}

Init ==
    /\ place = [o \in Orders |-> "idle"]
    /\ next = [o \in Orders |-> 1]
    /\ orderRow = [o \in Orders |-> None]
    /\ itemRow = [i \in Items |-> None]
    /\ openTx = 0
    /\ route = [s \in Stations |-> IF s \in BoundAtStart THEN "bound" ELSE "absent"]
    /\ sent = {} /\ dropped = {} /\ emitted = {}
    /\ queue = {} /\ stuck = {} /\ consuming = TRUE
    /\ wpc = [w \in Workers |-> "idle"]
    /\ wmsg = [w \in Workers |-> None]
    /\ wcopy = [w \in Workers |-> NoCopy]
    /\ faults = [f \in FaultKinds |-> 0]

\* One more fault of kind f happens in this step.
Fault(f) ==
    /\ faults[f] < Budget[f]
    /\ faults' = [faults EXCEPT ![f] = @ + 1]

-----------------------------------------------------------------------------
(* PlaceOrder.                                                             *)

\* The request arrives; an unparsable loyalty id ends it with no effect.
PlaceOrder(o) ==
    /\ place[o] = "idle"
    /\ place' = [place EXCEPT ![o] = "lookup"]
    /\ UNCHANGED <<next, rowVars, openTx, brokerVars, queueVars, workerVars, faults>>

\* The product service prices the request.  It dereferences a missing menu
\* entry, so a type off the menu fails the call like an unreachable service.
Lookup(o) ==
    /\ place[o] = "lookup"
    /\ \A i \in Lines(o) : TypeOf[i] \in Menu
    /\ place' = [place EXCEPT ![o] = "create"]
    /\ UNCHANGED <<next, rowVars, openTx, brokerVars, queueVars, workerVars, faults>>

LookupFails(o) ==
    /\ place[o] = "lookup"
    /\ \/ Fault("product")
       \/ (\E i \in Lines(o) : TypeOf[i] \notin Menu) /\ UNCHANGED faults
    /\ place' = [place EXCEPT ![o] = "error"]
    /\ UNCHANGED <<next, rowVars, openTx, brokerVars, queueVars, workerVars>>

\* Mutant: the loop over the line items is lost.
InsertRows_NoItems(o) ==
    /\ orderRow' = [orderRow EXCEPT ![o] = "InProcess"]
    /\ UNCHANGED itemRow

\* The rows of the committed order transaction.
InsertRows(o) ==
    /\ orderRow' = [orderRow EXCEPT ![o] = "InProcess"]
    /\ itemRow' = [i \in Items |-> IF OrderOf[i] = o THEN "InProcess" ELSE itemRow[i]]

CreateOrder(o) ==
    /\ place[o] = "create"
    /\ openTx < MaxConn
    /\ InsertRows(o)
    /\ place' = [place EXCEPT ![o] = "publish"]
    /\ UNCHANGED <<next, openTx, brokerVars, queueVars, workerVars, faults>>

\* No connection: db.Begin fails and nothing was begun.
CreateRefused(o) ==
    /\ place[o] = "create"
    /\ openTx >= MaxConn
    /\ place' = [place EXCEPT ![o] = "error"]
    /\ UNCHANGED <<next, rowVars, openTx, brokerVars, queueVars, workerVars, faults>>

\* An insert fails: the transaction is neither committed nor rolled back.
\* Or the commit's answer is lost, after it took effect or before.
CreateFails(o) ==
    /\ place[o] = "create"
    /\ openTx < MaxConn
    /\ Fault("db")
    /\ \/ UNCHANGED rowVars /\ openTx' = openTx + 1
       \/ UNCHANGED rowVars /\ openTx' = openTx
       \/ InsertRows(o) /\ openTx' = openTx
    /\ place' = [place EXCEPT ![o] = "error"]
    /\ UNCHANGED <<next, brokerVars, queueVars, workerVars>>

\* The broker accepts the event: into the queue when the exchange is bound,
\* away when it is only declared (the publish is not mandatory).
Accept(i) ==
    \/ /\ route[StationOf[i]] = "bound"
       /\ sent' = sent \cup {i} /\ UNCHANGED dropped
    \/ /\ route[StationOf[i]] = "declared"
       /\ dropped' = dropped \cup {i} /\ UNCHANGED sent

\* One round of the publish loop: the broker confirms the event.
Publish(o) ==
    /\ place[o] = "publish"
    /\ next[o] <= Len(LineItems(o))
    /\ Accept(LineItems(o)[next[o]])
    /\ next' = [next EXCEPT ![o] = @ + 1]
    /\ UNCHANGED <<place, rowVars, openTx, route, emitted, queueVars, workerVars, faults>>

\* The exchange does not exist: the broker closes the channel.
PublishRefused(o) ==
    /\ place[o] = "publish"
    /\ next[o] <= Len(LineItems(o))
    /\ route[StationOf[LineItems(o)[next[o]]]] = "absent"
    /\ place' = [place EXCEPT ![o] = "error"]
    /\ UNCHANGED <<next, rowVars, openTx, brokerVars, queueVars, workerVars, faults>>

\* Mutant: the loop logs a failed publish and goes on with the next event.
PublishFails_Continues(o) ==
    /\ place[o] = "publish"
    /\ next[o] <= Len(LineItems(o))
    /\ Fault("publish")
    /\ next' = [next EXCEPT ![o] = @ + 1]
    /\ UNCHANGED <<place, rowVars, openTx, brokerVars, queueVars, workerVars>>

\* Nack, closed channel, cancelled context or the 5 s timeout: the handler
\* returns the error, and the broker may have taken the event all the same.
PublishFails(o) ==
    /\ place[o] = "publish"
    /\ next[o] <= Len(LineItems(o))
    /\ Fault("publish")
    /\ \/ Accept(LineItems(o)[next[o]])
       \/ UNCHANGED <<sent, dropped>>
    /\ place' = [place EXCEPT ![o] = "error"]
    /\ UNCHANGED <<next, rowVars, openTx, route, emitted, queueVars, workerVars>>

\* Mutant: the reply leaves before the last event.
Reply_Early(o) ==
    /\ place[o] = "publish"
    /\ next[o] >= Len(LineItems(o))
    /\ place' = [place EXCEPT ![o] = "ok"]
    /\ UNCHANGED <<next, rowVars, openTx, brokerVars, queueVars, workerVars, faults>>

\* Every event is out: the client gets an empty PlaceOrderResponse.
Reply(o) ==
    /\ place[o] = "publish"
    /\ next[o] > Len(LineItems(o))
    /\ place' = [place EXCEPT ![o] = "ok"]
    /\ UNCHANGED <<next, rowVars, openTx, brokerVars, queueVars, workerVars, faults>>

-----------------------------------------------------------------------------
(* Worker goroutines of the consumer.                                      *)

Held == {wmsg[w] : w \in Workers} \ {None}
Unacked == Held \cup stuck

\* Mutant: the prefetch window is one delivery smaller than configured.
Take_ShortWindow(w) ==
    /\ consuming
    /\ wpc[w] = "idle"
    /\ Cardinality(Unacked) + 1 < Prefetch
    /\ \E m \in queue :
         /\ queue' = queue \ {m}
         /\ wmsg' = [wmsg EXCEPT ![w] = m]
    /\ wpc' = [wpc EXCEPT ![w] = "taken"]
    /\ UNCHANGED <<placeVars, rowVars, openTx, brokerVars, stuck, consuming, wcopy, faults>>

\* The broker delivers a message and an idle goroutine receives it.
Take(w) ==
    /\ consuming
    /\ wpc[w] = "idle"
    /\ Cardinality(Unacked) < Prefetch
    /\ \E m \in queue :
         /\ queue' = queue \ {m}
         /\ wmsg' = [wmsg EXCEPT ![w] = m]
    /\ wpc' = [wpc EXCEPT ![w] = "taken"]
    /\ UNCHANGED <<placeVars, rowVars, openTx, brokerVars, stuck, consuming, wcopy, faults>>

\* The default branch of the switch: a warning, neither Ack nor Reject.
SkipUnsupported(w) ==
    /\ wpc[w] = "taken" /\ wmsg[w] \in Unsupported
    /\ stuck' = IF consuming THEN stuck \cup {wmsg[w]} ELSE stuck
    /\ wmsg' = [wmsg EXCEPT ![w] = None]
    /\ wpc' = [wpc EXCEPT ![w] = "idle"]
    /\ UNCHANGED <<placeVars, rowVars, openTx, brokerVars, queue, consuming, wcopy, faults>>

\* The single SELECT of GetByID: a consistent view of the order's rows.
Snapshot(o) == [order |-> orderRow[o], items |-> [i \in Lines(o) |-> itemRow[i]]]

GetByID(w) ==
    /\ wpc[w] = "taken" /\ wmsg[w] \in Updates
    /\ openTx < MaxConn
    /\ orderRow[OrderOf[wmsg[w][1]]] # None
    /\ wcopy' = [wcopy EXCEPT ![w] = Snapshot(OrderOf[wmsg[w][1]])]
    /\ wpc' = [wpc EXCEPT ![w] = "loaded"]
    /\ UNCHANGED <<placeVars, rowVars, openTx, brokerVars, queueVars, wmsg, faults>>

\* Mutant: the item types are not compared.
Matches_AnyType(copy, i) == DOMAIN copy.items

\* The line items Order.Apply may find first: it compares item types, and
\* the SELECT has no ORDER BY.
Matches(copy, i) == {j \in DOMAIN copy.items : TypeOf[j] = TypeOf[i]}

\* Mutant: one fulfilled line item is enough to fulfil the order.
Apply_AnyFulfilled(copy, j) ==
    [order |-> "Fulfilled", items |-> [copy.items EXCEPT ![j] = "Fulfilled"]]

\* Mutant: the other line items are built anew, in process.
Apply_ResetsOthers(copy, j) ==
    [order |-> copy.order,
     items |-> [k \in DOMAIN copy.items |-> IF k = j THEN "Fulfilled" ELSE "InProcess"]]

\* Order.Apply on line item j, with checkFulfilledStatus.
Apply(copy, j) ==
    LET items == [copy.items EXCEPT ![j] = "Fulfilled"]
    IN  [order |-> IF \A k \in DOMAIN items : items[k] = "Fulfilled"
                   THEN "Fulfilled" ELSE copy.order,
         items |-> items]

\* The committed Update transaction: the status of the order and of every
\* line item of the copy.  UpdateOrder comes first, so its row lock makes
\* two updates of one order follow each other.
WriteRows(o, copy) ==
    /\ orderRow' = [orderRow EXCEPT ![o] = copy.order]
    /\ itemRow' = [i \in Items |->
                     IF i \in DOMAIN copy.items THEN copy.items[i] ELSE itemRow[i]]

\* Mutant: the handler returns before it saves the order.
Update_NotSaved(w) ==
    /\ wpc[w] = "loaded"
    /\ openTx < MaxConn
    /\ wpc' = [wpc EXCEPT ![w] = "ack"]
    /\ UNCHANGED <<placeVars, rowVars, openTx, brokerVars, queueVars, wmsg, wcopy, faults>>

Update(w) ==
    /\ wpc[w] = "loaded"
    /\ openTx < MaxConn
    /\ \E j \in Matches(wcopy[w], wmsg[w][1]) :
         WriteRows(OrderOf[wmsg[w][1]], Apply(wcopy[w], j))
    /\ wpc' = [wpc EXCEPT ![w] = "ack"]
    /\ UNCHANGED <<placeVars, openTx, brokerVars, queueVars, wmsg, wcopy, faults>>

\* GetByID or db.Begin gets no connection.
NoConnection(w) ==
    /\ wpc[w] \in {"taken", "loaded"} /\ wmsg[w] \notin Unsupported
    /\ openTx >= MaxConn
    /\ wpc' = [wpc EXCEPT ![w] = "reject"]
    /\ UNCHANGED <<placeVars, rowVars, openTx, brokerVars, queueVars, wmsg, wcopy, faults>>

\* The query fails; or an UPDATE does, and the transaction stays open; or
\* the commit's answer is lost, after it took effect or before.
HandleFails(w) ==
    /\ wmsg[w] \notin Unsupported
    /\ openTx < MaxConn
    /\ Fault("db")
    /\ \/ wpc[w] \in {"taken", "loaded"} /\ UNCHANGED <<rowVars, openTx>>
       \/ wpc[w] = "loaded" /\ openTx' = openTx + 1 /\ UNCHANGED rowVars
       \/ /\ wpc[w] = "loaded" /\ UNCHANGED openTx
          /\ \E j \in Matches(wcopy[w], wmsg[w][1]) :
               WriteRows(OrderOf[wmsg[w][1]], Apply(wcopy[w], j))
    /\ wpc' = [wpc EXCEPT ![w] = "reject"]
    /\ UNCHANGED <<placeVars, brokerVars, queueVars, wmsg, wcopy>>

\* Mutant: the error branch logs and forgets to reject the delivery.
Settle_NoReject(w) ==
    /\ wpc[w] \in {"ack", "reject"}
    /\ stuck' = IF wpc[w] = "reject" /\ consuming THEN stuck \cup {wmsg[w]} ELSE stuck
    /\ wpc' = [wpc EXCEPT ![w] = "idle"]
    /\ wmsg' = [wmsg EXCEPT ![w] = None]
    /\ wcopy' = [wcopy EXCEPT ![w] = NoCopy]
    /\ UNCHANGED <<placeVars, rowVars, openTx, brokerVars, queue, consuming, faults>>

\* Ack(false) or Reject(false): either way the broker forgets the message
\* (there is no dead-letter exchange).  On a closed channel it is a logged
\* error, and the message is already back in the queue.
Settle(w) ==
    /\ wpc[w] \in {"ack", "reject"}
    /\ wpc' = [wpc EXCEPT ![w] = "idle"]
    /\ wmsg' = [wmsg EXCEPT ![w] = None]
    /\ wcopy' = [wcopy EXCEPT ![w] = NoCopy]
    /\ UNCHANGED <<placeVars, rowVars, openTx, brokerVars, queueVars, faults>>

-----------------------------------------------------------------------------
(* The process and its channel.                                            *)

\* The process dies and Kubernetes starts it again: calls in flight end,
\* transactions roll back, deliveries return to the queue.
Restart ==
    /\ place' = [o \in Orders |-> IF place[o] \in {"lookup", "create", "publish"}
                                  THEN "error" ELSE place[o]]
    /\ openTx' = 0
    /\ queue' = queue \cup Unacked
    /\ stuck' = {}
    /\ consuming' = TRUE
    /\ wpc' = [w \in Workers |-> "idle"]
    /\ wmsg' = [w \in Workers |-> None]
    /\ wcopy' = [w \in Workers |-> NoCopy]
    /\ UNCHANGED <<next, rowVars, brokerVars>>

Crash == Fault("crash") /\ Restart

\* A malformed body leaves a zero OrderID; GetByID returns a nil order for
\* it and Order.Apply dereferences that: the panic ends the process.
PanicOnMalformed(w) ==
    /\ wpc[w] = "taken" /\ wmsg[w] \in Malformed
    /\ openTx < MaxConn
    /\ Restart
    /\ UNCHANGED faults

\* The channel closes under the consumer.  StartConsumer then waits for ever
\* on a channel nobody sends to, so nothing consumes until a restart.
ChannelCloses ==
    /\ consuming
    /\ Fault("channel")
    /\ queue' = queue \cup Unacked
    /\ stuck' = {}
    /\ consuming' = FALSE
    /\ UNCHANGED <<placeVars, rowVars, openTx, brokerVars, workerVars>>

-----------------------------------------------------------------------------
(* The stations, as the counter sees them.                                 *)

\* Station s declares its exchange, then binds its queue (createChannel).
Declare(s) ==
    /\ route[s] = "absent"
    /\ route' = [route EXCEPT ![s] = "declared"]
    /\ UNCHANGED <<placeVars, rowVars, openTx, sent, dropped, emitted, queueVars,
                   workerVars, faults>>

Bind(s) ==
    /\ route[s] = "declared"
    /\ route' = [route EXCEPT ![s] = "bound"]
    /\ UNCHANGED <<placeVars, rowVars, openTx, sent, dropped, emitted, queueVars,
                   workerVars, faults>>

\* A message appears on counter-order-queue.
Enqueue(m) ==
    /\ m \notin emitted
    /\ emitted' = emitted \cup {m}
    /\ queue' = queue \cup {m}
    /\ UNCHANGED <<placeVars, rowVars, openTx, route, sent, dropped, stuck,
                   consuming, workerVars, faults>>

\* A station announces an item it was sent, once for every time it handled
\* the delivery as far as the publish.
EmitUpdate(i, k) ==
    /\ i \in sent
    /\ \A n \in 1 .. MaxEmit : n < k => <<i, n>> \in emitted
    /\ Enqueue(<<i, k>>)

EmitForeign(m) == m \in Foreign /\ Enqueue(m)

-----------------------------------------------------------------------------
PlaceStep(o) ==
    \/ PlaceOrder(o) \/ Lookup(o) \/ LookupFails(o)
    \/ CreateOrder(o) \/ CreateRefused(o) \/ CreateFails(o)
    \/ Publish(o) \/ PublishRefused(o) \/ PublishFails(o) \/ Reply(o)

WorkerStep(w) ==
    \/ Take(w) \/ SkipUnsupported(w) \/ GetByID(w) \/ Update(w)
    \/ NoConnection(w) \/ HandleFails(w) \/ PanicOnMalformed(w) \/ Settle(w)

CounterNext ==
    \/ \E o \in Orders : PlaceStep(o)
    \/ \E w \in Workers : WorkerStep(w)
    \/ Crash \/ ChannelCloses

StationNext ==
    \/ \E s \in Stations : Declare(s) \/ Bind(s)
    \/ \E i \in Items, k \in 1 .. MaxEmit : EmitUpdate(i, k)
    \/ \E m \in Foreign : EmitForeign(m)

Next == CounterNext \/ StationNext

Spec == Init /\ [][Next]_vars

\* Goroutines run, the broker delivers and the product service, PostgreSQL
\* and RabbitMQ answer within their timeouts; stations never promise anything.
Fairness ==
    /\ \A o \in Orders : WF_vars(PlaceStep(o) /\ place[o] # "idle")
    /\ \A w \in Workers : WF_vars(WorkerStep(w))

FairSpec == Spec /\ Fairness

-----------------------------------------------------------------------------
(* What a caller of GetListOrderFulfillment gets.                          *)

\* GetAll scans a LEFT JOIN into plain integers and strings, so the NULLs of
\* an order without line items fail the whole query.
GetAllSucceeds == \A o \in Orders : orderRow[o] # None => Lines(o) # {}

-----------------------------------------------------------------------------
(* Properties.                                                             *)

TypeOK ==
    /\ place \in [Orders -> {"idle", "lookup", "create", "publish", "ok", "error"}]
    /\ next \in [Orders -> Nat \ {0}]
    /\ orderRow \in [Orders -> Status \cup {None}]
    /\ itemRow \in [Items -> Status \cup {None}]
    /\ openTx \in 0 .. MaxConn
    /\ route \in [Stations -> {"absent", "declared", "bound"}]
    /\ sent \subseteq Items /\ dropped \subseteq Items
    /\ emitted \subseteq Msgs /\ queue \subseteq emitted
    /\ stuck \subseteq Unsupported
    /\ consuming \in BOOLEAN
    /\ wpc \in [Workers -> {"idle", "taken", "loaded", "ack", "reject"}]
    /\ wmsg \in [Workers -> emitted \cup {None}]
    /\ wcopy \in [Workers -> Copies]
    /\ faults \in [FaultKinds -> Nat]

\* Whatever a station announces, the counter finds the order and the line
\* item it is about: the order transaction commits before the first event
\* leaves, and a failed one publishes nothing.  Were it otherwise GetByID
\* would return a nil order and the worker would take the process down.
UpdateFindsItsOrder ==
    \A m \in emitted \cap Updates :
        /\ orderRow[OrderOf[m[1]]] # None
        /\ itemRow[m[1]] # None

\* A PlaceOrder call that returns without error has stored its order, and
\* every one of its events was confirmed: it is in its station's queue, or
\* was published before that queue was bound.
AcceptedOrderPublished ==
    \A o \in Orders : place[o] = "ok" =>
        /\ orderRow[o] # None
        /\ Lines(o) \subseteq sent \cup dropped

\* Events leave in order, barista items before kitchen items, and none
\* leaves after one that failed: what is out is a prefix of the line items,
\* whatever failed, timed out or crashed.
PublishedIsPrefix ==
    \A o \in Orders : \A m, n \in Positions(o) :
        /\ m < n
        /\ LineItems(o)[n] \in sent \cup dropped
        => LineItems(o)[m] \in sent \cup dropped

\* The order's status and its line items' statuses never contradict each
\* other, however the workers' reads and writes interleave.
RowsAgree ==
    \A o \in Orders : orderRow[o] # None /\ Lines(o) # {} =>
        (orderRow[o] = "Fulfilled" <=> \A i \in Lines(o) : itemRow[i] = "Fulfilled")

\* A line item is shown as fulfilled only after a station announced an item
\* of that type of that order (Order.Apply matches types, not ItemLineIDs).
FulfilledTypeWasMade ==
    \A i \in Items : itemRow[i] = "Fulfilled" =>
        \E m \in emitted \cap Updates :
            OrderOf[m[1]] = OrderOf[i] /\ TypeOf[m[1]] = TypeOf[i]

\* A fulfilled line item goes back to in-process only in one way: a worker
\* writes the copy it loaded before another worker's write of that order.
RegressionNeedsOverlap ==
    [][\A i \in Items : itemRow[i] = "Fulfilled" /\ itemRow'[i] # "Fulfilled" =>
          \E w \in Workers :
             /\ wpc[w] = "loaded" /\ wpc'[w] # "loaded"
             /\ OrderOf[wmsg[w][1]] = OrderOf[i]
             /\ \E j \in Lines(OrderOf[i]) : wcopy[w].items[j] # itemRow[j]]_vars

\* GetListOrderFulfillment lists the orders on the server: it does not fail
\* because of an order the counter itself accepted.
ListsOrderFulfillment == GetAllSucceeds

\* The deliveries no worker will ever settle fill the prefetch window.
WindowFull == Cardinality(stuck) >= Prefetch

\* What stops the consumer: its channel is closed, the window is full of
\* unsupported messages, or a malformed body takes the process down again
\* and again.
Stopped == ~consuming \/ WindowFull \/ emitted \cap Malformed # {}

\* Every update that reaches the queue is acknowledged or rejected: up to the
\* last free place of the prefetch window the unsupported messages do not
\* keep it waiting, and with none left they do, like a closed channel.
EveryUpdateSettles ==
    \A m \in Updates : m \in queue ~> m \notin queue \cup Unacked \/ Stopped

\* Some worker holds an outdated copy of the order.
Overlap(o) ==
    \E w \in Workers :
        /\ wpc[w] = "loaded" /\ OrderOf[wmsg[w][1]] = o
        /\ \E i \in Lines(o) : wcopy[w].items[i] # itemRow[i]

DistinctTypes(o) == \A i, j \in Lines(o) : TypeOf[i] = TypeOf[j] => i = j

\* Once all items of an order were announced, the order is shown as
\* fulfilled, unless two workers' read-modify-writes of it overlapped, two of
\* its line items have the same type, an update was lost to a database error
\* or for want of a connection, or the consumer stopped.
FulfilledUnlessOverlap ==
    \A o \in Orders :
        [](~Overlap(o) /\ faults["db"] = 0) =>
            ((/\ Lines(o) # {} /\ DistinctTypes(o)
              /\ \A i \in Lines(o) : \E k \in 1 .. MaxEmit : <<i, k>> \in emitted)
                ~> orderRow[o] = "Fulfilled" \/ Stopped)
=============================================================================
