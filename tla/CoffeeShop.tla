----------------------------- MODULE CoffeeShop -----------------------------
(***************************************************************************)
(* The order workflow end to end: the counter, the barista and the kitchen *)
(* composed over RabbitMQ.  The counter's publishes fill the stations'     *)
(* queues (sent); the stations' publishes fill counter-order-queue         *)
(* (emitted, queue).  Each service keeps its own process, worker pool,     *)
(* tables and faults; nothing else is shared.                              *)
(***************************************************************************)
EXTENDS Naturals, Sequences, FiniteSets, Publisher

CONSTANTS
    Orders, Items, OrderOf, TypeOf, StationOf, Request, Menu,
    CounterWorkers, StationWorkers, Prefetch, MaxConn, MaxEmit,
    CounterBudget, BaristaBudget, KitchenBudget,
    StationPub,    \* per station, the publisher inside its event handler
    Zero, None

VARIABLES
    place, next, orderRow, itemRow, openTx, route, sent, dropped, emitted,
    queue, stuck, consuming, wpc, wmsg, wcopy, faults,
    counterRoute, \* the exchange the counter's consumer binds its queue to
    bSettled, bStuck, bConsuming, bPc, bMsg, bRows, bLeaked, bLocked, bUnrouted, bRefused, bFaults,
    kSettled, kStuck, kConsuming, kPc, kMsg, kRows, kLeaked, kLocked, kUnrouted, kRefused, kFaults

counterOnly == <<place, next, orderRow, itemRow, openTx, route, dropped, stuck,
                 consuming, wpc, wmsg, wcopy, faults>>
baristaVars == <<bSettled, bStuck, bConsuming, bPc, bMsg, bRows, bLeaked, bLocked,
                 bUnrouted, bRefused, bFaults>>
kitchenVars == <<kSettled, kStuck, kConsuming, kPc, kMsg, kRows, kLeaked, kLocked,
                 kUnrouted, kRefused, kFaults>>
vars == <<counterOnly, sent, emitted, queue, counterRoute, baristaVars, kitchenVars>>

MadeBy(s) == {i \in Items : StationOf[i] = s}

\* The publisher's exchange and key are the ones the counter binds.
Reaches(pub) ==
    /\ pub.exchange = "counter-order-exchange"
    /\ Route(pub, Bindings) = "bound"

C == INSTANCE Counter WITH
    Workers <- CounterWorkers, Budget <- CounterBudget,
    BoundAtStart <- {"barista", "kitchen"}, Unsupported <- {}, Malformed <- {}

B == INSTANCE Station WITH
    Items <- MadeBy("barista"), Malformed <- {}, Unsupported <- {},
    Workers <- StationWorkers, Budget <- BaristaBudget, MaxFaults <- 1,
    Addressed <- Reaches(StationPub["barista"]), BoundAtStart <- TRUE,
    sent <- sent \cap MadeBy("barista"), announced <- emitted, route <- counterRoute,
    settled <- bSettled, stuck <- bStuck, consuming <- bConsuming, pc <- bPc,
    msg <- bMsg, rows <- bRows, leaked <- bLeaked, locked <- bLocked,
    unrouted <- bUnrouted, refused <- bRefused, faults <- bFaults

K == INSTANCE Station WITH
    Items <- MadeBy("kitchen"), Malformed <- {}, Unsupported <- {},
    Workers <- StationWorkers, Budget <- KitchenBudget, MaxFaults <- 1,
    Addressed <- Reaches(StationPub["kitchen"]), BoundAtStart <- TRUE,
    sent <- sent \cap MadeBy("kitchen"), announced <- emitted, route <- counterRoute,
    settled <- kSettled, stuck <- kStuck, consuming <- kConsuming, pc <- kPc,
    msg <- kMsg, rows <- kRows, leaked <- kLeaked, locked <- kLocked,
    unrouted <- kUnrouted, refused <- kRefused, faults <- kFaults

ASSUME ShopAssumption ==
    /\ OrderOf \in [Items -> Orders] /\ StationOf \in [Items -> {"barista", "kitchen"}]
    /\ \A o \in Orders :
         /\ Request[o].barista \in Seq({i \in C!Lines(o) : StationOf[i] = "barista"})
         /\ Request[o].kitchen \in Seq({i \in C!Lines(o) : StationOf[i] = "kitchen"})
         /\ \A i \in C!Lines(o) : \E n \in C!Positions(o) : C!LineItems(o)[n] = i
         /\ \A m, n \in C!Positions(o) : C!LineItems(o)[m] = C!LineItems(o)[n] => m = n
    /\ Zero \notin Items /\ None \notin Items \cup C!Updates \cup C!Status
    /\ Prefetch \in Nat \ {0} /\ MaxConn \in Nat \ {0} /\ MaxEmit \in Nat \ {0}
    /\ CounterBudget \in [C!FaultKinds -> Nat]
    /\ BaristaBudget \in [B!FaultKinds -> Nat] /\ KitchenBudget \in [K!FaultKinds -> Nat]
    /\ IsFiniteSet(CounterWorkers) /\ IsFiniteSet(StationWorkers)

Init ==
    /\ C!Init
    /\ counterRoute = "bound"
    /\ bSettled = {} /\ bStuck = {} /\ bConsuming = TRUE
    /\ bPc = [w \in StationWorkers |-> "idle"] /\ bMsg = [w \in StationWorkers |-> None]
    /\ bRows = {} /\ bLeaked = 0 /\ bLocked = {} /\ bUnrouted = {} /\ bRefused = {}
    /\ bFaults = [f \in B!FaultKinds |-> 0]
    /\ kSettled = {} /\ kStuck = {} /\ kConsuming = TRUE
    /\ kPc = [w \in StationWorkers |-> "idle"] /\ kMsg = [w \in StationWorkers |-> None]
    /\ kRows = {} /\ kLeaked = 0 /\ kLocked = {} /\ kUnrouted = {} /\ kRefused = {}
    /\ kFaults = [f \in K!FaultKinds |-> 0]

CounterStep ==
    /\ C!CounterNext
    /\ UNCHANGED <<counterRoute, baristaVars, kitchenVars>>

\* What a station puts on counter-order-queue is ready to be consumed.
Forward == queue' = queue \cup (emitted' \ emitted)

BaristaStep ==
    /\ UNCHANGED <<counterOnly, sent, kitchenVars>>
    /\ B!StationNext
    /\ Forward

KitchenStep ==
    /\ UNCHANGED <<counterOnly, sent, baristaVars>>
    /\ K!StationNext
    /\ Forward

Next == CounterStep \/ BaristaStep \/ KitchenStep

Spec == Init /\ [][Next]_vars

\* The fairness of each service: its goroutines run and its calls return.
Fairness ==
    /\ \A o \in Orders :
         WF_vars(place[o] # "idle" /\ C!PlaceStep(o)
                 /\ UNCHANGED <<counterRoute, baristaVars, kitchenVars>>)
    /\ \A w \in CounterWorkers :
         WF_vars(C!WorkerStep(w) /\ UNCHANGED <<counterRoute, baristaVars, kitchenVars>>)
    /\ \A w \in StationWorkers :
         /\ WF_vars(UNCHANGED <<counterOnly, sent, kitchenVars>> /\ B!WorkerStep(w) /\ Forward)
         /\ WF_vars(UNCHANGED <<counterOnly, sent, baristaVars>> /\ K!WorkerStep(w) /\ Forward)

FairSpec == Spec /\ Fairness

-----------------------------------------------------------------------------
StationRows == bRows \cup kRows
InStationTx == {bMsg[w] : w \in B!InTx} \cup {kMsg[w] : w \in K!InTx}

\* The counter shows an item as fulfilled ahead of the station's own record
\* only while the station's transaction is open, unless at some time that
\* station crashed or met an error of its database or of a publish: each can
\* end a handler between its publish and its commit.
FulfilledHasStationRow ==
    \A i \in Items : itemRow[i] = "Fulfilled" /\ C!DistinctTypes(OrderOf[i]) =>
        \/ i \in StationRows \cup InStationTx
        \/ LET f == IF StationOf[i] = "barista" THEN bFaults ELSE kFaults
           IN  \E kind \in {"db", "publish", "crash"} : f[kind] > 0

\* The stations' real workers do nothing the counter's environment does not
\* allow them: the composition is a behaviour of Counter on its own.
CounterSpec == C!Spec

\* The barista and kitchen workers consume their queues, persist their
\* results and emit fulfillment events back to the counter.
StationsAnswer ==
    \A i \in Items : i \in sent ~> i \in StationRows /\ \E k \in 1 .. MaxEmit : <<i, k>> \in emitted

\* Items a station rejected: the broker forgot them and there is no row.
Rejected == (bSettled \cup kSettled) \ StationRows

\* No service on the way of item i has lost its consumer's channel.
Consumed(i) == consuming /\ IF StationOf[i] = "barista" THEN bConsuming ELSE kConsuming

\* No item of an accepted order is left hanging: in the end the counter shows
\* it as fulfilled or its station has rejected it, through crashes and
\* ambiguous confirms of every service, unless a consumer's channel closed,
\* the counter met a database error, or two of its workers overlapped on the
\* order.
AcceptedItemsEnd ==
    \A o \in Orders : [](~C!Overlap(o) /\ faults["db"] = 0) =>
        \A i \in C!Lines(o) :
            place[o] = "ok" /\ C!DistinctTypes(o)
                ~> itemRow[i] = "Fulfilled" \/ i \in Rejected \/ ~Consumed(i)
=============================================================================
