-------------------------- MODULE CoffeeShop_proofs --------------------------
(***************************************************************************)
(* Proofs about the composed order workflow, for every set of orders,      *)
(* items and workers, every publisher and every bound: the services are    *)
(* what the counter assumes of its stations, and what the counter shows is *)
(* accounted for by the stations.  The lemmas of the counter's and the     *)
(* station's own proofs are used through their instances.                  *)
(***************************************************************************)
EXTENDS CoffeeShop, TLAPS

CP == INSTANCE Counter_proofs WITH
    Workers <- CounterWorkers, Budget <- CounterBudget,
    BoundAtStart <- {"barista", "kitchen"}, Unsupported <- {}, Malformed <- {}

BP == INSTANCE Station_proofs WITH
    Items <- MadeBy("barista"), Malformed <- {}, Unsupported <- {},
    Workers <- StationWorkers, Budget <- BaristaBudget, MaxFaults <- 1,
    Addressed <- Reaches(StationPub["barista"]), BoundAtStart <- TRUE,
    sent <- sent \cap MadeBy("barista"), announced <- emitted, route <- counterRoute,
    settled <- bSettled, stuck <- bStuck, consuming <- bConsuming, pc <- bPc,
    msg <- bMsg, rows <- bRows, leaked <- bLeaked, locked <- bLocked,
    unrouted <- bUnrouted, refused <- bRefused, faults <- bFaults

KP == INSTANCE Station_proofs WITH
    Items <- MadeBy("kitchen"), Malformed <- {}, Unsupported <- {},
    Workers <- StationWorkers, Budget <- KitchenBudget, MaxFaults <- 1,
    Addressed <- Reaches(StationPub["kitchen"]), BoundAtStart <- TRUE,
    sent <- sent \cap MadeBy("kitchen"), announced <- emitted, route <- counterRoute,
    settled <- kSettled, stuck <- kStuck, consuming <- kConsuming, pc <- kPc,
    msg <- kMsg, rows <- kRows, leaked <- kLeaked, locked <- kLocked,
    unrouted <- kUnrouted, refused <- kRefused, faults <- kFaults

-----------------------------------------------------------------------------
(* The assumptions of the parts follow from those of the shop, and their   *)
(* proofs are about the same actions.                                      *)

LEMMA BaristaAssumed ==
    /\ Zero \notin BP!Msgs /\ None \notin BP!Msgs
    /\ MadeBy("barista") \cap ({} \cup {}) = {} /\ {} \cap {} = {}
    /\ Prefetch \in Nat \ {0} /\ MaxConn \in Nat \ {0} /\ MaxEmit \in Nat \ {0}
    /\ Reaches(StationPub["barista"]) \in BOOLEAN /\ TRUE \in BOOLEAN
    /\ BaristaBudget \in [BP!FaultKinds -> Nat] /\ 1 \in Nat
    /\ BP!IsFiniteSet(StationWorkers)
  <1>1. Zero \notin BP!Msgs /\ None \notin BP!Msgs
    BY ShopAssumption DEF BP!Msgs, MadeBy
  <1>2. Reaches(StationPub["barista"]) \in BOOLEAN
    BY DEF Reaches
  <1>3. BaristaBudget \in [BP!FaultKinds -> Nat]
    BY ShopAssumption DEF BP!FaultKinds, B!FaultKinds
  <1>4. BP!IsFiniteSet(StationWorkers)
    BY ShopAssumption DEF IsFiniteSet, BP!IsFiniteSet
  <1> QED BY <1>1, <1>2, <1>3, <1>4, ShopAssumption

LEMMA KitchenAssumed ==
    /\ Zero \notin KP!Msgs /\ None \notin KP!Msgs
    /\ MadeBy("kitchen") \cap ({} \cup {}) = {} /\ {} \cap {} = {}
    /\ Prefetch \in Nat \ {0} /\ MaxConn \in Nat \ {0} /\ MaxEmit \in Nat \ {0}
    /\ Reaches(StationPub["kitchen"]) \in BOOLEAN /\ TRUE \in BOOLEAN
    /\ KitchenBudget \in [KP!FaultKinds -> Nat] /\ 1 \in Nat
    /\ KP!IsFiniteSet(StationWorkers)
  <1>1. Zero \notin KP!Msgs /\ None \notin KP!Msgs
    BY ShopAssumption DEF KP!Msgs, MadeBy
  <1>2. Reaches(StationPub["kitchen"]) \in BOOLEAN
    BY DEF Reaches
  <1>3. KitchenBudget \in [KP!FaultKinds -> Nat]
    BY ShopAssumption DEF KP!FaultKinds, K!FaultKinds
  <1>4. KP!IsFiniteSet(StationWorkers)
    BY ShopAssumption DEF IsFiniteSet, KP!IsFiniteSet
  <1> QED BY <1>1, <1>2, <1>3, <1>4, ShopAssumption

LEMMA CounterAssumed ==
    /\ /\ OrderOf \in [Items -> Orders]
       /\ StationOf \in [Items -> CP!Stations]
       /\ \A o \in Orders :
            /\ Request[o].barista \in Seq({i \in CP!Lines(o) : StationOf[i] = "barista"})
            /\ Request[o].kitchen \in Seq({i \in CP!Lines(o) : StationOf[i] = "kitchen"})
            /\ \A i \in CP!Lines(o) : \E n \in CP!Positions(o) : CP!LineItems(o)[n] = i
            /\ \A m, n \in CP!Positions(o) : CP!LineItems(o)[m] = CP!LineItems(o)[n] => m = n
    /\ /\ CP!Updates \cap CP!Foreign = {}
       /\ None \notin CP!Msgs \cup CP!Status
       /\ {} \cap {} = {}
    /\ /\ Prefetch \in Nat \ {0} /\ MaxConn \in Nat \ {0} /\ MaxEmit \in Nat \ {0}
       /\ {"barista", "kitchen"} \subseteq CP!Stations
       /\ CounterBudget \in [CP!FaultKinds -> Nat]
       /\ CP!IsFiniteSet(CounterWorkers)
  <1>1. \A o \in Orders :
            /\ Request[o].barista \in Seq({i \in CP!Lines(o) : StationOf[i] = "barista"})
            /\ Request[o].kitchen \in Seq({i \in CP!Lines(o) : StationOf[i] = "kitchen"})
            /\ \A i \in CP!Lines(o) : \E n \in CP!Positions(o) : CP!LineItems(o)[n] = i
            /\ \A m, n \in CP!Positions(o) : CP!LineItems(o)[m] = CP!LineItems(o)[n] => m = n
    BY ShopAssumption
    DEF C!Lines, CP!Lines, C!LineItems, CP!LineItems, C!Positions, CP!Positions
  <1>2. /\ Prefetch \in Nat \ {0} /\ MaxConn \in Nat \ {0} /\ MaxEmit \in Nat \ {0}
        /\ OrderOf \in [Items -> Orders]
    BY ShopAssumption
  <1>3. /\ StationOf \in [Items -> CP!Stations]
        /\ {"barista", "kitchen"} \subseteq CP!Stations
    BY ShopAssumption DEF CP!Stations
  <1>4. /\ CP!Updates \cap CP!Foreign = {}
        /\ None \notin CP!Msgs \cup CP!Status
    BY ShopAssumption
    DEF CP!Updates, CP!Foreign, CP!Msgs, CP!Status, C!Updates, C!Status
  <1>5. CounterBudget \in [CP!FaultKinds -> Nat]
    BY ShopAssumption DEF CP!FaultKinds, C!FaultKinds
  <1>6. CP!IsFiniteSet(CounterWorkers)
    BY ShopAssumption DEF IsFiniteSet, CP!IsFiniteSet
  <1> QED BY <1>1, <1>2, <1>3, <1>4, <1>5, <1>6

LEMMA BaristaIsStation == B!StationNext => BP!StationNext
  BY DEF B!StationNext, B!WorkerStep, B!Take, B!SkipUnsupported, B!Insert, B!InsertWaits, B!InsertDuplicate,
         B!NoConnection, B!InsertFails, B!Publish, B!PublishRefused, B!PublishFails, B!Commit,
         B!CommitFails, B!Settle, B!Crash, B!ChannelCloses, B!Fault, B!FaultKinds, B!Held,
         B!Unacked, B!Ready, B!Msgs, B!Key, B!InTx, B!Waiting, B!Begins, B!LockedKeys, B!Connected, B!Abandon,
         B!Accept, B!brokerVars, B!dbVars, B!outVars, B!Cardinality, BP!StationNext,
         BP!WorkerStep, BP!Take, BP!SkipUnsupported, BP!Insert, BP!InsertWaits, BP!InsertDuplicate,
         BP!NoConnection, BP!InsertFails, BP!Publish, BP!PublishRefused, BP!PublishFails,
         BP!Commit, BP!CommitFails, BP!Settle, BP!Crash, BP!ChannelCloses, BP!Fault,
         BP!FaultKinds, BP!Held, BP!Unacked, BP!Ready, BP!Msgs, BP!Key, BP!InTx, BP!Waiting, BP!Begins,
         BP!LockedKeys, BP!Connected, BP!Abandon, BP!Accept, BP!brokerVars, BP!dbVars,
         BP!outVars, BP!Cardinality

LEMMA KitchenIsStation == K!StationNext => KP!StationNext
  BY DEF K!StationNext, K!WorkerStep, K!Take, K!SkipUnsupported, K!Insert, K!InsertWaits, K!InsertDuplicate,
         K!NoConnection, K!InsertFails, K!Publish, K!PublishRefused, K!PublishFails, K!Commit,
         K!CommitFails, K!Settle, K!Crash, K!ChannelCloses, K!Fault, K!FaultKinds, K!Held,
         K!Unacked, K!Ready, K!Msgs, K!Key, K!InTx, K!Waiting, K!Begins, K!LockedKeys, K!Connected, K!Abandon,
         K!Accept, K!brokerVars, K!dbVars, K!outVars, K!Cardinality, KP!StationNext,
         KP!WorkerStep, KP!Take, KP!SkipUnsupported, KP!Insert, KP!InsertWaits, KP!InsertDuplicate,
         KP!NoConnection, KP!InsertFails, KP!Publish, KP!PublishRefused, KP!PublishFails,
         KP!Commit, KP!CommitFails, KP!Settle, KP!Crash, KP!ChannelCloses, KP!Fault,
         KP!FaultKinds, KP!Held, KP!Unacked, KP!Ready, KP!Msgs, KP!Key, KP!InTx, KP!Waiting, KP!Begins,
         KP!LockedKeys, KP!Connected, KP!Abandon, KP!Accept, KP!brokerVars, KP!dbVars,
         KP!outVars, KP!Cardinality

LEMMA CounterSame ==
    /\ C!Init <=> CP!Init
    /\ C!Next <=> CP!Next
    /\ UNCHANGED C!vars <=> UNCHANGED CP!vars
  <1>1. C!Init <=> CP!Init
    BY DEF C!Init, C!Stations, C!NoCopy, C!FaultKinds, CP!Init, CP!Stations, CP!NoCopy,
           CP!FaultKinds
  <1>2. C!Next <=> CP!Next
    BY DEF C!Next, C!CounterNext, C!StationNext, C!PlaceStep, C!PlaceOrder, C!Lookup,
           C!LookupFails, C!CreateOrder, C!CreateRefused, C!CreateFails, C!Publish,
           C!PublishRefused, C!PublishFails, C!Reply, C!WorkerStep, C!Take, C!SkipUnsupported,
           C!GetByID, C!Update, C!NoConnection, C!HandleFails, C!PanicOnMalformed, C!Settle,
           C!Crash, C!Restart, C!ChannelCloses, C!Declare, C!Bind, C!EmitUpdate,
           C!EmitForeign, C!Enqueue, C!InsertRows, C!Accept, C!Fault, C!Held, C!Unacked,
           C!Snapshot, C!Matches, C!Apply, C!WriteRows, C!LineItems, C!Lines, C!Updates,
           C!Foreign, C!Stations, C!NoCopy, C!placeVars, C!rowVars, C!brokerVars, C!queueVars,
           C!workerVars, C!Cardinality, CP!Next, CP!CounterNext, CP!StationNext, CP!PlaceStep,
           CP!PlaceOrder, CP!Lookup, CP!LookupFails, CP!CreateOrder, CP!CreateRefused,
           CP!CreateFails, CP!Publish, CP!PublishRefused, CP!PublishFails, CP!Reply,
           CP!WorkerStep, CP!Take, CP!SkipUnsupported, CP!GetByID, CP!Update, CP!NoConnection,
           CP!HandleFails, CP!PanicOnMalformed, CP!Settle, CP!Crash, CP!Restart,
           CP!ChannelCloses, CP!Declare, CP!Bind, CP!EmitUpdate, CP!EmitForeign, CP!Enqueue,
           CP!InsertRows, CP!Accept, CP!Fault, CP!Held, CP!Unacked, CP!Snapshot, CP!Matches,
           CP!Apply, CP!WriteRows, CP!LineItems, CP!Lines, CP!Updates, CP!Foreign,
           CP!Stations, CP!NoCopy, CP!placeVars, CP!rowVars, CP!brokerVars, CP!queueVars,
           CP!workerVars, CP!Cardinality
  <1>3. UNCHANGED C!vars <=> UNCHANGED CP!vars
    BY DEF C!vars, CP!vars
  <1> QED BY <1>1, <1>2, <1>3

-----------------------------------------------------------------------------
(* The inductive invariant: each station's goroutines hold what the counter *)
(* sent it, and each station accounts for its own announcements.           *)

BaristaAccounts ==
    \A i \in MadeBy("barista"), k \in 1 .. MaxEmit : <<i, k>> \in emitted => BP!Accounted(i)
KitchenAccounts ==
    \A i \in MadeBy("kitchen"), k \in 1 .. MaxEmit : <<i, k>> \in emitted => KP!Accounted(i)

Inv == BP!Own /\ KP!Own /\ BaristaAccounts /\ KitchenAccounts

\* A step of the barista puts nothing on counter-order-queue, or one more update
\* of an item that the counter has sent it, in turn; and the barista accounts
\* for whatever it announced.
LEMMA BaristaAnnounces ==
    ASSUME BP!Own, BaristaStep
    PROVE  /\ BP!Own'
           /\ \A i : BP!Accounted(i) => BP!Accounted(i)'
           /\ \/ UNCHANGED emitted
              \/ \E i \in sent \cap MadeBy("barista"), k \in 1 .. MaxEmit :
                   /\ <<i, k>> \notin emitted
                   /\ \A n \in 1 .. MaxEmit : n < k => <<i, n>> \in emitted
                   /\ emitted' = emitted \cup {<<i, k>>}
                   /\ BP!Accounted(i)'
  <1>1. BP!StationNext
    BY BaristaIsStation DEF BaristaStep
  <1>2. BP!Own'
    BY <1>1, BP!OwnStep, BaristaAssumed
  <1>3. ASSUME NEW i, BP!Accounted(i) PROVE BP!Accounted(i)'
    BY <1>1, <1>3, BP!AccountedStays, BaristaAssumed
  <1>4. UNCHANGED emitted \/ BP!AnnouncesOwn
    BY <1>1, BP!AnnouncedIsOwn, BaristaAssumed
  <1>5. CASE BP!AnnouncesOwn
    BY <1>2, <1>3, <1>5 DEF BP!AnnouncesOwn, BP!Key
  <1> QED BY <1>2, <1>3, <1>4, <1>5

\* A step of the kitchen puts nothing on counter-order-queue, or one more update
\* of an item that the counter has sent it, in turn; and the kitchen accounts
\* for whatever it announced.
LEMMA KitchenAnnounces ==
    ASSUME KP!Own, KitchenStep
    PROVE  /\ KP!Own'
           /\ \A i : KP!Accounted(i) => KP!Accounted(i)'
           /\ \/ UNCHANGED emitted
              \/ \E i \in sent \cap MadeBy("kitchen"), k \in 1 .. MaxEmit :
                   /\ <<i, k>> \notin emitted
                   /\ \A n \in 1 .. MaxEmit : n < k => <<i, n>> \in emitted
                   /\ emitted' = emitted \cup {<<i, k>>}
                   /\ KP!Accounted(i)'
  <1>1. KP!StationNext
    BY KitchenIsStation DEF KitchenStep
  <1>2. KP!Own'
    BY <1>1, KP!OwnStep, KitchenAssumed
  <1>3. ASSUME NEW i, KP!Accounted(i) PROVE KP!Accounted(i)'
    BY <1>1, <1>3, KP!AccountedStays, KitchenAssumed
  <1>4. UNCHANGED emitted \/ KP!AnnouncesOwn
    BY <1>1, KP!AnnouncedIsOwn, KitchenAssumed
  <1>5. CASE KP!AnnouncesOwn
    BY <1>2, <1>3, <1>5 DEF KP!AnnouncesOwn, KP!Key
  <1> QED BY <1>2, <1>3, <1>4, <1>5

LEMMA BaristaUntouched ==
    ASSUME BP!Own, UNCHANGED baristaVars, sent \subseteq sent'
    PROVE  BP!Own' /\ \A i : BP!Accounted(i) => BP!Accounted(i)'
  <1> USE DEF baristaVars
  <1>1. BP!Own'
    BY DEF BP!Own, BP!BusyHolds
  <1>2. ASSUME NEW i, BP!Accounted(i) PROVE BP!Accounted(i)'
    BY <1>2 DEF BP!Accounted, BP!Faulted, BP!LossyKinds
  <1> QED BY <1>1, <1>2

LEMMA KitchenUntouched ==
    ASSUME KP!Own, UNCHANGED kitchenVars, sent \subseteq sent'
    PROVE  KP!Own' /\ \A i : KP!Accounted(i) => KP!Accounted(i)'
  <1> USE DEF kitchenVars
  <1>1. KP!Own'
    BY DEF KP!Own, KP!BusyHolds
  <1>2. ASSUME NEW i, KP!Accounted(i) PROVE KP!Accounted(i)'
    BY <1>2 DEF KP!Accounted, KP!Faulted, KP!LossyKinds
  <1> QED BY <1>1, <1>2

\* The counter only ever adds to what it sent, and announces nothing itself.
LEMMA CounterSends ==
    ASSUME CounterStep
    PROVE  sent \subseteq sent' /\ emitted' = emitted
  BY DEF CounterStep, C!CounterNext, C!PlaceStep, C!PlaceOrder, C!Lookup, C!LookupFails,
         C!CreateOrder, C!CreateRefused, C!CreateFails, C!Publish, C!PublishRefused,
         C!PublishFails, C!Reply, C!WorkerStep, C!Take, C!SkipUnsupported, C!GetByID,
         C!Update, C!NoConnection, C!HandleFails, C!PanicOnMalformed, C!Settle, C!Crash,
         C!Restart, C!ChannelCloses, C!Accept, C!brokerVars

LEMMA InitInv == Init => Inv
  <1> SUFFICES ASSUME Init PROVE Inv
    OBVIOUS
  <1>1. emitted = {}
    BY DEF Init, C!Init
  <1>2. BP!Own
    BY DEF Init, BP!Own, BP!BusyHolds, BP!FaultKinds, B!FaultKinds
  <1>3. KP!Own
    BY DEF Init, KP!Own, KP!BusyHolds, KP!FaultKinds, K!FaultKinds
  <1> QED BY <1>1, <1>2, <1>3 DEF Inv, BaristaAccounts, KitchenAccounts

LEMMA NextInv == Inv /\ [Next]_vars => Inv'
  <1> SUFFICES ASSUME Inv, [Next]_vars PROVE Inv'
    OBVIOUS
  <1>1. ASSUME UNCHANGED <<baristaVars, kitchenVars>>, sent \subseteq sent', emitted' = emitted
        PROVE  Inv'
    BY <1>1, BaristaUntouched, KitchenUntouched DEF Inv, BaristaAccounts, KitchenAccounts
  <1>2. CASE CounterStep
    BY <1>1, <1>2, CounterSends DEF CounterStep
  <1>3. CASE UNCHANGED vars
    BY <1>1, <1>3 DEF vars
  <1>4. CASE BaristaStep
    <2>1. UNCHANGED kitchenVars /\ sent' = sent
      BY <1>4 DEF BaristaStep
    <2>2. KP!Own' /\ \A i : KP!Accounted(i) => KP!Accounted(i)'
      BY <2>1, KitchenUntouched DEF Inv
    <2>3. BP!Own' /\ \A i : BP!Accounted(i) => BP!Accounted(i)'
      BY <1>4, BaristaAnnounces DEF Inv
    <2>4. CASE UNCHANGED emitted
      BY <2>2, <2>3, <2>4 DEF Inv, BaristaAccounts, KitchenAccounts
    <2>5. CASE \E i \in MadeBy("barista"), k \in 1 .. MaxEmit :
                 emitted' = emitted \cup {<<i, k>>} /\ BP!Accounted(i)'
      <3>1. PICK i \in MadeBy("barista"), k \in 1 .. MaxEmit :
                 emitted' = emitted \cup {<<i, k>>} /\ BP!Accounted(i)'
        BY <2>5
      <3>2. i \notin MadeBy("kitchen")
        BY DEF MadeBy
      <3>3. BaristaAccounts'
        BY <2>3, <3>1 DEF Inv, BaristaAccounts
      <3>4. KitchenAccounts'
        BY <2>2, <3>1, <3>2 DEF Inv, KitchenAccounts
      <3> QED BY <2>2, <2>3, <3>3, <3>4 DEF Inv
    <2> QED BY <1>4, <2>4, <2>5, BaristaAnnounces DEF Inv
  <1>5. CASE KitchenStep
    <2>1. UNCHANGED baristaVars /\ sent' = sent
      BY <1>5 DEF KitchenStep
    <2>2. BP!Own' /\ \A i : BP!Accounted(i) => BP!Accounted(i)'
      BY <2>1, BaristaUntouched DEF Inv
    <2>3. KP!Own' /\ \A i : KP!Accounted(i) => KP!Accounted(i)'
      BY <1>5, KitchenAnnounces DEF Inv
    <2>4. CASE UNCHANGED emitted
      BY <2>2, <2>3, <2>4 DEF Inv, BaristaAccounts, KitchenAccounts
    <2>5. CASE \E i \in MadeBy("kitchen"), k \in 1 .. MaxEmit :
                 emitted' = emitted \cup {<<i, k>>} /\ KP!Accounted(i)'
      <3>1. PICK i \in MadeBy("kitchen"), k \in 1 .. MaxEmit :
                 emitted' = emitted \cup {<<i, k>>} /\ KP!Accounted(i)'
        BY <2>5
      <3>2. i \notin MadeBy("barista")
        BY DEF MadeBy
      <3>3. KitchenAccounts'
        BY <2>3, <3>1 DEF Inv, KitchenAccounts
      <3>4. BaristaAccounts'
        BY <2>2, <3>1, <3>2 DEF Inv, BaristaAccounts
      <3> QED BY <2>2, <2>3, <3>3, <3>4 DEF Inv
    <2> QED BY <1>5, <2>4, <2>5, KitchenAnnounces DEF Inv
  <1> QED BY <1>2, <1>3, <1>4, <1>5 DEF Next

LEMMA Invariance == Spec => []Inv
  BY InitInv, NextInv, PTL DEF Spec

-----------------------------------------------------------------------------
(* The composition implements the counter's specification.                 *)

\* One more update of a sent item is what the counter expects of a station.
LEMMA UpdateIsEmitted ==
    ASSUME NEW i \in Items, NEW k \in 1 .. MaxEmit, i \in sent,
           UNCHANGED <<counterOnly, sent>>, Forward,
           <<i, k>> \notin emitted, emitted' = emitted \cup {<<i, k>>},
           \A n \in 1 .. MaxEmit : n < k => <<i, n>> \in emitted
    PROVE  C!Next
  <1>1. queue' = queue \cup {<<i, k>>}
    BY DEF Forward
  <1>2. C!EmitUpdate(i, k)
    BY <1>1 DEF C!EmitUpdate, C!Enqueue, C!placeVars, C!rowVars, C!workerVars, counterOnly
  <1> QED BY <1>2 DEF C!Next, C!StationNext

\* Anything else a station does is invisible to the counter.
LEMMA NothingEmitted ==
    ASSUME UNCHANGED <<counterOnly, sent>>, Forward, UNCHANGED emitted
    PROVE  UNCHANGED C!vars
  <1>1. queue' = queue
    BY DEF Forward
  <1> QED BY <1>1 DEF C!vars, counterOnly

LEMMA StepRefines == Inv /\ [Next]_vars => [C!Next]_(C!vars)
  <1> SUFFICES ASSUME Inv, [Next]_vars PROVE [C!Next]_(C!vars)
    OBVIOUS
  <1>1. CASE CounterStep
    BY <1>1 DEF CounterStep, C!Next
  <1>2. CASE BaristaStep
    <2>1. UNCHANGED <<counterOnly, sent>> /\ Forward
      BY <1>2 DEF BaristaStep
    <2> QED BY <1>2, <2>1, BaristaAnnounces, UpdateIsEmitted, NothingEmitted DEF Inv, MadeBy
  <1>3. CASE KitchenStep
    <2>1. UNCHANGED <<counterOnly, sent>> /\ Forward
      BY <1>3 DEF KitchenStep
    <2> QED BY <1>3, <2>1, KitchenAnnounces, UpdateIsEmitted, NothingEmitted DEF Inv, MadeBy
  <1>4. CASE UNCHANGED vars
    BY <1>4 DEF vars, counterOnly, C!vars
  <1> QED BY <1>1, <1>2, <1>3, <1>4 DEF Next

\* The barista and the kitchen, with their crashes, redeliveries and failed
\* transactions, do nothing that the counter's own specification does not
\* allow its stations: what is proved of the counter alone holds in the shop.
THEOREM ShopImplementsCounter == Spec => CounterSpec
  <1>1. Init => C!Init
    BY DEF Init
  <1> QED BY <1>1, StepRefines, Invariance, PTL DEF Spec, CounterSpec, C!Spec

-----------------------------------------------------------------------------
(* What the counter shows is accounted for by the stations.                *)

\* The counter's theorem, carried over by the refinement.
LEMMA ShownWasAnnounced == Spec => []CP!FulfilledTypeWasMade
  <1>1. Init => CP!Init
    BY CounterSame DEF Init
  <1>2. Inv /\ [Next]_vars => [CP!Next]_(CP!vars)
    BY StepRefines, CounterSame
  <1>3. CP!Spec => []CP!FulfilledTypeWasMade
    BY CP!FulfilledWasMade, CounterAssumed
  <1> QED BY <1>1, <1>2, <1>3, Invariance, PTL DEF Spec, CP!Spec

\* The counter runs ahead of a station's table by an open transaction at
\* most, unless that station ever crashed or met an error of its database or
\* of a publish: the update leaves a handler between its insert and its
\* commit, and no other.
THEOREM FulfilledIsAccounted == Spec => []FulfilledHasStationRow
  <1>1. Inv /\ CP!FulfilledTypeWasMade => FulfilledHasStationRow
    <2> SUFFICES ASSUME Inv, CP!FulfilledTypeWasMade, NEW i \in Items,
                        itemRow[i] = "Fulfilled", C!DistinctTypes(OrderOf[i])
                 PROVE  \/ i \in StationRows \cup InStationTx
                        \/ LET f == IF StationOf[i] = "barista" THEN bFaults ELSE kFaults
                           IN  \E kind \in {"db", "publish", "crash"} : f[kind] > 0
      BY DEF FulfilledHasStationRow
    <2>1. PICK m \in emitted \cap CP!Updates :
             OrderOf[m[1]] = OrderOf[i] /\ TypeOf[m[1]] = TypeOf[i]
      BY DEF CP!FulfilledTypeWasMade
    <2>2. PICK j \in Items, k \in 1 .. MaxEmit : m = <<j, k>>
      BY <2>1 DEF CP!Updates
    <2>3. j = i
      BY <2>1, <2>2 DEF C!DistinctTypes, C!Lines
    <2>4. <<i, k>> \in emitted
      BY <2>1, <2>2, <2>3
    <2>5. CASE StationOf[i] = "barista"
      <3>1. BP!Accounted(i)
        BY <2>4, <2>5 DEF Inv, BaristaAccounts, MadeBy
      <3>3. CASE BP!Faulted
        BY <2>5, <3>3 DEF BP!Faulted, BP!LossyKinds
      <3>4. CASE i \in bRows
        BY <3>4 DEF StationRows
      <3>5. CASE \E w \in StationWorkers : bPc[w] = "published" /\ BP!Key(bMsg[w]) = i
        BY <3>5 DEF InStationTx, B!InTx, B!Waiting, B!Begins, BP!Key
      <3> QED BY <3>1, <3>3, <3>4, <3>5 DEF BP!Accounted
    <2>6. CASE StationOf[i] = "kitchen"
      <3>1. KP!Accounted(i)
        BY <2>4, <2>6 DEF Inv, KitchenAccounts, MadeBy
      <3>3. CASE KP!Faulted
        BY <2>6, <3>3 DEF KP!Faulted, KP!LossyKinds
      <3>4. CASE i \in kRows
        BY <3>4 DEF StationRows
      <3>5. CASE \E w \in StationWorkers : kPc[w] = "published" /\ KP!Key(kMsg[w]) = i
        BY <3>5 DEF InStationTx, K!InTx, K!Waiting, K!Begins, KP!Key
      <3> QED BY <3>1, <3>3, <3>4, <3>5 DEF KP!Accounted
    <2> QED BY <2>5, <2>6, ShopAssumption
  <1> QED BY <1>1, Invariance, ShownWasAnnounced, PTL
=============================================================================
