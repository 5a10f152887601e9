--------------------------- MODULE Station_proofs ---------------------------
(***************************************************************************)
(* Proofs about a preparation station, for every set of messages, workers, *)
(* every prefetch and every bound.                                         *)
(***************************************************************************)
EXTENDS Station, TLAPS

-----------------------------------------------------------------------------
(* Facts about the constants.                                              *)

\* The row's key is an item, or the zero uuid of a body that did not unmarshal.
LEMMA KeyType ==
    ASSUME NEW m \in Msgs \ Unsupported
    PROVE  Key(m) \in Keys
  BY DEF Key, Keys, Msgs

LEMMA NoneIsNoMessage == None \notin Msgs /\ MaxEmit \in Nat \ {0}
  BY StationAssumption

LEMMA FaultType ==
    ASSUME NEW f \in FaultKinds, faults \in [FaultKinds -> Nat], Fault(f)
    PROVE  faults' \in [FaultKinds -> Nat]
  BY DEF Fault

LEMMA FaultKindsFacts ==
    "db" \in FaultKinds /\ "publish" \in FaultKinds /\ "crash" \in FaultKinds
      /\ "channel" \in FaultKinds
  BY DEF FaultKinds

\* A confirmed update leaves its first announcement, or the item unrouted.
LEMMA AcceptFacts ==
    ASSUME NEW i \in Keys, Accept(i),
           announced \subseteq Keys \X (1 .. MaxEmit), unrouted \subseteq Keys
    PROVE  /\ announced' \subseteq Keys \X (1 .. MaxEmit) /\ unrouted' \subseteq Keys
           /\ announced \subseteq announced' /\ unrouted \subseteq unrouted'
           /\ <<i, 1>> \in announced' \/ i \in unrouted'
           /\ \A j, k : <<j, k>> \in announced' \ announced => j = i
  <1>1. CASE UNCHANGED unrouted /\ \E k \in 1 .. MaxEmit :
               /\ \A n \in 1 .. MaxEmit : n < k => <<i, n>> \in announced
               /\ announced' = announced \cup {<<i, k>>}
    <2>1. PICK k \in 1 .. MaxEmit :
               /\ \A n \in 1 .. MaxEmit : n < k => <<i, n>> \in announced
               /\ announced' = announced \cup {<<i, k>>}
      BY <1>1
    <2>2. 1 \in 1 .. MaxEmit BY NoneIsNoMessage
    <2>3. <<i, 1>> \in announced'
      BY <2>1, <2>2, NoneIsNoMessage
    <2> QED BY <1>1, <2>1, <2>3
  <1>2. CASE unrouted' = unrouted \cup {i} /\ UNCHANGED announced
    BY <1>2
  <1> QED BY <1>1, <1>2 DEF Accept

-----------------------------------------------------------------------------
(* Type correctness.                                                       *)

\* The inductive strengthening: a busy goroutine holds a delivery, and past
\* the switch on its type it is one the handler knows.
BusyHolds ==
    \A w \in Workers :
        /\ pc[w] # "idle" => msg[w] # None
        /\ pc[w] \notin {"idle", "taken"} => msg[w] \notin Unsupported

TypeInv == TypeOK /\ BusyHolds

\* What a busy goroutine's delivery is.
LEMMA HeldMessage ==
    ASSUME TypeInv, NEW w \in Workers, pc[w] # "idle"
    PROVE  /\ msg[w] \in sent /\ msg[w] \in Msgs
           /\ msg[w] \notin Unsupported => Key(msg[w]) \in Keys
  BY KeyType DEF TypeInv, TypeOK, BusyHolds

LEMMA TypeWorkerStep ==
    ASSUME TypeInv, NEW w \in Workers, WorkerStep(w)
    PROVE  TypeInv'
  <1> USE NoneIsNoMessage, FaultKindsFacts DEF TypeInv, TypeOK, BusyHolds, brokerVars, dbVars, outVars
  <1>1. CASE Take(w)
    BY <1>1 DEF Take, Ready
  <1>2. CASE SkipUnsupported(w)
    BY <1>2 DEF SkipUnsupported
  <1>3. CASE Insert(w)
    BY <1>3 DEF Insert, Begins
  <1>w. CASE InsertWaits(w)
    BY <1>w DEF InsertWaits, Begins
  <1>4. CASE InsertDuplicate(w)
    BY <1>4 DEF InsertDuplicate, Abandon, Begins
  <1>5. CASE NoConnection(w)
    BY <1>5, HeldMessage DEF NoConnection
  <1>6. CASE InsertFails(w)
    <2>1. faults' \in [FaultKinds -> Nat] BY <1>6, FaultType DEF InsertFails
    <2> QED BY <1>6, <2>1 DEF InsertFails, Abandon, Begins
  <1>7. CASE Publish(w)
    <2>1. Key(msg[w]) \in Keys BY <1>7, HeldMessage DEF Publish
    <2>2. announced' \subseteq Keys \X (1 .. MaxEmit) /\ unrouted' \subseteq Keys
      BY <1>7, <2>1, AcceptFacts DEF Publish
    <2> QED BY <1>7, <2>2 DEF Publish
  <1>8. CASE PublishRefused(w)
    <2>1. Key(msg[w]) \in Keys BY <1>8, HeldMessage DEF PublishRefused
    <2> QED BY <1>8, <2>1 DEF PublishRefused, Abandon
  <1>9. CASE PublishFails(w)
    <2>1. Key(msg[w]) \in Keys BY <1>9, HeldMessage DEF PublishFails
    <2>2. announced' \subseteq Keys \X (1 .. MaxEmit) /\ unrouted' \subseteq Keys
      BY <1>9, <2>1, AcceptFacts DEF PublishFails
    <2>3. faults' \in [FaultKinds -> Nat] BY <1>9, FaultType DEF PublishFails
    <2> QED BY <1>9, <2>1, <2>2, <2>3 DEF PublishFails, Abandon
  <1>10. CASE Commit(w)
    <2>1. Key(msg[w]) \in Keys BY <1>10, HeldMessage DEF Commit
    <2> QED BY <1>10, <2>1 DEF Commit
  <1>11. CASE CommitFails(w)
    <2>1. Key(msg[w]) \in Keys BY <1>11, HeldMessage DEF CommitFails
    <2>2. faults' \in [FaultKinds -> Nat] BY <1>11, FaultType DEF CommitFails
    <2> QED BY <1>11, <2>1, <2>2 DEF CommitFails
  <1>12. CASE Settle(w)
    <2>1. msg[w] \in sent BY <1>12, HeldMessage DEF Settle
    <2> QED BY <1>12, <2>1 DEF Settle
  <1> QED
    BY <1>1, <1>2, <1>3, <1>w, <1>4, <1>5, <1>6, <1>7, <1>8, <1>9, <1>10, <1>11, <1>12
    DEF WorkerStep

LEMMA TypeOtherStep ==
    ASSUME TypeInv,
           Crash \/ ChannelCloses \/ CounterDeclares \/ CounterBinds
             \/ (\E m \in Msgs : Arrive(m)) \/ UNCHANGED vars
    PROVE  TypeInv'
  <1> USE NoneIsNoMessage, FaultKindsFacts DEF TypeInv, TypeOK, BusyHolds, brokerVars, dbVars, outVars
  <1>1. CASE Crash
    <2>1. faults' \in [FaultKinds -> Nat] BY <1>1, FaultType DEF Crash
    <2> QED BY <1>1, <2>1 DEF Crash
  <1>2. CASE ChannelCloses
    <2>1. faults' \in [FaultKinds -> Nat] BY <1>2, FaultType DEF ChannelCloses
    <2> QED BY <1>2, <2>1 DEF ChannelCloses
  <1>3. CASE CounterDeclares \/ CounterBinds
    BY <1>3 DEF CounterDeclares, CounterBinds
  <1>4. ASSUME NEW m \in Msgs, Arrive(m) PROVE TypeInv'
    BY <1>4 DEF Arrive
  <1>5. CASE UNCHANGED vars BY <1>5 DEF vars
  <1> QED BY <1>1, <1>2, <1>3, <1>4, <1>5

LEMMA TypeInit == Init => TypeInv
  BY DEF Init, TypeInv, TypeOK, BusyHolds

LEMMA TypeStep == TypeInv /\ [Next]_vars => TypeInv'
  BY TypeWorkerStep, TypeOtherStep DEF Next, StationNext

LEMMA TypeInvariant == Spec => []TypeInv
  BY TypeInit, TypeStep, PTL DEF Spec

\* Every variable keeps its type: a goroutine holds only messages that were
\* put on its queue, only unsupported ones are ever left unacknowledged with
\* no goroutine, and only known keys are written or announced.
THEOREM TypeCorrect == Spec => []TypeOK
  <1>1. TypeInv => TypeOK BY DEF TypeInv
  <1> QED BY <1>1, TypeInvariant, PTL

-----------------------------------------------------------------------------
(* The dual write: the update leaves before the row is committed.          *)

\* The inductive strengthening: whoever is about to commit was confirmed.
PublishedConfirmed ==
    \A w \in Workers : pc[w] = "published" =>
        <<Key(msg[w]), 1>> \in announced \/ Key(msg[w]) \in unrouted

DualInv == CommittedWasAnnounced /\ PublishedConfirmed

LEMMA DualStep == TypeInv /\ DualInv /\ [Next]_vars => DualInv'
  <1> SUFFICES ASSUME TypeInv, DualInv, [Next]_vars PROVE DualInv'
    OBVIOUS
  <1> USE DEF DualInv, CommittedWasAnnounced, PublishedConfirmed, brokerVars, dbVars, outVars
  <1>t. /\ pc \in [Workers -> {"idle", "taken", "waiting", "inserted", "published", "ack", "reject"}]
        /\ DOMAIN msg = Workers
        /\ announced \subseteq Keys \X (1 .. MaxEmit) /\ unrouted \subseteq Keys
    BY DEF TypeInv, TypeOK
  <1>1. ASSUME NEW w \in Workers, Publish(w) PROVE DualInv'
    <2>1. Key(msg[w]) \in Keys
      BY <1>1, HeldMessage DEF Publish, TypeInv, BusyHolds
    <2>2. /\ announced \subseteq announced' /\ unrouted \subseteq unrouted'
          /\ <<Key(msg[w]), 1>> \in announced' \/ Key(msg[w]) \in unrouted'
      BY <1>1, <1>t, <2>1, AcceptFacts DEF Publish
    <2> QED BY <1>1, <1>t, <2>2 DEF Publish
  <1>2. ASSUME NEW w \in Workers, PublishFails(w) PROVE DualInv'
    <2>1. Key(msg[w]) \in Keys
      BY <1>2, HeldMessage DEF PublishFails, TypeInv, BusyHolds
    <2>2. announced \subseteq announced' /\ unrouted \subseteq unrouted'
      BY <1>2, <1>t, <2>1, AcceptFacts DEF PublishFails
    <2> QED BY <1>2, <1>t, <2>2 DEF PublishFails, Abandon
  <1>3. ASSUME NEW w \in Workers, Commit(w) \/ CommitFails(w) PROVE DualInv'
    BY <1>3, <1>t DEF Commit, CommitFails
  <1>4. ASSUME NEW w \in Workers, Take(w) \/ SkipUnsupported(w) \/ Settle(w) PROVE DualInv'
    BY <1>4, <1>t DEF Take, SkipUnsupported, Settle
  <1>5. ASSUME NEW w \in Workers,
               \/ Insert(w) \/ InsertWaits(w) \/ InsertDuplicate(w) \/ NoConnection(w)
               \/ InsertFails(w) \/ PublishRefused(w)
        PROVE DualInv'
    BY <1>5, <1>t DEF Insert, InsertWaits, InsertDuplicate, NoConnection, InsertFails,
                      PublishRefused, Abandon, Begins
  <1>6. CASE Crash BY <1>6 DEF Crash
  <1>7. CASE ChannelCloses \/ CounterDeclares \/ CounterBinds \/ UNCHANGED vars
    BY <1>7 DEF ChannelCloses, CounterDeclares, CounterBinds, vars
  <1>8. ASSUME NEW m \in Msgs, Arrive(m) PROVE DualInv'
    BY <1>8 DEF Arrive
  <1> QED
    BY <1>1, <1>2, <1>3, <1>4, <1>5, <1>6, <1>7, <1>8 DEF Next, StationNext, WorkerStep

\* No row of barista_orders or kitchen_orders exists whose update the broker
\* did not confirm, whatever failed, crashed or was redelivered.
THEOREM CommittedAnnounced == Spec => []CommittedWasAnnounced
  <1>1. Init => DualInv
    BY DEF Init, DualInv, CommittedWasAnnounced, PublishedConfirmed
  <1>2. DualInv => CommittedWasAnnounced BY DEF DualInv
  <1> QED BY <1>1, <1>2, DualStep, TypeInvariant, PTL DEF Spec

-----------------------------------------------------------------------------
(* What leaves the queue.                                                  *)

NoErrors == faults["db"] + faults["publish"] = 0

\* The inductive strengthening: a handler that returned has its row, or its
\* error has a reason other than a fault.
ReturnedExplained ==
    \A w \in Workers :
        /\ pc[w] = "ack" => Key(msg[w]) \in rows
        /\ pc[w] = "reject" /\ NoErrors => Key(msg[w]) \in rows \cup refused

DropInv == DroppedOnlyAfterFailure /\ ReturnedExplained

\* Faults are only counted, never taken back.
LEMMA FaultCounted ==
    ASSUME NEW f \in {"db", "publish"}, faults \in [FaultKinds -> Nat], Fault(f)
    PROVE  ~NoErrors'
  BY DEF Fault, NoErrors, FaultKinds

LEMMA OtherFault ==
    ASSUME NEW f \in {"crash", "channel"}, faults \in [FaultKinds -> Nat], Fault(f)
    PROVE  NoErrors' => NoErrors
  BY DEF Fault, NoErrors, FaultKinds

LEMMA DropStep == TypeInv /\ DropInv /\ [Next]_vars => DropInv'
  <1> SUFFICES ASSUME TypeInv, DropInv, [Next]_vars PROVE DropInv'
    OBVIOUS
  <1>d. NoErrors => \A m \in settled \ Unsupported : Key(m) \in rows \cup refused
    BY DEF DropInv, DroppedOnlyAfterFailure, NoErrors
  <1>r. ReturnedExplained BY DEF DropInv
  <1>t. /\ pc \in [Workers -> {"idle", "taken", "waiting", "inserted", "published", "ack", "reject"}]
        /\ DOMAIN msg = Workers /\ faults \in [FaultKinds -> Nat]
    BY DEF TypeInv, TypeOK
  <1> SUFFICES /\ NoErrors' => \A m \in settled' \ Unsupported : Key(m) \in rows' \cup refused'
               /\ ReturnedExplained'
    BY DEF DropInv, DroppedOnlyAfterFailure, NoErrors
  <1> USE <1>d, <1>r, <1>t DEF ReturnedExplained, brokerVars, dbVars, outVars
  <1> DEFINE Explained ==
        /\ NoErrors' => \A m \in settled' \ Unsupported : Key(m) \in rows' \cup refused'
        /\ ReturnedExplained'
  <1>1. ASSUME NEW w \in Workers, Take(w) \/ SkipUnsupported(w) \/ Insert(w) \/ InsertWaits(w)
        PROVE Explained
    BY <1>1 DEF Take, SkipUnsupported, Insert, InsertWaits, Begins, NoErrors
  <1>2. ASSUME NEW w \in Workers, InsertDuplicate(w) PROVE Explained
    BY <1>2 DEF InsertDuplicate, Abandon, Begins, NoErrors
  <1>3. ASSUME NEW w \in Workers, NoConnection(w) \/ PublishRefused(w) PROVE Explained
    BY <1>3 DEF NoConnection, PublishRefused, Abandon, NoErrors
  <1>4. ASSUME NEW w \in Workers, InsertFails(w) \/ PublishFails(w) PROVE Explained
    <2>1. ~NoErrors' BY <1>4, FaultCounted DEF InsertFails, PublishFails
    <2> QED BY <1>4, <2>1 DEF InsertFails, PublishFails, Abandon, Begins
  <1>5. ASSUME NEW w \in Workers, Publish(w) PROVE Explained
    BY <1>5 DEF Publish, NoErrors
  <1>6. ASSUME NEW w \in Workers, Commit(w) PROVE Explained
    BY <1>6 DEF Commit, NoErrors
  <1>7. ASSUME NEW w \in Workers, CommitFails(w) PROVE Explained
    <2>1. ~NoErrors' BY <1>7, FaultCounted DEF CommitFails
    <2> QED BY <1>7, <2>1 DEF CommitFails
  <1>8. ASSUME NEW w \in Workers, Settle(w) PROVE Explained
    BY <1>8 DEF Settle, NoErrors
  <1>9. CASE Crash
    <2>1. NoErrors' => NoErrors BY <1>9, OtherFault DEF Crash
    <2> QED BY <1>9, <2>1 DEF Crash
  <1>10. CASE ChannelCloses
    <2>1. NoErrors' => NoErrors BY <1>10, OtherFault DEF ChannelCloses
    <2> QED BY <1>10, <2>1 DEF ChannelCloses
  <1>11. CASE CounterDeclares \/ CounterBinds \/ (\E m \in Msgs : Arrive(m)) \/ UNCHANGED vars
    BY <1>11 DEF CounterDeclares, CounterBinds, Arrive, vars, NoErrors
  <1> QED
    BY <1>1, <1>2, <1>3, <1>4, <1>5, <1>6, <1>7, <1>8, <1>9, <1>10, <1>11
    DEF Next, StationNext, WorkerStep

\* Crashes, closed channels and redeliveries lose no item by themselves, for
\* any number of workers: what the broker forgets is in the table or met an
\* error that the handler reported.
THEOREM DroppedAfterFailure == Spec => []DroppedOnlyAfterFailure
  <1>1. Init => DropInv
    BY DEF Init, DropInv, DroppedOnlyAfterFailure, ReturnedExplained
  <1>2. DropInv => DroppedOnlyAfterFailure BY DEF DropInv
  <1> QED BY <1>1, <1>2, DropStep, TypeInvariant, PTL DEF Spec

-----------------------------------------------------------------------------
(* A redelivery announces nothing again.                                   *)

\* The primary key: no two open transactions have inserted the same key, and
\* none of them a key that is committed.
TxInv ==
    \A w \in InTx :
        /\ Key(msg[w]) \notin rows
        /\ \A v \in InTx \ {w} : Key(msg[v]) # Key(msg[w])

LEMMA TxStep == TypeInv /\ TxInv /\ [Next]_vars => TxInv'
  <1> SUFFICES ASSUME TypeInv, TxInv, [Next]_vars PROVE TxInv'
    OBVIOUS
  <1>t. /\ pc \in [Workers -> {"idle", "taken", "waiting", "inserted", "published", "ack", "reject"}]
        /\ DOMAIN msg = Workers
    BY DEF TypeInv, TypeOK
  <1> USE <1>t DEF TxInv, InTx, brokerVars, dbVars, outVars
  <1>1. ASSUME NEW w \in Workers, Insert(w) PROVE TxInv'
    BY <1>1 DEF Insert, Begins, LockedKeys
  <1>2. ASSUME NEW w \in Workers, Take(w) \/ SkipUnsupported(w) \/ Settle(w) PROVE TxInv'
    BY <1>2 DEF Take, SkipUnsupported, Settle
  <1>3. ASSUME NEW w \in Workers,
               \/ InsertWaits(w) \/ InsertDuplicate(w) \/ NoConnection(w) \/ InsertFails(w)
               \/ PublishRefused(w)
        PROVE TxInv'
    BY <1>3 DEF InsertWaits, InsertDuplicate, NoConnection, InsertFails, PublishRefused,
                Abandon, Begins
  <1>4. ASSUME NEW w \in Workers, Publish(w) \/ PublishFails(w) PROVE TxInv'
    BY <1>4 DEF Publish, PublishFails, Abandon
  <1>5. ASSUME NEW w \in Workers, Commit(w) \/ CommitFails(w) PROVE TxInv'
    BY <1>5 DEF Commit, CommitFails
  <1>6. CASE Crash BY <1>6 DEF Crash
  <1>7. CASE ChannelCloses \/ CounterDeclares \/ CounterBinds
               \/ (\E m \in Msgs : Arrive(m)) \/ UNCHANGED vars
    BY <1>7 DEF ChannelCloses, CounterDeclares, CounterBinds, Arrive, vars
  <1> QED
    BY <1>1, <1>2, <1>3, <1>4, <1>5, <1>6, <1>7 DEF Next, StationNext, WorkerStep

LEMMA TxInvariant == Spec => []TxInv
  <1>1. Init => TxInv BY DEF Init, TxInv, InTx
  <1> QED BY <1>1, TxStep, TypeInvariant, PTL DEF Spec

\* Once an item's row is committed no further update of it is announced, for
\* any number of workers and redeliveries: the insert comes before the
\* publish and the primary key stops it.
THEOREM NoSecondAnnouncement == Spec => NoAnnouncementAfterCommit
  <1> DEFINE Quiet == \A i \in rows, k \in 1 .. MaxEmit :
                         <<i, k>> \in announced' => <<i, k>> \in announced
  <1>1. TypeInv /\ TxInv /\ [Next]_vars => Quiet
    <2> SUFFICES ASSUME TypeInv, TxInv, [Next]_vars PROVE Quiet
      OBVIOUS
    <2>1. ASSUME NEW w \in Workers, Publish(w) \/ PublishFails(w) PROVE Quiet
      <3>1. pc[w] = "inserted" BY <2>1 DEF Publish, PublishFails
      <3>2. Key(msg[w]) \in Keys
        BY <3>1, HeldMessage DEF TypeInv, BusyHolds
      <3>3. Key(msg[w]) \notin rows BY <3>1 DEF TxInv, InTx
      <3>4. CASE UNCHANGED announced BY <3>4
      <3>5. CASE Accept(Key(msg[w]))
        <4>1. \A j, k : <<j, k>> \in announced' \ announced => j = Key(msg[w])
          BY <3>2, <3>5, AcceptFacts DEF TypeInv, TypeOK
        <4> QED BY <3>3, <4>1
      <3> QED BY <2>1, <3>4, <3>5 DEF Publish, PublishFails
    <2>2. CASE UNCHANGED announced BY <2>2
    <2>3. \/ UNCHANGED announced
          \/ \E w \in Workers : Publish(w) \/ PublishFails(w)
      BY DEF Next, StationNext, WorkerStep, Take, SkipUnsupported, Insert, InsertWaits, InsertDuplicate,
             NoConnection, InsertFails, PublishRefused, Commit, CommitFails, Settle, Crash,
             ChannelCloses, CounterDeclares, CounterBinds, Arrive, outVars, vars
    <2> QED BY <2>1, <2>2, <2>3
  <1>2. TypeInv /\ TxInv /\ [Next]_vars => [Quiet]_vars
    BY <1>1
  <1> QED BY <1>2, TypeInvariant, TxInvariant, PTL DEF Spec, NoAnnouncementAfterCommit

-----------------------------------------------------------------------------
(* A station beside another one, announcing on the same queue: what holds  *)
(* of its own goroutines and rows, whoever else fills announced.           *)

Own ==
    /\ pc \in [Workers -> {"idle", "taken", "waiting", "inserted", "published", "ack", "reject"}]
    /\ msg \in [Workers -> (sent \cap Msgs) \cup {None}]
    /\ faults \in [FaultKinds -> Nat]
    /\ BusyHolds

\* Faults that can end a handler between its publish and its commit.
LossyKinds == {"db", "publish", "crash"}

Faulted == \E f \in LossyKinds : faults[f] > 0

\* The station's table accounts for an announced item: the row is there, its
\* transaction is about to commit, or the station failed.
Accounted(i) ==
    \/ i \in rows
    \/ \E w \in Workers : pc[w] = "published" /\ Key(msg[w]) = i
    \/ Faulted

\* One more announcement, of an item that the station was sent.
AnnouncesOwn ==
    \E m \in (sent \cap Msgs) \ Unsupported : \E k \in 1 .. MaxEmit :
        /\ <<Key(m), k>> \notin announced
        /\ \A n \in 1 .. MaxEmit : n < k => <<Key(m), n>> \in announced
        /\ announced' = announced \cup {<<Key(m), k>>}
        /\ Accounted(Key(m))'

LEMMA FaultShows ==
    ASSUME NEW f \in LossyKinds, faults \in [FaultKinds -> Nat], Fault(f)
    PROVE  Faulted'
  <1>1. faults'[f] = faults[f] + 1 /\ faults[f] \in Nat
    BY DEF Fault, LossyKinds, FaultKinds
  <1>2. faults'[f] > 0 BY <1>1
  <1> QED BY <1>2 DEF Faulted

LEMMA OwnWorkerStep ==
    ASSUME Own, NEW w \in Workers, WorkerStep(w)
    PROVE  Own' /\ sent' = sent
  <1> USE NoneIsNoMessage, FaultKindsFacts DEF Own, BusyHolds, brokerVars, dbVars, outVars
  <1>1. CASE Take(w)
    BY <1>1 DEF Take, Ready
  <1>2. CASE SkipUnsupported(w)
    BY <1>2 DEF SkipUnsupported
  <1>3. CASE Insert(w)
    BY <1>3 DEF Insert, Begins
  <1>w. CASE InsertWaits(w)
    BY <1>w DEF InsertWaits, Begins
  <1>4. CASE InsertDuplicate(w)
    BY <1>4 DEF InsertDuplicate, Abandon, Begins
  <1>5. CASE NoConnection(w)
    BY <1>5 DEF NoConnection
  <1>6. CASE InsertFails(w)
    <2>1. faults' \in [FaultKinds -> Nat] BY <1>6, FaultType DEF InsertFails
    <2> QED BY <1>6, <2>1 DEF InsertFails, Abandon, Begins
  <1>7. CASE Publish(w)
    BY <1>7 DEF Publish
  <1>8. CASE PublishRefused(w)
    BY <1>8 DEF PublishRefused, Abandon
  <1>9. CASE PublishFails(w)
    <2>1. faults' \in [FaultKinds -> Nat] BY <1>9, FaultType DEF PublishFails
    <2> QED BY <1>9, <2>1 DEF PublishFails, Abandon
  <1>10. CASE Commit(w)
    BY <1>10 DEF Commit
  <1>11. CASE CommitFails(w)
    <2>1. faults' \in [FaultKinds -> Nat] BY <1>11, FaultType DEF CommitFails
    <2> QED BY <1>11, <2>1 DEF CommitFails
  <1>12. CASE Settle(w)
    BY <1>12 DEF Settle
  <1> QED
    BY <1>1, <1>2, <1>3, <1>w, <1>4, <1>5, <1>6, <1>7, <1>8, <1>9, <1>10, <1>11, <1>12
    DEF WorkerStep

LEMMA OwnStep ==
    ASSUME Own, StationNext
    PROVE  Own' /\ sent' = sent
  <1> USE NoneIsNoMessage, FaultKindsFacts DEF Own, BusyHolds, brokerVars, dbVars, outVars
  <1>1. CASE Crash
    <2>1. faults' \in [FaultKinds -> Nat] BY <1>1, FaultType DEF Crash
    <2> QED BY <1>1, <2>1 DEF Crash
  <1>2. CASE ChannelCloses
    <2>1. faults' \in [FaultKinds -> Nat] BY <1>2, FaultType DEF ChannelCloses
    <2> QED BY <1>2, <2>1 DEF ChannelCloses
  <1> QED BY <1>1, <1>2, OwnWorkerStep DEF StationNext

\* What is accounted for stays so.
LEMMA AccountedStays ==
    ASSUME Own, StationNext, NEW i, Accounted(i)
    PROVE  Accounted(i)'
  <1>t. /\ pc \in [Workers -> {"idle", "taken", "waiting", "inserted", "published", "ack", "reject"}]
        /\ DOMAIN msg = Workers /\ faults \in [FaultKinds -> Nat]
    BY DEF Own
  <1> USE <1>t, FaultKindsFacts DEF brokerVars, dbVars, outVars
  <1>1. CASE \E f \in LossyKinds : Fault(f)
    BY <1>1, FaultShows DEF Accounted
  <1>c. CASE ChannelCloses
    <2>1. UNCHANGED <<pc, msg, rows>> BY <1>c DEF ChannelCloses
    <2>2. \A f \in LossyKinds : faults'[f] = faults[f]
      BY <1>c DEF ChannelCloses, Fault, LossyKinds, FaultKinds
    <2> QED BY <2>1, <2>2 DEF Accounted, Faulted
  <1>2. CASE UNCHANGED faults
    <2> USE <1>2
    <2>f. Faulted => Faulted' BY DEF Faulted
    <2>1. ASSUME NEW w \in Workers,
                 \/ Take(w) \/ SkipUnsupported(w) \/ Insert(w) \/ InsertWaits(w) \/ InsertDuplicate(w)
                 \/ NoConnection(w) \/ PublishRefused(w) \/ Settle(w)
          PROVE  Accounted(i)'
      <3>1. /\ rows' = rows
            /\ \A v \in Workers : pc[v] = "published" =>
                  pc'[v] = "published" /\ msg'[v] = msg[v]
        BY <2>1 DEF Take, SkipUnsupported, Insert, InsertWaits, InsertDuplicate, NoConnection,
                    PublishRefused, Settle, Abandon, Begins
      <3> QED BY <2>f, <3>1 DEF Accounted
    <2>2. ASSUME NEW w \in Workers, Publish(w) PROVE Accounted(i)'
      <3>1. /\ rows' = rows /\ msg' = msg
            /\ \A v \in Workers : pc[v] = "published" => pc'[v] = "published"
        BY <2>2 DEF Publish
      <3> QED BY <2>f, <3>1 DEF Accounted
    <2>3. ASSUME NEW w \in Workers, Commit(w) PROVE Accounted(i)'
      <3>1. /\ rows' = rows \cup {Key(msg[w])} /\ msg' = msg
            /\ \A v \in Workers \ {w} : pc'[v] = pc[v]
        BY <2>3 DEF Commit
      <3> QED BY <2>f, <3>1 DEF Accounted
    <2>4. \/ \E w \in Workers :
                \/ Take(w) \/ SkipUnsupported(w) \/ Insert(w) \/ InsertWaits(w)
                \/ InsertDuplicate(w) \/ NoConnection(w) \/ PublishRefused(w) \/ Settle(w)
                \/ Publish(w) \/ Commit(w)
          \/ ChannelCloses \/ \E f \in LossyKinds : Fault(f)
      BY DEF StationNext, WorkerStep, InsertFails, PublishFails, CommitFails, Crash, LossyKinds
    <2> QED BY <1>1, <1>c, <2>1, <2>2, <2>3, <2>4
  <1>3. UNCHANGED faults \/ ChannelCloses \/ \E f \in LossyKinds : Fault(f)
    BY DEF LossyKinds, StationNext, WorkerStep, Take, SkipUnsupported, Insert, InsertWaits, InsertDuplicate,
           NoConnection, InsertFails, Publish, PublishRefused, PublishFails, Commit, CommitFails,
           Settle, Crash
  <1> QED BY <1>1, <1>c, <1>2, <1>3

\* A station announces nothing but what it was sent, in turn, and accounts
\* for it.
LEMMA AnnouncedIsOwn ==
    ASSUME Own, StationNext
    PROVE  UNCHANGED announced \/ AnnouncesOwn
  <1>1. \/ UNCHANGED announced
        \/ \E w \in Workers : (Publish(w) \/ PublishFails(w)) /\ Accept(Key(msg[w]))
    BY DEF StationNext, WorkerStep, Take, SkipUnsupported, Insert, InsertWaits, InsertDuplicate,
           NoConnection, InsertFails, Publish, PublishRefused, PublishFails, Commit, CommitFails,
           Settle, Crash, ChannelCloses, outVars
  <1>2. ASSUME NEW w \in Workers, Publish(w) \/ PublishFails(w), Accept(Key(msg[w]))
        PROVE  UNCHANGED announced \/ AnnouncesOwn
    <2>1. pc[w] = "inserted" BY <1>2 DEF Publish, PublishFails
    <2>2. PICK m \in (sent \cap Msgs) \ Unsupported : m = msg[w]
      BY <2>1 DEF Own, BusyHolds
    <2>3. Accounted(Key(m))'
      <3>1. CASE Publish(w)
        <4>1. pc'[w] = "published" /\ msg' = msg BY <3>1 DEF Publish, Own
        <4> QED BY <2>2, <4>1 DEF Accounted
      <3>2. CASE PublishFails(w)
        BY <3>2, FaultShows DEF PublishFails, Own, Accounted, LossyKinds
      <3> QED BY <1>2, <3>1, <3>2
    <2>4. CASE UNCHANGED announced BY <2>4
    <2>5. CASE \E k \in 1 .. MaxEmit :
                 /\ <<Key(m), k>> \notin announced
                 /\ \A n \in 1 .. MaxEmit : n < k => <<Key(m), n>> \in announced
                 /\ announced' = announced \cup {<<Key(m), k>>}
      BY <2>3, <2>5 DEF AnnouncesOwn
    <2> QED BY <1>2, <2>2, <2>4, <2>5 DEF Accept
  <1> QED BY <1>1, <1>2
=============================================================================
