------------------------------ MODULE Station ------------------------------
(***************************************************************************)
(* A preparation station: the barista or the kitchen service, which differ *)
(* only in names.  A pool of worker goroutines consumes the station's      *)
(* queue; for each line item the handler begins a transaction, inserts the *)
(* station's row, publishes the update for the counter, commits, and the   *)
(* worker acknowledges the delivery.                                       *)
(*                                                                         *)
(* A message is the line item it asks for.  A Malformed body unmarshals to *)
(* a zero payload, so the handler works on the item Zero.                  *)
(***************************************************************************)
EXTENDS Naturals, FiniteSets

CONSTANTS
    Items,         \* line items this station makes
    Zero,          \* the zero uuid
    Malformed,     \* bound: messages whose body does not unmarshal
    Unsupported,   \* bound: messages of a type the worker does not know
    Workers,       \* worker goroutines (24 in the code)
    Prefetch,      \* unacknowledged deliveries allowed on the channel (5)
    MaxConn,       \* connections PostgreSQL grants the service
    MaxEmit,       \* bound: announcements of one item
    Addressed,     \* the handler's publisher names the exchange of the counter
    BoundAtStart,  \* the counter's queue exists before the first delivery
    Budget,        \* bound: how often each kind of fault happens
    MaxFaults,     \* bound: faults of all kinds together
    None           \* no delivery

FaultKinds == {"db", "publish", "crash", "channel"}

Msgs == Items \cup Malformed \cup Unsupported
Keys == Items \cup {Zero}

\* Mutant: the event's ItemLineID is not copied.
Key_Zero(m) == Zero

\* NewBaristaOrder, NewKitchenOrder: the row's key is the event's ItemLineID.
Key(m) == IF m \in Malformed THEN Zero ELSE m

ASSUME StationAssumption ==
    /\ Zero \notin Msgs /\ None \notin Msgs
    /\ Items \cap (Malformed \cup Unsupported) = {} /\ Malformed \cap Unsupported = {}
    /\ Prefetch \in Nat \ {0} /\ MaxConn \in Nat \ {0} /\ MaxEmit \in Nat \ {0}
    /\ Addressed \in BOOLEAN /\ BoundAtStart \in BOOLEAN
    /\ Budget \in [FaultKinds -> Nat] /\ MaxFaults \in Nat
    /\ IsFiniteSet(Workers)

VARIABLES
    sent,       \* messages ever put on the station's queue
    settled,    \* messages the broker was told to forget
    stuck,      \* delivered, never acknowledged, no worker has them
    consuming,  \* the consumer's channel is open
    pc,         \* worker goroutines: program counter
    msg,        \* the delivery each holds
    rows,       \* committed rows of barista_orders / kitchen_orders
    leaked,     \* transactions a handler left open when it returned
    locked,     \* keys inserted by those transactions
    route,      \* the counter's exchange: absent, declared, or bound to its queue
    announced,  \* updates on counter-order-queue: <<item, how many-th time>>
    unrouted,   \* items whose update the broker confirmed but could not route
    refused,    \* items that found no connection or no exchange to publish to
    faults      \* faults of each kind so far

brokerVars == <<sent, settled, stuck, consuming>>
dbVars     == <<rows, leaked, locked>>
outVars    == <<route, announced, unrouted, refused>>
vars == <<sent, settled, stuck, consuming, pc, msg, rows, leaked, locked, route,
          announced, unrouted, refused, faults>>

-----------------------------------------------------------------------------
Init ==
    /\ sent = {} /\ settled = {} /\ stuck = {} /\ consuming = TRUE
    /\ pc = [w \in Workers |-> "idle"]
    /\ msg = [w \in Workers |-> None]
    /\ rows = {} /\ leaked = 0 /\ locked = {}
    /\ route = IF BoundAtStart THEN "bound" ELSE "absent"
    /\ announced = {} /\ unrouted = {} /\ refused = {}
    /\ faults = [f \in FaultKinds |-> 0]

Fault(f) ==
    /\ faults[f] < Budget[f]
    /\ faults["db"] + faults["publish"] + faults["crash"] + faults["channel"] < MaxFaults
    /\ faults' = [faults EXCEPT ![f] = @ + 1]

Held    == {msg[w] : w \in Workers} \ {None}
Unacked == Held \cup stuck
Ready   == (sent \cap Msgs) \ (settled \cup Unacked)

\* Workers that have inserted their key, the keys no other transaction can
\* insert, and the connections in use: a worker whose INSERT waits has one.
InTx       == {w \in Workers : pc[w] \in {"inserted", "published"}}
Waiting    == {w \in Workers : pc[w] = "waiting"}
LockedKeys == locked \cup {Key(msg[w]) : w \in InTx}
Connected  == leaked + Cardinality(InTx \cup Waiting)

\* The handler has its transaction, or gets a connection for one.
Begins(w) ==
    /\ msg[w] \notin Unsupported
    /\ pc[w] = "waiting" \/ (pc[w] = "taken" /\ Connected < MaxConn)

\* The handler returns an error and its transaction is left open.
Abandon(w) ==
    /\ leaked' = leaked + 1
    /\ pc' = [pc EXCEPT ![w] = "reject"]

-----------------------------------------------------------------------------
\* The counter (or anyone) puts a message on the station's queue.
Arrive(m) ==
    /\ m \notin sent
    /\ sent' = sent \cup {m}
    /\ UNCHANGED <<settled, stuck, consuming, pc, msg, dbVars, outVars, faults>>

\* Mutant: the consumer subscribes with autoAck.
Take_AutoAck(w) ==
    /\ consuming
    /\ pc[w] = "idle"
    /\ Cardinality(Unacked) < Prefetch
    /\ \E m \in Ready :
         /\ msg' = [msg EXCEPT ![w] = m]
         /\ settled' = settled \cup {m}
    /\ pc' = [pc EXCEPT ![w] = "taken"]
    /\ UNCHANGED <<sent, stuck, consuming, dbVars, outVars, faults>>

\* The broker delivers a message and an idle goroutine receives it.
Take(w) ==
    /\ consuming
    /\ pc[w] = "idle"
    /\ Cardinality(Unacked) < Prefetch
    /\ \E m \in Ready : msg' = [msg EXCEPT ![w] = m]
    /\ pc' = [pc EXCEPT ![w] = "taken"]
    /\ UNCHANGED <<brokerVars, dbVars, outVars, faults>>

\* Mutant: the type is never looked at, every delivery is skipped.
SkipUnsupported_All(w) ==
    /\ pc[w] = "taken"
    /\ stuck' = stuck \cup {msg[w]}
    /\ pc' = [pc EXCEPT ![w] = "idle"]
    /\ msg' = [msg EXCEPT ![w] = None]
    /\ UNCHANGED <<sent, settled, consuming, dbVars, outVars, faults>>

\* The default branch of the switch: a warning, neither Ack nor Reject.
SkipUnsupported(w) ==
    /\ pc[w] = "taken" /\ msg[w] \in Unsupported
    /\ stuck' = IF consuming THEN stuck \cup {msg[w]} ELSE stuck
    /\ pc' = [pc EXCEPT ![w] = "idle"]
    /\ msg' = [msg EXCEPT ![w] = None]
    /\ UNCHANGED <<sent, settled, consuming, dbVars, outVars, faults>>

\* Mutant: INSERT ... ON CONFLICT DO NOTHING.
Insert_OnConflict(w) ==
    /\ Begins(w)
    /\ Key(msg[w]) \notin LockedKeys
    /\ pc' = [pc EXCEPT ![w] = "inserted"]
    /\ UNCHANGED <<brokerVars, msg, dbVars, outVars, faults>>

\* The item is made (the sleep), the transaction begun, the row inserted.
Insert(w) ==
    /\ Begins(w)
    /\ Key(msg[w]) \notin rows \cup LockedKeys
    /\ pc' = [pc EXCEPT ![w] = "inserted"]
    /\ UNCHANGED <<brokerVars, msg, dbVars, outVars, faults>>

\* Another open transaction has inserted the key: PostgreSQL makes the insert
\* wait for its end, and the statement has no timeout.
InsertWaits(w) ==
    /\ pc[w] = "taken" /\ Begins(w)
    /\ Key(msg[w]) \in LockedKeys
    /\ pc' = [pc EXCEPT ![w] = "waiting"]
    /\ UNCHANGED <<brokerVars, msg, dbVars, outVars, faults>>

\* The key is there already: the insert fails, the transaction stays open.
InsertDuplicate(w) ==
    /\ Begins(w)
    /\ Key(msg[w]) \in rows
    /\ Abandon(w)
    /\ UNCHANGED <<brokerVars, msg, rows, locked, outVars, faults>>

\* No connection: db.Begin fails.
NoConnection(w) ==
    /\ pc[w] = "taken" /\ msg[w] \notin Unsupported
    /\ Connected >= MaxConn
    /\ pc' = [pc EXCEPT ![w] = "reject"]
    /\ refused' = refused \cup {Key(msg[w])}
    /\ UNCHANGED <<brokerVars, msg, dbVars, route, announced, unrouted, faults>>

\* The database refuses the insert for another reason.
InsertFails(w) ==
    /\ Begins(w)
    /\ Fault("db")
    /\ Abandon(w)
    /\ UNCHANGED <<brokerVars, msg, rows, locked, outVars>>

\* The broker takes the update: into counter-order-queue when the publisher
\* leads there, away when its exchange routes the key nowhere yet.
Accept(i) ==
    /\ Addressed
    /\ \/ /\ route = "bound"
          /\ \E k \in 1 .. MaxEmit :
               /\ <<i, k>> \notin announced
               /\ \A n \in 1 .. MaxEmit : n < k => <<i, n>> \in announced
               /\ announced' = announced \cup {<<i, k>>}
          /\ UNCHANGED unrouted
       \/ /\ route = "declared"
          /\ unrouted' = unrouted \cup {i}
          /\ UNCHANGED announced

\* counterPub.Publish, inside the transaction: the broker confirms.
Publish(w) ==
    /\ pc[w] = "inserted"
    /\ Accept(Key(msg[w]))
    /\ pc' = [pc EXCEPT ![w] = "published"]
    /\ UNCHANGED <<brokerVars, msg, dbVars, route, refused, faults>>

\* The exchange does not exist: the broker closes the channel.
PublishRefused(w) ==
    /\ pc[w] = "inserted"
    /\ ~Addressed \/ route = "absent"
    /\ Abandon(w)
    /\ locked' = locked \cup {Key(msg[w])}
    /\ refused' = refused \cup {Key(msg[w])}
    /\ UNCHANGED <<brokerVars, msg, rows, route, announced, unrouted, faults>>

\* Mutant: a failed publish is logged and the transaction commits.
PublishFails_Ignored(w) ==
    /\ pc[w] = "inserted"
    /\ Fault("publish")
    /\ pc' = [pc EXCEPT ![w] = "published"]
    /\ UNCHANGED <<brokerVars, msg, dbVars, outVars>>

\* Nack, closed channel or timeout; the broker may have taken the update.
PublishFails(w) ==
    /\ pc[w] = "inserted"
    /\ Fault("publish")
    /\ Accept(Key(msg[w])) \/ UNCHANGED <<announced, unrouted>>
    /\ Abandon(w)
    /\ locked' = locked \cup {Key(msg[w])}
    /\ UNCHANGED <<brokerVars, msg, rows, route, refused>>

\* Mutant: the handler returns without committing.
Commit_Missing(w) ==
    /\ pc[w] = "published"
    /\ pc' = [pc EXCEPT ![w] = "ack"]
    /\ leaked' = leaked + 1
    /\ UNCHANGED <<brokerVars, msg, rows, locked, outVars, faults>>

Commit(w) ==
    /\ pc[w] = "published"
    /\ rows' = rows \cup {Key(msg[w])}
    /\ pc' = [pc EXCEPT ![w] = "ack"]
    /\ UNCHANGED <<brokerVars, msg, leaked, locked, outVars, faults>>

\* The commit's answer is lost, after it took effect or before.
CommitFails(w) ==
    /\ pc[w] = "published"
    /\ Fault("db")
    /\ rows' = rows \cup {Key(msg[w])} \/ UNCHANGED rows
    /\ pc' = [pc EXCEPT ![w] = "reject"]
    /\ UNCHANGED <<brokerVars, msg, leaked, locked, outVars>>

\* Mutant: Reject(true), the broker queues the message again.
Settle_Requeue(w) ==
    /\ pc[w] \in {"ack", "reject"}
    /\ settled' = IF consuming /\ pc[w] = "ack" THEN settled \cup {msg[w]} ELSE settled
    /\ pc' = [pc EXCEPT ![w] = "idle"]
    /\ msg' = [msg EXCEPT ![w] = None]
    /\ UNCHANGED <<sent, stuck, consuming, dbVars, outVars, faults>>

\* Ack(false) or Reject(false): either way the broker forgets the message.
\* On a closed channel it is a logged error and changes nothing.
Settle(w) ==
    /\ pc[w] \in {"ack", "reject"}
    /\ settled' = IF consuming THEN settled \cup {msg[w]} ELSE settled
    /\ pc' = [pc EXCEPT ![w] = "idle"]
    /\ msg' = [msg EXCEPT ![w] = None]
    /\ UNCHANGED <<sent, stuck, consuming, dbVars, outVars, faults>>

\* The process dies and is started again: open transactions roll back,
\* deliveries return to the queue, the consumer subscribes anew.
Crash ==
    /\ Fault("crash")
    /\ pc' = [w \in Workers |-> "idle"]
    /\ msg' = [w \in Workers |-> None]
    /\ stuck' = {} /\ consuming' = TRUE
    /\ leaked' = 0 /\ locked' = {}
    /\ UNCHANGED <<sent, settled, rows, outVars>>

\* The consumer's channel closes.  Deliveries return to the queue, handlers
\* run on, and StartConsumer waits for ever: nothing consumes until a restart.
ChannelCloses ==
    /\ consuming
    /\ Fault("channel")
    /\ consuming' = FALSE
    /\ stuck' = {}
    /\ UNCHANGED <<sent, settled, pc, msg, dbVars, outVars>>

-----------------------------------------------------------------------------
\* The counter's consumer declares its exchange, then binds its queue.
CounterDeclares ==
    /\ route = "absent"
    /\ route' = "declared"
    /\ UNCHANGED <<brokerVars, pc, msg, dbVars, announced, unrouted, refused, faults>>

CounterBinds ==
    /\ route = "declared"
    /\ route' = "bound"
    /\ UNCHANGED <<brokerVars, pc, msg, dbVars, announced, unrouted, refused, faults>>

-----------------------------------------------------------------------------
WorkerStep(w) ==
    \/ Take(w) \/ SkipUnsupported(w)
    \/ Insert(w) \/ InsertWaits(w) \/ InsertDuplicate(w) \/ NoConnection(w) \/ InsertFails(w)
    \/ Publish(w) \/ PublishRefused(w) \/ PublishFails(w)
    \/ Commit(w) \/ CommitFails(w) \/ Settle(w)

StationNext == (\E w \in Workers : WorkerStep(w)) \/ Crash \/ ChannelCloses

Next ==
    \/ StationNext
    \/ \E m \in Msgs : Arrive(m)
    \/ CounterDeclares \/ CounterBinds

Spec == Init /\ [][Next]_vars

\* Goroutines run, and PostgreSQL and RabbitMQ answer within their timeouts.
Fairness == \A w \in Workers : WF_vars(WorkerStep(w))

FairSpec == Spec /\ Fairness

-----------------------------------------------------------------------------
TypeOK ==
    /\ sent \subseteq Msgs /\ settled \subseteq sent
    /\ stuck \subseteq sent \cap Unsupported
    /\ consuming \in BOOLEAN
    /\ pc \in [Workers -> {"idle", "taken", "waiting", "inserted", "published", "ack", "reject"}]
    /\ msg \in [Workers -> sent \cup {None}]
    /\ rows \subseteq Keys /\ locked \subseteq Keys
    /\ leaked \in Nat
    /\ route \in {"absent", "declared", "bound"}
    /\ announced \subseteq Keys \X (1 .. MaxEmit) /\ unrouted \subseteq Keys
    /\ refused \subseteq Keys
    /\ faults \in [FaultKinds -> Nat]

\* The dual write errs on one side only: the update leaves before the
\* commit, so no station row exists whose update the broker did not confirm.
CommittedWasAnnounced == \A i \in rows : <<i, 1>> \in announced \/ i \in unrouted

\* The insert precedes the publish, so a delivery handled again after its
\* row was committed (a crash or a closed channel before the Ack) announces
\* nothing a second time.
NoAnnouncementAfterCommit ==
    [][\A i \in rows, k \in 1 .. MaxEmit :
          <<i, k>> \in announced' => <<i, k>> \in announced]_vars

\* Crashes, closed channels and redeliveries lose nothing by themselves: an
\* item leaves the queue without a committed row only after a database or
\* broker error, or when it found no connection or no exchange.
DroppedOnlyAfterFailure ==
    faults["db"] + faults["publish"] = 0
        => {Key(m) : m \in settled \ Unsupported} \subseteq rows \cup refused

\* Deliveries that nothing but a restart settles: skipped ones, and those
\* whose INSERT waits for a key that an abandoned transaction holds.
Blocked == stuck \cup {msg[w] : w \in {v \in Waiting : Key(msg[v]) \in locked}}

\* Every message with an item is acknowledged or rejected while the channel
\* is open, unless it is itself blocked by an abandoned transaction: blocked
\* deliveries delay no other message until they fill the prefetch window,
\* and once they do none is delivered before a restart.
EveryItemSettles ==
    \A m \in Items \cup Malformed :
        m \in sent ~> \/ m \in settled \cup Blocked
                      \/ ~consuming
                      \/ Cardinality(Blocked) >= Prefetch
=============================================================================
