----------------------------- MODULE Publisher -----------------------------
(***************************************************************************)
(* The RabbitMQ publisher and how the services wire it.  A publisher is    *)
(* the exchange, routing key and message type it stamps on what it sends;  *)
(* the broker is the set of bindings the consumers declared.               *)
(***************************************************************************)

\* What NewPublisher returns.
BasePublisher ==
    [exchange |-> "orders-exchange", key |-> "orders-routing-key", type |-> "ordered"]

\* Configure works on a copy and returns it: the receiver keeps its values.
Configure(pub, opts) ==
    [f \in DOMAIN pub |-> IF f \in DOMAIN opts THEN opts[f] ELSE pub[f]]

\* The options main.go of the barista passes to Configure.
BaristaUpdateOptions ==
    [exchange |-> "counter-order-exchange", key |-> "counter-order-routing-key",
     type |-> "barista-order-updated"]

\* The counter's wrappers keep the copy: p.pub = p.pub.Configure(opts...).
BaristaEventPublisher ==
    Configure(BasePublisher,
              [exchange |-> "barista-order-exchange", key |-> "barista-order-routing-key",
               type |-> "barista-order-created"])

KitchenEventPublisher ==
    Configure(BasePublisher,
              [exchange |-> "kitchen-order-exchange", key |-> "kitchen-order-routing-key",
               type |-> "kitchen-order-created"])

\* Wire hands the station's event handler the publisher NewPublisher made.
\* main then calls Configure on the same publisher and drops the result.
StationHandlerPublisher ==
    LET injected   == BasePublisher
        discarded  == Configure(injected, BaristaUpdateOptions)
    IN  injected

\* What the three services declare and bind when their consumers start.
Bindings ==
    { [exchange |-> "counter-order-exchange", key |-> "counter-order-routing-key"],
      [exchange |-> "barista-order-exchange", key |-> "barista-order-routing-key"],
      [exchange |-> "kitchen-order-exchange", key |-> "kitchen-order-routing-key"] }

\* Where a message of this publisher goes: no such exchange, an exchange
\* that routes the key nowhere, or the queue behind it.
Route(pub, bindings) ==
    IF \E b \in bindings : b.exchange = pub.exchange /\ b.key = pub.key THEN "bound"
    ELSE IF \E b \in bindings : b.exchange = pub.exchange THEN "declared"
    ELSE "absent"
=============================================================================
