---------------------------- MODULE MCCoffeeShop ----------------------------
(* Small instances of CoffeeShop for TLC.                                  *)
EXTENDS CoffeeShop, TLC

CONSTANTS o1, a, b, w1, w2, v1

\* One order: a cappuccino for the barista and a muffin for the kitchen.
PairOrderOf   == (a :> o1) @@ (b :> o1)
PairStationOf == (a :> "barista") @@ (b :> "kitchen")
PairTypeOf    == (a :> "CAPPUCCINO") @@ (b :> "MUFFIN")
PairRequest   == (o1 :> [barista |-> <<a>>, kitchen |-> <<b>>])

CounterKinds == {"product", "db", "publish", "crash", "channel"}
StationKinds == {"db", "publish", "crash", "channel"}

OneOf(kinds, faulty) == [f \in kinds |-> IF f \in faulty THEN 1 ELSE 0]

CounterQuiet  == OneOf(CounterKinds, {})
CounterFaulty == OneOf(CounterKinds, CounterKinds \ {"db"})
StationQuiet  == OneOf(StationKinds, {})
StationFaulty == OneOf(StationKinds, StationKinds)

\* Both handlers publish with what wire gave them.
AsWired == [s \in {"barista", "kitchen"} |-> StationHandlerPublisher]

\* The kitchen as wired; the barista with the publisher its main configures
\* and drops, so that the way back to the counter is walked too.
BaristaRepaired ==
    [AsWired EXCEPT !["barista"] = Configure(BasePublisher, BaristaUpdateOptions)]
=============================================================================
