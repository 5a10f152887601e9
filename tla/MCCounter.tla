----------------------------- MODULE MCCounter -----------------------------
(* Small instances of Counter for TLC.                                     *)
EXTENDS Counter, TLC

CONSTANTS o1, o2, o3, a, b, c, w1, w2, m1, m2

\* o1: a cappuccino and a muffin; o2: an item that is not on the menu;
\* o3: an empty request.
MCOrderOf   == (a :> o1) @@ (b :> o1) @@ (c :> o2)
MCStationOf == (a :> "barista") @@ (b :> "kitchen") @@ (c :> "barista")
MCTypeOf    == (a :> "CAPPUCCINO") @@ (b :> "MUFFIN") @@ (c :> "OFF_MENU")
MCRequest   == (o1 :> [barista |-> <<a>>, kitchen |-> <<b>>])
            @@ (o2 :> [barista |-> <<c>>, kitchen |-> <<>>])
            @@ (o3 :> [barista |-> <<>>, kitchen |-> <<>>])

\* One order: a cappuccino and a muffin.
PairOrderOf   == (a :> o1) @@ (b :> o1)
PairStationOf == (a :> "barista") @@ (b :> "kitchen")
PairTypeOf    == (a :> "CAPPUCCINO") @@ (b :> "MUFFIN")
PairRequest   == (o1 :> [barista |-> <<a>>, kitchen |-> <<b>>])

Faults(p, d, m, k, h) == ("product" :> p) @@ ("db" :> d) @@ ("publish" :> m)
                      @@ ("crash" :> k) @@ ("channel" :> h)
PlaceFaults == Faults(1, 2, 1, 1, 1)
NoFaults    == Faults(0, 0, 0, 0, 0)
CrashClose  == Faults(0, 0, 0, 2, 1)
=============================================================================
