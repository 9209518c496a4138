----------------------------- MODULE MCHoldings -----------------------------
(* Instances of Holdings.tla for TLC. *)
EXTENDS Holdings, TLC

MarketOf == [d \in 0 .. LastDay |-> 2 + d]
PriceOf == [d \in 0 .. LastDay |-> 5 + d]
UnitsOf == [h \in Holds |-> [d \in 0 .. LastDay |-> IF h = "h1" THEN 7 - d
                                                ELSE IF d = 2 THEN Unset ELSE 3 - d]]

\* Two executions of one second share a key, and a sale empties nothing.
FillsOf == "buy" :> [day |-> 0, qty |-> 2, times |-> 2]
           @@ "sell" :> [day |-> 1, qty |-> -1, times |-> 1]
           @@ "more" :> [day |-> 2, qty |-> 3, times |-> 1]
PeriodsOf == {p \in [from : 0 .. LastDay, to : 0 .. LastDay] : p.from <= p.to}
=============================================================================
