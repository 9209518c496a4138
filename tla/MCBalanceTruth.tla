--------------------------- MODULE MCBalanceTruth ---------------------------
(* Amounts that can cancel within a day, and one that cannot. *)
EXTENDS BalanceTruth

SmallAmounts == {5, -5}
TypedAsOwed == {1}
TypedAsToldByTheForm == {-1}
NoValue == {None}
SomeValue == {4}
Owing == -7
=============================================================================
