------------------------- MODULE MCInterestAccrual -------------------------
(* A loan to a friend and its repayment, 10% a month, four months.          *)
EXTENDS InterestAccrual, TLC

Interchangeable == Permutations(Handlers)

LoanAmount == [loan |-> 100, repaid |-> -60]
FullAmount == [loan |-> 100, repaid |-> -100]

\* One request at a time and every row re-checked, over four months; or two
\* requests and rows that are not re-checked, over two.
OneCrew(months, quiet) == {[crew |-> {r}, months |-> months, quiet |-> quiet] : r \in Handlers}
SoloOrDuo == OneCrew(4, {}) \cup {[crew |-> Handlers, months |-> 2, quiet |-> {"repaid"}]}
Solo == OneCrew(4, {})
SoloQuiet == OneCrew(4, {"repaid"})
DuoShort == {[crew |-> Handlers, months |-> 2, quiet |-> {}]}

============================================================================
