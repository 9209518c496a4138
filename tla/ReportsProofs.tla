---------------------------- MODULE ReportsProofs ----------------------------
(***************************************************************************)
(* What the pages show: the flows between accounts, the duplicates, the    *)
(* history of holdings and what an account valued from valuations is worth.*)
(*                                                                         *)
(* Flows.  The flow page draws what FlowChart.tla promises, for every set  *)
(* of accounts, names, rates and transfers: each step of its two loops is  *)
(* a step of the chart or changes nothing of it.  While the dictionary is  *)
(* gone through, the chart already has its netted edges and the page does  *)
(* not.  What ties them: the edges so far are those of the pairs           *)
(* processed, and a pair is processed with its reverse.                    *)
(*                                                                         *)
(* Duplicates.  Deleting what the page selects never empties a set of rows *)
(* that its groups tie together: for all files, whatever is alike,         *)
(* whatever the model says, any sequence of visits.  The row that comes    *)
(* first of all those tied together is the first of every group it is in,  *)
(* so no group selects it.  The page may be older than the ledger; what it *)
(* needs is that its groups still name rows, and each its first one        *)
(* (PageTrue).                                                             *)
(*                                                                         *)
(* Holdings.  For all fills, statements, prices, rates and valuations, in  *)
(* any order: HoldInv says for each kind of account how lots, trades,      *)
(* prices and valuations go back to the statements, and for a marked       *)
(* account how the mark goes back to the latest valuation.  The worth of   *)
(* an account then follows from the readings of rates agreeing             *)
(* (RatesAgree) and from there being one latest row (OneLatest).           *)
(***************************************************************************)
EXTENDS FlowEdges, Review, Holdings, SumProofs

\* The edges of the pairs processed so far, each pair with its reverse.
NettedSoFar ==
  stage = "net" =>
    /\ netted = UNION {Net(p) : p \in processed}
    /\ \A p \in processed : Reverse(p) \in Entries => Reverse(p) \in processed

FlowInv == FlowTypeOK /\ NettedSoFar

----------------------------------------------------------------------------

\* The reverse of a pair of names is a pair of names, and its own reverse.
LEMMA ReversePair ==
  ASSUME NEW p \in Pairs
  PROVE  Reverse(p) \in Pairs /\ Reverse(Reverse(p)) = p /\ p = <<p[1], p[2]>>
BY DEF Pairs, Reverse

\* What a pair nets to is an edge between names (Net).
LEMMA NetEdges ==
  ASSUME FlowTypeOK, NEW p \in Pairs
  PROVE  Net(p) \subseteq [from : Names, to : Names, flow : Nat]
<1>1. /\ Reverse(p) \in Pairs /\ p[1] \in Names /\ p[2] \in Names
      /\ Reverse(p)[1] = p[2] /\ Reverse(p)[2] = p[1]
  BY DEF Pairs, Reverse
<1>2. pair_flow[p] \in Nat /\ pair_flow[Reverse(p)] \in Nat
  BY <1>1 DEF FlowTypeOK
<1> QED
  BY <1>1, <1>2 DEF Net, Edge

\* A pair and its reverse, where both are there, net to the same edge: the
\* dominant direction does not depend on which of the two is met first.
LEMMA NetBothWays ==
  ASSUME FlowTypeOK, NEW p \in Entries, Reverse(p) \in Entries
  PROVE  Net(Reverse(p)) = Net(p)
<1>1. p \in Pairs /\ Reverse(p) \in Pairs /\ Reverse(Reverse(p)) = p
  BY ReversePair DEF Entries
<1>2. pair_flow[p] \in Nat /\ pair_flow[Reverse(p)] \in Nat
  BY <1>1 DEF FlowTypeOK
<1> DEFINE e == pair_flow[p]  r == pair_flow[Reverse(p)]
<1>3. CASE e = r
  <2>1. Net(p) = {} /\ Net(Reverse(p)) = {}
    BY <1>1, <1>2, <1>3 DEF Net, Edge
  <2> QED BY <2>1
<1>4. CASE e > r
  <2>1. Net(p) = {x \in {Edge(p, e - r)} : x.flow > 0}
    BY <1>1, <1>2, <1>4 DEF Net
  <2>2. Net(Reverse(p)) = {x \in {Edge(p, e - r)} : x.flow > 0}
    BY <1>1, <1>2, <1>4 DEF Net
  <2> QED BY <2>1, <2>2
<1>5. CASE e < r
  <2>1. Net(p) = {x \in {Edge(Reverse(p), r - e)} : x.flow > 0}
    BY <1>1, <1>2, <1>5 DEF Net
  <2>2. Net(Reverse(p)) = {x \in {Edge(Reverse(p), r - e)} : x.flow > 0}
    BY <1>1, <1>2, <1>5 DEF Net
  <2> QED BY <2>1, <2>2
<1> QED BY <1>2, <1>3, <1>4, <1>5

\* All entries netted, in whatever order, give the dominant directions.
LEMMA AllNet ==
  ASSUME FlowTypeOK
  PROVE  UNION {Net(p) : p \in Entries} = FC!Dominant(pair_flow)
<1> DEFINE D == {q \in Pairs : pair_flow[q] > pair_flow[Reverse(q)]}
           E(q) == Edge(q, pair_flow[q] - pair_flow[Reverse(q)])
<1>1. FC!Dominant(pair_flow) = {E(q) : q \in D}
  BY DEF FC!Dominant, FC!Edge, Edge, Pairs, Reverse
<1>2. \A p \in Pairs : pair_flow[p] \in Nat /\ pair_flow[Reverse(p)] \in Nat
  BY ReversePair DEF FlowTypeOK
<1>3. ASSUME NEW p \in Entries, NEW x \in Net(p)
      PROVE  x \in {E(q) : q \in D}
  <2>1. p \in Pairs /\ Reverse(p) \in Pairs /\ Reverse(Reverse(p)) = p /\ pair_flow[p] > 0
    BY ReversePair DEF Entries
  <2>2. CASE Reverse(p) \notin Entries
    <3>1. pair_flow[Reverse(p)] = 0
      BY <1>2, <2>1, <2>2 DEF Entries
    <3>2. x = E(p) /\ p \in D
      BY <1>2, <2>1, <2>2, <3>1 DEF Net
    <3> QED BY <3>2
  <2>3. CASE Reverse(p) \in Entries /\ pair_flow[p] >= pair_flow[Reverse(p)]
    <3>1. x = E(p) /\ x.flow > 0
      BY <1>2, <2>1, <2>3 DEF Net
    <3>2. p \in D
      BY <1>2, <2>1, <3>1 DEF Edge
    <3> QED BY <3>1, <3>2
  <2>4. CASE Reverse(p) \in Entries /\ ~(pair_flow[p] >= pair_flow[Reverse(p)])
    <3>1. x = E(Reverse(p)) /\ Reverse(p) \in D
      BY <1>2, <2>1, <2>4 DEF Net
    <3> QED BY <3>1
  <2> QED BY <2>2, <2>3, <2>4
<1>4. ASSUME NEW q \in D
      PROVE  q \in Entries /\ E(q) \in Net(q)
  <2>1. q \in Pairs /\ pair_flow[q] > pair_flow[Reverse(q)] /\ pair_flow[q] > 0
    BY <1>2
  <2>2. q \in Entries
    BY <2>1 DEF Entries
  <2>3. CASE Reverse(q) \notin Entries
    <3>1. pair_flow[Reverse(q)] = 0
      BY <1>2, <2>1, <2>3, ReversePair DEF Entries
    <3>2. pair_flow[q] - pair_flow[Reverse(q)] = pair_flow[q]
      BY <1>2, <2>1, <3>1
    <3>3. Net(q) = {Edge(q, pair_flow[q])}
      BY <2>3 DEF Net
    <3> QED BY <2>2, <3>2, <3>3
  <2>4. CASE Reverse(q) \in Entries
    <3>1. E(q).flow > 0
      BY <1>2, <2>1 DEF Edge
    <3>2. Net(q) = {x \in {E(q)} : x.flow > 0}
      BY <1>2, <2>1, <2>4 DEF Net
    <3> QED BY <2>2, <3>1, <3>2
  <2> QED BY <2>3, <2>4
<1> QED BY <1>1, <1>3, <1>4

----------------------------------------------------------------------------
(* What is grouped by name.                                                 *)

\* A transfer in the base currency, and those between two names.
Value(ledger) == [q \in Accounts \X Accounts |-> ledger[q] * Rate[q[1]]]
Between(p) == {q \in Accounts \X Accounts : <<Name[q[1]], Name[q[2]]>> = p}

\* The sums of the page are sums of these values.
LEMMA ValueSummed ==
  ASSUME NEW ledger, NEW S \in SUBSET (Accounts \X Accounts)
  PROVE  MapThenSumSet(LAMBDA q : ledger[q] * Rate[q[1]], S) = SumOver(Value(ledger), S)
<1> DEFINE A(g) == [s \in SUBSET S |->
                      IF s = {} THEN 0
                      ELSE ledger[Taken(s)] * Rate[Taken(s)[1]] + g[s \ {Taken(s)}]]
<1>1. ASSUME NEW g PROVE A(g) = Round(Value(ledger), S, g)
  <2>1. \A s \in SUBSET S : s # {} =>
          Value(ledger)[Taken(s)] = ledger[Taken(s)] * Rate[Taken(s)[1]]
    BY DEF Taken, Value
  <2> QED BY <2>1 DEF Round
<1>2. /\ MapThenSumSet(LAMBDA q : ledger[q] * Rate[q[1]], S) = (CHOOSE g : g = A(g))[S]
      /\ SumOver(Value(ledger), S) = (CHOOSE g : g = Round(Value(ledger), S, g))[S]
  BY Zenon DEF SumOver, MapThenSumSet, MapThenFoldSet, Round, Taken
<1> HIDE DEF A
<1>3. (CHOOSE g : g = A(g)) = (CHOOSE g : g = Round(Value(ledger), S, g))
  BY <1>1, Zenon
<1> QED BY <1>2, <1>3

\* The names and the pairs of accounts are finitely many.
LEMMA FinitelyMany == IsFiniteSet(Names) /\ IsFiniteSet(Accounts \X Accounts)
BY LedgerAssumption, FiniteImage, FS_Product DEF Names

\* What is worth natural numbers adds up to one.
LEMMA ValueIsNat ==
  ASSUME NEW ledger \in Ledgers
  PROVE  /\ \A q \in Accounts \X Accounts : Value(ledger)[q] \in Nat
         /\ \A S \in SUBSET (Accounts \X Accounts) : SumOver(Value(ledger), S) \in Nat
<1>1. ASSUME NEW q \in Accounts \X Accounts PROVE Value(ledger)[q] \in Nat
  <2>1. ledger[q] \in Nat /\ Rate[q[1]] \in Nat
    BY LedgerAssumption
  <2>2. ledger[q] * Rate[q[1]] \in Nat
    BY <2>1
  <2> QED BY <2>2 DEF Value
<1>2. ASSUME NEW S \in SUBSET (Accounts \X Accounts) PROVE SumOver(Value(ledger), S) \in Nat
  <2>1. IsFiniteSet(S)
    BY FinitelyMany, FS_Subset
  <2>2. \A q \in S : Value(ledger)[q] \in Nat
    BY <1>1
  <2> QED BY <2>1, <2>2, SumOfNats
<1> QED BY <1>1, <1>2

\* What flowed between two names (pair_flow): a natural number.
LEMMA CollapsedIs ==
  ASSUME NEW ledger \in Ledgers
  PROVE  /\ Collapsed(ledger) \in [Pairs -> Nat]
         /\ \A p \in Pairs : Collapsed(ledger)[p] =
              IF p[1] = p[2] THEN 0 ELSE SumOver(Value(ledger), Between(p))
<1>1. ASSUME NEW p \in Pairs
      PROVE  MapThenSumSet(LAMBDA q : ledger[q] * Rate[q[1]],
                           {q \in Accounts \X Accounts : <<Name[q[1]], Name[q[2]]>> = p})
               = SumOver(Value(ledger), Between(p))
  <2>1. Between(p) \in SUBSET (Accounts \X Accounts)
    BY DEF Between
  <2>2. MapThenSumSet(LAMBDA q : ledger[q] * Rate[q[1]], Between(p))
          = SumOver(Value(ledger), Between(p))
    BY <2>1, ValueSummed
  <2> QED BY <2>2 DEF Between
<1>2. \A p \in Pairs : Collapsed(ledger)[p] =
        IF p[1] = p[2] THEN 0 ELSE SumOver(Value(ledger), Between(p))
  BY <1>1, Zenon DEF Collapsed
<1>3. \A p \in Pairs : SumOver(Value(ledger), Between(p)) \in Nat
  BY ValueIsNat DEF Between
<1>4. Collapsed(ledger) = [p \in Pairs |-> Collapsed(ledger)[p]]
  BY DEF Collapsed
<1>5. \A p \in Pairs : Collapsed(ledger)[p] \in Nat
  BY <1>2, <1>3
<1> QED BY <1>2, <1>4, <1>5

----------------------------------------------------------------------------

\* The page starts with every pair unprocessed (FlowInit).
LEMMA FlowInvInit == FlowInit => FlowInv
<1> SUFFICES ASSUME FlowInit PROVE FlowInv
  OBVIOUS
<1>1. FlowTypeOK
  BY CollapsedIs DEF FlowInit, FlowTypeOK
<1>2. NettedSoFar
  BY DEF FlowInit, NettedSoFar
<1> QED BY <1>1, <1>2 DEF FlowInv

\* Every step of the two loops keeps it (FlowNext).
LEMMA FlowInvNext == FlowInv /\ [FlowNext]_flowVars => FlowInv'
<1> SUFFICES ASSUME FlowInv, [FlowNext]_flowVars PROVE FlowInv'
  OBVIOUS
<1> USE DEF FlowInv
<1>1. ASSUME NEW p \in Pairs, TakePair(p) PROVE FlowInv'
  <2>1. /\ pair_flow' = pair_flow /\ Entries' = Entries /\ p \in Entries
        /\ stage = "net" /\ stage' = "net"
        /\ netted' = netted \cup Net(p)
        /\ processed' = processed \cup ({p, Reverse(p)} \cap Entries)
    BY <1>1 DEF TakePair, Entries
  <2>2. \A q : Net(q)' = Net(q)
    BY <2>1 DEF Net
  <2>3. FlowTypeOK'
    <3>1. netted' \subseteq [from : Names, to : Names, flow : Nat]
      BY <2>1, NetEdges DEF FlowTypeOK
    <3> QED BY <1>1, <2>1, <3>1 DEF FlowTypeOK, TakePair
  <2>4. Reverse(p) \in Entries => Net(Reverse(p)) = Net(p)
    BY <2>1, NetBothWays
  <2>5. UNION {Net(q) : q \in processed'} = netted \cup Net(p)
    <3>1. processed' = processed \cup {p} \cup ({Reverse(p)} \cap Entries)
      BY <2>1
    <3>2. netted = UNION {Net(q) : q \in processed}
      BY <2>1 DEF NettedSoFar
    <3>3. CASE Reverse(p) \in Entries
      <4>1. UNION {Net(q) : q \in processed'} = netted \cup Net(p) \cup Net(Reverse(p))
        BY <3>1, <3>2, <3>3
      <4> QED BY <2>4, <3>3, <4>1
    <3>4. CASE Reverse(p) \notin Entries
      BY <3>1, <3>2, <3>4
    <3> QED BY <3>3, <3>4
  <2>6. netted' = (UNION {Net(q) : q \in processed})'
    BY <2>1, <2>2, <2>5
  <2>7. \A q \in processed' : Reverse(q) \in Entries => Reverse(q) \in processed'
    <3> SUFFICES ASSUME NEW q \in processed', Reverse(q) \in Entries
                 PROVE  Reverse(q) \in processed'
      OBVIOUS
    <3>1. CASE q \in processed
      BY <2>1, <3>1 DEF NettedSoFar
    <3>2. CASE q = p
      BY <2>1, <3>2
    <3>3. CASE q = Reverse(p)
      BY <2>1, <3>3, ReversePair
    <3> QED BY <2>1, <3>1, <3>2, <3>3
  <2>8. NettedSoFar'
    BY <2>1, <2>6, <2>7 DEF NettedSoFar
  <2> QED BY <2>3, <2>8
<1>2. CASE AllNetted
  BY <1>2 DEF AllNetted, FlowTypeOK, NettedSoFar, Entries
<1>3. CASE CutSmallest
  BY <1>3 DEF CutSmallest, FlowTypeOK, NettedSoFar, Entries
<1>4. CASE DrawFlow
  BY <1>4 DEF DrawFlow, FlowTypeOK, NettedSoFar, Entries
<1>5. CASE UNCHANGED flowVars
  <2>1. \A q : Net(q)' = Net(q)
    BY <1>5 DEF flowVars, Net, Entries
  <2>2. (UNION {Net(q) : q \in processed})' = UNION {Net(q) : q \in processed}
    BY <1>5, <2>1 DEF flowVars
  <2> QED BY <1>5, <2>2 DEF flowVars, FlowTypeOK, NettedSoFar, Entries
<1> QED BY <1>1, <1>2, <1>3, <1>4, <1>5 DEF FlowNext

----------------------------------------------------------------------------

\* The edges the chart has while the page is still netting.
ChartEdges == IF stage = "net" THEN FC!Dominant(pair_flow) ELSE netted

\* The mapping of FlowEdges.tla is this one.
LEMMA ChartEdgesMapped ==
  (IF stage = "net"
   THEN {[from |-> p[1], to |-> p[2], flow |-> pair_flow[p] - pair_flow[Reverse(p)]] :
           p \in {q \in Pairs : pair_flow[q] > pair_flow[Reverse(q)]}}
   ELSE netted) = ChartEdges
BY DEF ChartEdges, FC!Dominant, FC!Edge, Pairs, Reverse

\* A page that starts is a chart that starts.
LEMMA ChartInit == FlowInit => FC!Init
<1> SUFFICES ASSUME FlowInit PROVE FC!Init
  OBVIOUS
<1>1. FlowTypeOK /\ stage = "net"
  BY FlowInvInit DEF FlowInv, FlowInit
<1>2. pair_flow \in [Names \X Names -> Nat]
  BY <1>1 DEF FlowTypeOK, Pairs
<1> QED BY <1>1, <1>2, ChartEdgesMapped DEF FC!Init, ChartEdges

\* Netting changes nothing of the chart, the last step of it included; cutting
\* and drawing are the chart's own steps.
LEMMA ChartNext == FlowInv /\ [FlowNext]_flowVars => [FC!Next]_FC!chartVars
<1> SUFFICES ASSUME FlowInv, [FlowNext]_flowVars PROVE [FC!Next]_FC!chartVars
  OBVIOUS
<1>1. ASSUME NEW p \in Pairs, TakePair(p) PROVE UNCHANGED FC!chartVars
  BY <1>1 DEF TakePair, FC!chartVars
<1>2. ASSUME AllNetted PROVE UNCHANGED FC!chartVars
  <2>1. processed = Entries /\ netted = UNION {Net(p) : p \in Entries}
    BY <1>2 DEF AllNetted, FlowInv, FlowTypeOK, NettedSoFar
  <2>2. netted' = FC!Dominant(pair_flow) /\ ChartEdges = FC!Dominant(pair_flow)
    BY <1>2, <2>1, AllNet DEF AllNetted, FlowInv, ChartEdges
  <2>3. stage' = "cut" /\ stage = "net" /\ pair_flow' = pair_flow
    BY <1>2 DEF AllNetted
  <2> QED BY <2>2, <2>3, ChartEdgesMapped DEF FC!chartVars
<1>3. ASSUME CutSmallest PROVE FC!Cut
  BY <1>3 DEF CutSmallest, FC!Cut, HasCycle, FC!Cyclic
<1>4. ASSUME DrawFlow PROVE FC!Draw
  BY <1>4 DEF DrawFlow, FC!Draw, HasCycle, FC!Cyclic
<1>5. ASSUME UNCHANGED flowVars PROVE UNCHANGED FC!chartVars
  BY <1>5 DEF flowVars, FC!chartVars
<1> QED BY <1>1, <1>2, <1>3, <1>4, <1>5 DEF FlowNext, FC!Next

\* The flow page implements the chart (_acyclic_edges): what it nets pair by
\* pair is the netted graph, and it takes out edges only while there is a cycle.
THEOREM FlowImplementsChart == FlowSpec => FC!Spec
<1>1. FlowSpec => []FlowInv
  <2>1. FlowInit => FlowInv
    BY FlowInvInit
  <2>2. FlowInv /\ [FlowNext]_flowVars => FlowInv'
    BY FlowInvNext
  <2> QED BY <2>1, <2>2, PTL DEF FlowSpec
<1>2. FlowInit => FC!Init
  BY ChartInit
<1>3. FlowInv /\ [FlowNext]_flowVars => [FC!Next]_FC!chartVars
  BY ChartNext
<1> QED BY <1>1, <1>2, <1>3, PTL DEF FlowSpec, FC!Spec

----------------------------------------------------------------------------
(* The table beside the diagram.                                            *)

\* Until an edge is cut the edges are the dominant directions of what flowed.
KeptInv ==
  /\ pair_flow = Collapsed(moved)
  /\ stage # "net" /\ dropped = 0 => netted = FC!Dominant(pair_flow)

\* What flowed from m to n less what flowed back, and the half of it that is
\* an edge from m to n.
Diff(m, n) == pair_flow[<<m, n>>] - pair_flow[<<n, m>>]
Ahead(m, n) == IF pair_flow[<<m, n>>] > pair_flow[<<n, m>>] THEN Diff(m, n) ELSE 0

\* The page sums the edges of a set by their flow.
LEMMA FlowSummed ==
  ASSUME NEW S
  PROVE  MapThenSumSet(LAMBDA e : e.flow, S) = SumOver([e \in S |-> e.flow], S)
<1> DEFINE w == [e \in S |-> e.flow]
           A(g) == [s \in SUBSET S |-> IF s = {} THEN 0 ELSE Taken(s).flow + g[s \ {Taken(s)}]]
<1>1. ASSUME NEW g PROVE A(g) = Round(w, S, g)
  <2>1. \A s \in SUBSET S : s # {} => w[Taken(s)] = Taken(s).flow
    BY DEF Taken
  <2> QED BY <2>1 DEF Round
<1> HIDE DEF w
<1>2. /\ MapThenSumSet(LAMBDA e : e.flow, S) = (CHOOSE g : g = A(g))[S]
      /\ SumOver(w, S) = (CHOOSE g : g = Round(w, S, g))[S]
  BY Zenon DEF SumOver, MapThenSumSet, MapThenFoldSet, Round, Taken
<1> HIDE DEF A
<1>3. (CHOOSE g : g = A(g)) = (CHOOSE g : g = Round(w, S, g))
  BY <1>1, Zenon
<1> QED BY <1>2, <1>3 DEF w

\* The edges into a name, and those out of it, sum what is ahead.
LEMMA EdgesSummed ==
  ASSUME pair_flow \in [Pairs -> Nat], NEW n \in Names, NEW es, es = FC!Dominant(pair_flow)
  PROVE  /\ MapThenSumSet(LAMBDA e : e.flow, {e \in es : e.to = n})
               = SumOver([m \in Names |-> Ahead(m, n)], Names)
         /\ MapThenSumSet(LAMBDA e : e.flow, {e \in es : e.from = n})
               = SumOver([m \in Names |-> Ahead(n, m)], Names)
<1> DEFINE In1 == {m \in Names : pair_flow[<<m, n>>] > pair_flow[<<n, m>>]}
           Out1 == {m \in Names : pair_flow[<<n, m>>] > pair_flow[<<m, n>>]}
           into == [m \in In1 |-> [from |-> m, to |-> n, flow |-> Diff(m, n)]]
           outof == [m \in Out1 |-> [from |-> n, to |-> m, flow |-> Diff(n, m)]]
           Into == {e \in es : e.to = n}
           OutOf == {e \in es : e.from = n}
           wi == [e \in Into |-> e.flow]
           wo == [e \in OutOf |-> e.flow]
<1>1. es = {[from |-> p[1], to |-> p[2], flow |-> pair_flow[p] - pair_flow[<<p[2], p[1]>>]] :
              p \in {q \in Names \X Names : pair_flow[q] > pair_flow[<<q[2], q[1]>>]}}
  BY DEF FC!Dominant, FC!Edge
<1>2. \A m \in Names : pair_flow[<<m, n>>] \in Nat /\ pair_flow[<<n, m>>] \in Nat
  BY DEF Pairs
<1>3. Into = {into[m] : m \in In1}
  <2>1. ASSUME NEW e \in Into PROVE e \in {into[m] : m \in In1}
    <3>1. PICK p \in Names \X Names :
            /\ pair_flow[p] > pair_flow[<<p[2], p[1]>>]
            /\ e = [from |-> p[1], to |-> p[2], flow |-> pair_flow[p] - pair_flow[<<p[2], p[1]>>]]
      BY <1>1
    <3>2. p[2] = n /\ p = <<p[1], n>> /\ p[1] \in In1
      BY <3>1
    <3>3. e = into[p[1]]
      BY <3>1, <3>2 DEF Diff
    <3> QED BY <3>2, <3>3
  <2>2. ASSUME NEW m \in In1 PROVE into[m] \in Into
    <3> DEFINE p == <<m, n>>
    <3>1. p \in {q \in Names \X Names : pair_flow[q] > pair_flow[<<q[2], q[1]>>]}
      OBVIOUS
    <3>2. into[m] = [from |-> p[1], to |-> p[2], flow |-> pair_flow[p] - pair_flow[<<p[2], p[1]>>]]
      BY DEF Diff
    <3>3. into[m].to = n
      OBVIOUS
    <3> HIDE DEF p, into
    <3> QED BY <1>1, <3>1, <3>2, <3>3
  <2> QED BY <2>1, <2>2
<1>4. OutOf = {outof[m] : m \in Out1}
  <2>1. ASSUME NEW e \in OutOf PROVE e \in {outof[m] : m \in Out1}
    <3>1. PICK p \in Names \X Names :
            /\ pair_flow[p] > pair_flow[<<p[2], p[1]>>]
            /\ e = [from |-> p[1], to |-> p[2], flow |-> pair_flow[p] - pair_flow[<<p[2], p[1]>>]]
      BY <1>1
    <3>2. p[1] = n /\ p = <<n, p[2]>> /\ p[2] \in Out1
      BY <3>1
    <3>3. e = outof[p[2]]
      BY <3>1, <3>2 DEF Diff
    <3> QED BY <3>2, <3>3
  <2>2. ASSUME NEW m \in Out1 PROVE outof[m] \in OutOf
    <3> DEFINE p == <<n, m>>
    <3>1. p \in {q \in Names \X Names : pair_flow[q] > pair_flow[<<q[2], q[1]>>]}
      OBVIOUS
    <3>2. outof[m] = [from |-> p[1], to |-> p[2], flow |-> pair_flow[p] - pair_flow[<<p[2], p[1]>>]]
      BY DEF Diff
    <3>3. outof[m].from = n
      OBVIOUS
    <3> HIDE DEF p, outof
    <3> QED BY <1>1, <3>1, <3>2, <3>3
  <2> QED BY <2>1, <2>2
<1>5. IsFiniteSet(Names) /\ IsFiniteSet(In1) /\ IsFiniteSet(Out1)
  BY FinitelyMany, FS_Subset
<1>6. /\ \A m \in In1 : wi[into[m]] = Ahead(m, n) /\ Ahead(m, n) \in Int
      /\ \A x, y \in In1 : into[x] = into[y] => x = y
  <2>1. \A m \in In1 : into[m] \in Into
    BY <1>3
  <2>2. \A m \in In1 : wi[into[m]] = Ahead(m, n)
    BY <2>1 DEF Ahead
  <2>3. \A m \in In1 : Ahead(m, n) \in Int
    BY <1>2 DEF Ahead, Diff
  <2>4. \A x \in In1 : into[x].from = x
    OBVIOUS
  <2> QED BY <2>2, <2>3, <2>4
<1>7. /\ \A m \in Out1 : wo[outof[m]] = Ahead(n, m) /\ Ahead(n, m) \in Int
      /\ \A x, y \in Out1 : outof[x] = outof[y] => x = y
  <2>1. \A m \in Out1 : outof[m] \in OutOf
    BY <1>4
  <2>2. \A m \in Out1 : wo[outof[m]] = Ahead(n, m)
    BY <2>1 DEF Ahead
  <2>3. \A m \in Out1 : Ahead(n, m) \in Int
    BY <1>2 DEF Ahead, Diff
  <2>4. \A x \in Out1 : outof[x].to = x
    OBVIOUS
  <2> QED BY <2>2, <2>3, <2>4
<1>8. SumOver(wi, Into) = SumOver([m \in Names |-> Ahead(m, n)], Names)
  <2> DEFINE a == [m \in In1 |-> wi[into[m]]]
             whole == [m \in Names |-> IF m \in In1 THEN a[m] ELSE 0]
  <2>1. whole = [m \in Names |-> Ahead(m, n)]
    BY <1>6 DEF Ahead
  <2>2. \A m \in In1 : a[m] \in Int /\ wi[into[m]] \in Int
    BY <1>6
  <2> HIDE DEF wi, into, In1, Into
  <2>3. SumOver(wi, {into[m] : m \in In1}) = SumOver(a, In1)
    BY <1>5, <1>6, <2>2, SumRenamed
  <2> HIDE DEF a
  <2>4. SumOver(whole, Names) = SumOver(a, In1)
    <3>1. In1 \subseteq Names
      BY DEF In1
    <3> QED BY <1>5, <2>2, <3>1, SumOfSome
  <2> QED BY <1>3, <2>1, <2>3, <2>4
<1>9. SumOver(wo, OutOf) = SumOver([m \in Names |-> Ahead(n, m)], Names)
  <2> DEFINE a == [m \in Out1 |-> wo[outof[m]]]
             whole == [m \in Names |-> IF m \in Out1 THEN a[m] ELSE 0]
  <2>1. whole = [m \in Names |-> Ahead(n, m)]
    BY <1>7 DEF Ahead
  <2>2. \A m \in Out1 : a[m] \in Int /\ wo[outof[m]] \in Int
    BY <1>7
  <2> HIDE DEF wo, outof, Out1, OutOf
  <2>3. SumOver(wo, {outof[m] : m \in Out1}) = SumOver(a, Out1)
    BY <1>5, <1>7, <2>2, SumRenamed
  <2> HIDE DEF a
  <2>4. SumOver(whole, Names) = SumOver(a, Out1)
    <3>1. Out1 \subseteq Names
      BY DEF Out1
    <3> QED BY <1>5, <2>2, <3>1, SumOfSome
  <2> QED BY <1>4, <2>1, <2>3, <2>4
<1> HIDE DEF Into, OutOf
<1>10. /\ MapThenSumSet(LAMBDA e : e.flow, Into) = SumOver(wi, Into)
       /\ MapThenSumSet(LAMBDA e : e.flow, OutOf) = SumOver(wo, OutOf)
  BY FlowSummed
<1> QED BY <1>8, <1>9, <1>10 DEF Into, OutOf

\* What a name's accounts received and sent, by the other name.
LEMMA MovedByName ==
  ASSUME moved \in Ledgers, NEW n \in Names
  PROVE  /\ Received(n) = SumOver([m \in Names |-> SumOver(Value(moved), Between(<<m, n>>))], Names)
         /\ Sent(n) = SumOver([m \in Names |-> SumOver(Value(moved), Between(<<n, m>>))], Names)
<1> DEFINE To == {q \in Accounts \X Accounts : Name[q[2]] = n}
           From == {q \in Accounts \X Accounts : Name[q[1]] = n}
           v == Value(moved)
           sender == [q \in To |-> Name[q[1]]]
           taker == [q \in From |-> Name[q[2]]]
<1>1. Received(n) = SumOver(v, To) /\ Sent(n) = SumOver(v, From)
  <2>1. To \in SUBSET (Accounts \X Accounts) /\ From \in SUBSET (Accounts \X Accounts)
    OBVIOUS
  <2> HIDE DEF To, From
  <2>2. /\ MapThenSumSet(LAMBDA q : moved[q] * Rate[q[1]], To) = SumOver(v, To)
        /\ MapThenSumSet(LAMBDA q : moved[q] * Rate[q[1]], From) = SumOver(v, From)
    BY <2>1, ValueSummed
  <2> QED BY <2>2 DEF Received, Sent, To, From
<1>2. IsFiniteSet(To) /\ IsFiniteSet(From) /\ IsFiniteSet(Names)
  BY FinitelyMany, FS_Subset
<1>3. (\A q \in To : v[q] \in Int) /\ (\A q \in From : v[q] \in Int)
  BY ValueIsNat
<1>4. (\A q \in To : sender[q] \in Names) /\ (\A q \in From : taker[q] \in Names)
  BY DEF Names
<1>5. /\ \A m \in Names : {q \in To : sender[q] = m} = Between(<<m, n>>)
      /\ \A m \in Names : {q \in From : taker[q] = m} = Between(<<n, m>>)
  BY DEF Between
<1> HIDE DEF To, From, v, sender, taker
<1>6. SumOver(v, To) = SumOver([m \in Names |-> SumOver(v, {q \in To : sender[q] = m})], Names)
  BY <1>2, <1>3, <1>4, SumInGroups
<1>7. SumOver(v, From) = SumOver([m \in Names |-> SumOver(v, {q \in From : taker[q] = m})], Names)
  BY <1>2, <1>3, <1>4, SumInGroups
<1>8. /\ [m \in Names |-> SumOver(v, {q \in To : sender[q] = m})]
           = [m \in Names |-> SumOver(v, Between(<<m, n>>))]
      /\ [m \in Names |-> SumOver(v, {q \in From : taker[q] = m})]
           = [m \in Names |-> SumOver(v, Between(<<n, m>>))]
  BY <1>5
<1> QED BY <1>1, <1>6, <1>7, <1>8 DEF v

\* The dominant directions leave every name with what its accounts received
\* less what they sent.
LEMMA NetOfDominant ==
  ASSUME moved \in Ledgers, pair_flow = Collapsed(moved),
         netted = FC!Dominant(pair_flow), NEW n \in Names
  PROVE  In(n) - Out(n) = Received(n) - Sent(n)
<1> DEFINE x(m, k) == SumOver(Value(moved), Between(<<m, k>>))
           to == [m \in Names |-> x(m, n)]
           from == [m \in Names |-> x(n, m)]
           in == [m \in Names |-> Ahead(m, n)]
           out == [m \in Names |-> Ahead(n, m)]
<1>1. pair_flow \in [Pairs -> Nat]
  BY CollapsedIs
<1>2. In(n) = SumOver(in, Names) /\ Out(n) = SumOver(out, Names)
  BY <1>1, EdgesSummed DEF In, Out
<1>3. Received(n) = SumOver(to, Names) /\ Sent(n) = SumOver(from, Names)
  BY MovedByName
<1>4. ASSUME NEW m \in Names, NEW k \in Names
      PROVE  x(m, k) \in Nat /\ pair_flow[<<m, k>>] \in Nat
             /\ pair_flow[<<m, k>>] = IF m = k THEN 0 ELSE x(m, k)
  <2>1. <<m, k>> \in Pairs /\ <<m, k>>[1] = m /\ <<m, k>>[2] = k
    BY DEF Pairs
  <2>2. pair_flow[<<m, k>>] = IF m = k THEN 0 ELSE SumOver(Value(moved), Between(<<m, k>>))
    BY <2>1, CollapsedIs
  <2>3. x(m, k) \in Nat
    BY ValueIsNat DEF Between
  <2> QED BY <1>1, <2>1, <2>2, <2>3
<1> HIDE DEF x
<1>5. ASSUME NEW m \in Names
      PROVE  /\ to[m] \in Int /\ from[m] \in Int /\ in[m] \in Int /\ out[m] \in Int
             /\ in[m] - out[m] = to[m] - from[m]
  <2>1. /\ x(m, n) \in Nat /\ pair_flow[<<m, n>>] \in Nat
        /\ pair_flow[<<m, n>>] = IF m = n THEN 0 ELSE x(m, n)
    BY <1>4
  <2>2. /\ x(n, m) \in Nat /\ pair_flow[<<n, m>>] \in Nat
        /\ pair_flow[<<n, m>>] = IF n = m THEN 0 ELSE x(n, m)
    BY <1>4
  <2>3. in[m] = Ahead(m, n) /\ out[m] = Ahead(n, m) /\ to[m] = x(m, n) /\ from[m] = x(n, m)
    OBVIOUS
  <2>4. Ahead(m, n) \in Int /\ Ahead(n, m) \in Int
    BY <2>1, <2>2 DEF Ahead, Diff
  <2>5. Ahead(m, n) - Ahead(n, m) = pair_flow[<<m, n>>] - pair_flow[<<n, m>>]
    BY <2>1, <2>2 DEF Ahead, Diff
  <2>6. pair_flow[<<m, n>>] - pair_flow[<<n, m>>] = x(m, n) - x(n, m)
    <3>1. CASE m = n
      BY <2>1, <2>2, <3>1
    <3>2. CASE m # n
      BY <2>1, <2>2, <3>2
    <3> QED BY <3>1, <3>2
  <2> QED BY <2>1, <2>2, <2>3, <2>4, <2>5, <2>6
<1>6. [m \in Names |-> in[m] - out[m]] = [m \in Names |-> to[m] - from[m]]
  <2> HIDE DEF in, out, to, from
  <2> QED BY <1>5
<1> HIDE DEF in, out, to, from
<1>7. /\ SumOver([m \in Names |-> in[m] - out[m]], Names) = SumOver(in, Names) - SumOver(out, Names)
      /\ SumOver([m \in Names |-> to[m] - from[m]], Names) = SumOver(to, Names) - SumOver(from, Names)
  BY <1>5, FinitelyMany, SumMinus
<1> QED BY <1>2, <1>3, <1>6, <1>7

\* Nothing is cut and not counted (CutSmallest).
LEMMA KeptNext ==
  FlowInv /\ KeptInv /\ [FlowNext]_flowVars => KeptInv'
<1> SUFFICES ASSUME FlowInv, KeptInv, [FlowNext]_flowVars PROVE KeptInv'
  OBVIOUS
<1>1. ASSUME NEW p \in Pairs, TakePair(p) PROVE KeptInv'
  BY <1>1 DEF TakePair, KeptInv
<1>2. CASE AllNetted
  <2>1. processed = Entries /\ netted = UNION {Net(p) : p \in Entries}
    BY <1>2 DEF AllNetted, FlowInv, FlowTypeOK, NettedSoFar
  <2>2. netted = FC!Dominant(pair_flow)
    BY <2>1, AllNet DEF FlowInv
  <2> QED BY <1>2, <2>2 DEF AllNetted, KeptInv
<1>3. CASE CutSmallest
  <2>1. dropped' # 0
    BY <1>3 DEF CutSmallest, FlowInv, FlowTypeOK
  <2> QED BY <1>3, <2>1 DEF CutSmallest, KeptInv
<1>4. CASE DrawFlow
  BY <1>4 DEF DrawFlow, KeptInv
<1>5. CASE UNCHANGED flowVars
  BY <1>5 DEF flowVars, KeptInv
<1> QED BY <1>1, <1>2, <1>3, <1>4, <1>5 DEF FlowNext

\* The summary beside the diagram is true (transfer_flow): as long as no edge
\* was cut, a name gains by its edges what its accounts received less what they
\* sent, through grouping by name, conversion, netting and cancelling out.
THEOREM SummaryIsTrue == FlowSpec => []NetKept
<1>1. FlowInit => FlowInv
  BY FlowInvInit
<1>2. FlowInv /\ [FlowNext]_flowVars => FlowInv'
  BY FlowInvNext
<1>3. FlowInit => KeptInv
  BY DEF FlowInit, KeptInv
<1>4. FlowInv /\ KeptInv /\ [FlowNext]_flowVars => KeptInv'
  BY KeptNext
<1>5. FlowInv /\ KeptInv => NetKept
  <2> SUFFICES ASSUME FlowInv, KeptInv, stage = "drawn", dropped = 0, NEW n \in Names
               PROVE  In(n) - Out(n) = Received(n) - Sent(n)
    BY DEF NetKept
  <2>1. netted = FC!Dominant(pair_flow) /\ pair_flow = Collapsed(moved) /\ moved \in Ledgers
    BY DEF KeptInv, FlowInv, FlowTypeOK
  <2> QED BY <2>1, NetOfDominant
<1> QED BY <1>1, <1>2, <1>3, <1>4, <1>5, PTL DEF FlowSpec

-----------------------------------------------------------------------------
(* The page of duplicates *)
RowSet == [id : 1 .. MaxRow, date : Dates, clock : Clocks, word : Words, batch : Nat]

\* What the order of the query leaves in front.
IsFirst(r, rs) == \A s \in rs : ~Earlier(s, r) /\ (Earlier(r, s) \/ r.id <= s.id)

\* A group of the page stands for rows of the ledger.
PageTrue ==
  \A g \in shown.groups :
    /\ g.date \in Dates
    /\ \E rs \in SUBSET rows :
         rs /= {} /\ g.rows = {r.id : r \in rs} /\ g.keep = First(rs).id

ReviewInv == ReviewTypeOK /\ PageTrue

----------------------------------------------------------------------------
(* Numbers.                                                                 *)

\* A set of numbers that has one has a least one (used for First).
LEMMA LeastNat ==
  ASSUME NEW T, T \subseteq Nat, T /= {}
  PROVE  \E x \in T : \A y \in T : x <= y
<1> DEFINE Less == OpToRel(<, Nat)
<1>1. IsWellFoundedOn(Less, Nat)
  BY NatLessThanWellFounded
<1> HIDE DEF Less
<1>2. PICK x \in T : \A y \in T : ~(<<y, x>> \in Less)
  BY <1>1, WFMin
<1>3. ASSUME NEW y \in T PROVE x <= y
  <2>1. x \in Nat /\ y \in Nat
    OBVIOUS
  <2>2. y < x => <<y, x>> \in Less
    BY <2>1 DEF Less, OpToRel
  <2> QED BY <1>2, <2>1, <2>2
<1> QED BY <1>3

\* The ids are bounded, so there is a greatest one (NextRow).
LEMMA NextIsNew ==
  ASSUME ReviewTypeOK
  PROVE  NextRow \in Nat \ {0} /\ \A r \in rows : r.id < NextRow
<1>1. CASE rows = {}
  BY <1>1 DEF NextRow
<1>2. CASE rows /= {}
  <2> DEFINE ids == {r.id : r \in rows}
             rest == {MaxRow - i : i \in ids}
  <2>1. ids /= {} /\ ids \subseteq 1 .. MaxRow /\ MaxRow \in Nat
    BY <1>2, ReviewAssumption DEF ReviewAssumption, ReviewTypeOK
  <2>2. rest /= {} /\ rest \subseteq Nat
    BY <2>1
  <2>3. PICK x \in rest : \A y \in rest : x <= y
    BY <2>2, LeastNat
  <2>4. PICK i \in ids : x = MaxRow - i
    BY <2>3
  <2>5. ASSUME NEW j \in ids PROVE i >= j
    <3>1. x <= MaxRow - j
      BY <2>3
    <3> HIDE DEF ids, rest
    <3>2. i \in Nat /\ j \in Nat
      BY <2>1
    <3> QED BY <2>1, <2>4, <3>1, <3>2
  <2>6. Max(ids) \in ids /\ \A j \in ids : Max(ids) >= j
    BY <2>5 DEF Max
  <2>7. NextRow = 1 + Max(ids)
    BY <1>2 DEF NextRow
  <2>8. Max(ids) \in Nat
    BY <2>1, <2>6
  <2>9. \A r \in rows : r.id \in ids
    OBVIOUS
  <2> HIDE DEF ids
  <2>10. \A r \in rows : r.id \in Nat
    BY DEF ReviewTypeOK
  <2> QED BY <2>6, <2>7, <2>8, <2>9, <2>10
<1> QED BY <1>1, <1>2

----------------------------------------------------------------------------
(* The first row of a group.                                                *)

\* Rows there are have a first one by day, time and id, and First is it.
LEMMA FirstIsFirst ==
  ASSUME NEW rs, rs \subseteq RowSet, rs /= {}
  PROVE  First(rs) \in rs /\ IsFirst(First(rs), rs)
<1>1. \A r \in rs : r.date \in Nat /\ r.clock \in Nat /\ r.id \in Nat
  <2>1. Clocks \subseteq Nat /\ LastDate \in Nat /\ MaxRow \in Nat
    BY ReviewAssumption DEF ReviewAssumption
  <2> SUFFICES ASSUME NEW r \in rs
               PROVE  r.date \in Nat /\ r.clock \in Nat /\ r.id \in Nat
    OBVIOUS
  <2>2. r.id \in 1 .. MaxRow /\ r.date \in Dates /\ r.clock \in Clocks
    BY DEF RowSet
  <2>3. r.clock \in Nat
    BY <2>1, <2>2
  <2>4. r.date \in Nat
    BY <2>1, <2>2 DEF Dates
  <2>5. r.id \in Nat
    BY <2>1, <2>2
  <2> QED BY <2>3, <2>4, <2>5
<1>2. PICK a \in rs : \A s \in rs : a.date <= s.date
  <2> DEFINE T == {s.date : s \in rs}
  <2>1. T /= {} /\ T \subseteq Nat
    BY <1>1
  <2>2. \E x \in T : \A y \in T : x <= y
    BY <2>1, LeastNat
  <2> QED BY <2>2
<1>3. PICK b \in {s \in rs : s.date = a.date} :
        \A s \in {t \in rs : t.date = a.date} : b.clock <= s.clock
  <2> DEFINE T == {s.clock : s \in {t \in rs : t.date = a.date}}
  <2>1. T /= {} /\ T \subseteq Nat
    BY <1>1
  <2>2. \E x \in T : \A y \in T : x <= y
    BY <2>1, LeastNat
  <2> QED BY <2>2
<1> DEFINE front == {s \in rs : s.date = a.date /\ s.clock = b.clock}
<1>4. PICK c \in front : \A s \in front : c.id <= s.id
  <2> DEFINE T == {s.id : s \in front}
  <2>1. T /= {} /\ T \subseteq Nat
    BY <1>1, <1>3
  <2>2. \E x \in T : \A y \in T : x <= y
    BY <2>1, LeastNat
  <2> QED BY <2>2
<1>5. c \in rs /\ c.date = a.date /\ c.clock = b.clock
  BY <1>4
<1>6. ASSUME NEW s \in rs PROVE ~Earlier(s, c) /\ (Earlier(c, s) \/ c.id <= s.id)
  <2>1. a.date <= s.date /\ a.date \in Nat /\ s.date \in Nat
        /\ b.clock \in Nat /\ s.clock \in Nat /\ c.id \in Nat /\ s.id \in Nat
    BY <1>1, <1>2, <1>3, <1>5
  <2>2. CASE a.date < s.date
    BY <1>5, <2>1, <2>2 DEF Earlier
  <2>3. CASE s.date = a.date
    <3>1. b.clock <= s.clock
      BY <1>3, <2>3
    <3>2. CASE b.clock < s.clock
      BY <1>5, <2>1, <2>3, <3>2 DEF Earlier
    <3>3. CASE s.clock = b.clock
      <4>1. c.id <= s.id
        BY <1>4, <2>3, <3>3
      <4> QED BY <1>5, <2>1, <2>3, <3>3, <4>1 DEF Earlier
    <3> QED BY <2>1, <3>1, <3>2, <3>3
  <2> QED BY <2>1, <2>2, <2>3
<1>7. \E r \in rs : IsFirst(r, rs)
  BY <1>5, <1>6 DEF IsFirst
<1>8. First(rs) = CHOOSE r \in rs : IsFirst(r, rs)
  BY DEF First, IsFirst
<1> QED BY <1>7, <1>8

\* Two rows each of which is in front of the other have one id.
LEMMA FirstBothWays ==
  ASSUME NEW r \in RowSet, NEW s \in RowSet,
         ~Earlier(s, r), Earlier(r, s) \/ r.id <= s.id,
         ~Earlier(r, s), Earlier(s, r) \/ s.id <= r.id
  PROVE  r.id = s.id
BY DEF RowSet

\* Of the rows tied together the first is selected by no group.
LEMMA FirstIsSpared ==
  ASSUME ReviewInv,
         NEW ids \in SUBSET UNION {g.rows : g \in shown.groups}, ids /= {}, Tied(ids)
  PROVE  \E r \in rows : r.id \in ids /\ r.id \notin Chosen
<1> DEFINE tied == {r \in rows : r.id \in ids}
<1>1. rows \subseteq RowSet /\ tied \subseteq RowSet /\ tied \subseteq rows
  BY DEF ReviewInv, ReviewTypeOK, RowSet
<1>2. tied /= {}
  <2>1. PICK i \in ids, g \in shown.groups : i \in g.rows
    OBVIOUS
  <2>2. PICK rs \in SUBSET rows : g.rows = {r.id : r \in rs}
    BY DEF ReviewInv, PageTrue
  <2> QED BY <2>1, <2>2
<1> DEFINE first == First(tied)
<1> HIDE DEF tied
<1>3. first \in tied /\ IsFirst(first, tied)
  BY <1>1, <1>2, FirstIsFirst
<1> HIDE DEF first
<1>4. first \in rows /\ first.id \in ids
  BY <1>1, <1>3 DEF tied
<1>5. ASSUME first.id \in Chosen PROVE FALSE
  <2>1. PICK g \in shown.suggested : first.id \in g.rows \ {g.keep}
    BY <1>5 DEF Chosen, Preselected
  <2>2. g \in shown.groups /\ g.rows \subseteq ids
    BY <1>4, <2>1 DEF ReviewInv, ReviewTypeOK, Tied
  <2>3. PICK rs \in SUBSET rows :
          rs /= {} /\ g.rows = {r.id : r \in rs} /\ g.keep = First(rs).id
    BY <2>2 DEF ReviewInv, PageTrue
  <2>4. First(rs) \in rs /\ IsFirst(First(rs), rs)
    BY <1>1, <2>3, FirstIsFirst
  <2>5. first \in rs
    BY <1>4, <2>1, <2>3 DEF ReviewInv, ReviewTypeOK
  <2>6. First(rs) \in tied
    BY <2>2, <2>3, <2>4 DEF tied
  <2>7. first.id = First(rs).id
    BY <1>1, <1>3, <2>3, <2>4, <2>5, <2>6, FirstBothWays DEF IsFirst
  <2> QED BY <2>1, <2>3, <2>7
<1> QED BY <1>4, <1>5

----------------------------------------------------------------------------
(* The page's groups name rows, along every step.                           *)

\* A group made of rows of the ledger stands for them.
LEMMA GroupIsTrue ==
  ASSUME rows \subseteq RowSet, NEW rs \in SUBSET rows, rs /= {},
         NEW near, NEW g, g = Group(rs, near)
  PROVE  /\ g.date \in Dates
         /\ \E ps \in SUBSET rows :
              ps /= {} /\ g.rows = {r.id : r \in ps} /\ g.keep = First(ps).id
<1>1. First(rs) \in rs
  BY FirstIsFirst
<1>2. First(rs).date \in Dates
  BY <1>1 DEF RowSet
<1>3. g.date = First(rs).date /\ g.rows = {r.id : r \in rs} /\ g.keep = First(rs).id
  BY DEF Group
<1> QED BY <1>2, <1>3

\* Both searches make their groups of rows of the ledger.
LEMMA GroupsAreTrue ==
  ASSUME rows \subseteq RowSet, NEW m \in Measures,
         NEW g \in find_duplicate_groups(m) \cup find_near_duplicate_groups(m)
  PROVE  /\ g.date \in Dates
         /\ \E ps \in SUBSET rows :
              ps /= {} /\ g.rows = {r.id : r \in ps} /\ g.keep = First(ps).id
<1>1. CASE g \in find_duplicate_groups(m)
  <2>1. PICK d \in Dates : g = Group(Repeated(d), FALSE) /\ Repeated(d) /= {}
    BY <1>1 DEF find_duplicate_groups
  <2>2. Repeated(d) \in SUBSET rows
    BY DEF Repeated
  <2> QED BY <2>1, <2>2, GroupIsTrue
<1>2. CASE g \in find_near_duplicate_groups(m)
  <2>1. PICK p \in rows \X rows : g = Group({p[1], p[2]}, TRUE)
    BY <1>2 DEF find_near_duplicate_groups
  <2>2. {p[1], p[2]} \in SUBSET rows /\ {p[1], p[2]} /= {}
    OBVIOUS
  <2> QED BY <2>1, <2>2, GroupIsTrue
<1> QED BY <1>1, <1>2

\* Before anything is imported there is no page.
LEMMA InvInit == ReviewInit => ReviewInv
BY ReviewAssumption
DEF ReviewAssumption, ReviewInit, ReviewInv, ReviewTypeOK, PageTrue, NoPage

\* What a file brings gets ids of its own.
LEMMA ImportKeepsTypes ==
  ASSUME ReviewTypeOK, NEW file \in Files, import_file(file)
  PROVE  ReviewTypeOK' /\ rows \subseteq rows'
<1>1. NextRow \in Nat \ {0} /\ \A r \in rows : r.id < NextRow
  BY NextIsNew
<1>2. MaxRow \in Nat /\ MaxImports \in Nat /\ file \subseteq Line /\ Cardinality(file) \in Nat
  BY ReviewAssumption, FS_CardinalityType DEF ReviewAssumption
<1>3. PICK place \in [file -> 0 .. Cardinality(file) - 1] :
        /\ \A a, b \in file : place[a] = place[b] => a = b
        /\ rows' = rows \cup {[id |-> NextRow + place[a], date |-> a.date, clock |-> a.clock,
                               word |-> a.word, batch |-> batches + 1] : a \in file}
  BY DEF import_file
<1> DEFINE new(a) == [id |-> NextRow + place[a], date |-> a.date, clock |-> a.clock,
                      word |-> a.word, batch |-> batches + 1]
<1>4. \A a \in file : NextRow + place[a] \in NextRow .. MaxRow
  <2>1. NextRow + Cardinality(file) - 1 <= MaxRow
    BY DEF import_file
  <2>2. ASSUME NEW a \in file PROVE place[a] \in 0 .. Cardinality(file) - 1
    BY <1>3
  <2> QED BY <1>1, <1>2, <2>1, <2>2
<1>5. batches \in Nat /\ batches < MaxImports
  BY DEF ReviewTypeOK, import_file
<1>6. \A a \in file : new(a) \in [id : 1 .. MaxRow, date : Dates, clock : Clocks,
                                  word : Words, batch : Nat]
  <2> SUFFICES ASSUME NEW a \in file
               PROVE  new(a) \in [id : 1 .. MaxRow, date : Dates, clock : Clocks,
                                  word : Words, batch : Nat]
    OBVIOUS
  <2>1. a.date \in Dates /\ a.clock \in Clocks /\ a.word \in Words
    BY <1>2 DEF Line
  <2>2. NextRow + place[a] \in 1 .. MaxRow
    BY <1>1, <1>2, <1>4
  <2> QED BY <1>5, <2>1, <2>2
<1>7. rows' \subseteq [id : 1 .. MaxRow, date : Dates, clock : Clocks, word : Words, batch : Nat]
  BY <1>3, <1>6 DEF ReviewTypeOK
<1>8. ASSUME NEW r \in rows', NEW s \in rows', r.id = s.id PROVE r = s
  <2>1. CASE r \in rows /\ s \in rows
    BY <1>8, <2>1 DEF ReviewTypeOK
  <2>2. \A a \in file : \A t \in rows : new(a).id /= t.id
    <3> SUFFICES ASSUME NEW a \in file, NEW t \in rows PROVE NextRow + place[a] /= t.id
      OBVIOUS
    <3>1. t.id < NextRow /\ NextRow + place[a] >= NextRow /\ t.id \in Nat
      BY <1>1, <1>2, <1>4 DEF ReviewTypeOK
    <3>2. NextRow + place[a] \in Nat
      BY <1>1, <1>2, <1>4
    <3> QED BY <1>1, <3>1, <3>2
  <2>3. ASSUME NEW a \in file, NEW b \in file, new(a).id = new(b).id PROVE a = b
    <3>1. place[a] \in Int /\ place[b] \in Int
      BY <1>2, <1>3
    <3>2. NextRow + place[a] = NextRow + place[b]
      BY <2>3
    <3> QED BY <1>1, <1>3, <3>1, <3>2
  <2> HIDE DEF new
  <2>4. rows' = rows \cup {new(a) : a \in file}
    BY <1>3 DEF new
  <2> QED BY <1>8, <2>1, <2>2, <2>3, <2>4
<1>9. dismissed' = dismissed /\ shown' = shown /\ batches' \in 0 .. MaxImports
  BY <1>2, <1>5 DEF import_file
<1>10. rows \subseteq rows'
  BY <1>3
<1> QED BY <1>7, <1>8, <1>9, <1>10 DEF ReviewTypeOK

\* A typed row gets an id of its own.
LEMMA AddKeepsTypes ==
  ASSUME ReviewTypeOK, NEW file \in Files, NEW line \in file, add_row(line)
  PROVE  ReviewTypeOK'
<1>1. NextRow \in Nat \ {0} /\ \A r \in rows : r.id < NextRow
  BY NextIsNew
<1>2. line \in Line /\ MaxRow \in Nat
  BY ReviewAssumption DEF ReviewAssumption
<1> DEFINE new == [id |-> NextRow, date |-> line.date, clock |-> line.clock,
                   word |-> line.word, batch |-> ByHand]
<1>3. rows' = rows \cup {new} /\ NextRow <= MaxRow
  BY DEF add_row
<1>4. new \in [id : 1 .. MaxRow, date : Dates, clock : Clocks, word : Words, batch : Nat]
  BY <1>1, <1>2, <1>3 DEF Line, ByHand
<1>5. rows' \subseteq [id : 1 .. MaxRow, date : Dates, clock : Clocks, word : Words, batch : Nat]
  BY <1>3, <1>4 DEF ReviewTypeOK
<1>6. new.id = NextRow
  OBVIOUS
<1>7. \A r \in rows : r.id /= NextRow
  <2> SUFFICES ASSUME NEW r \in rows PROVE r.id /= NextRow
    OBVIOUS
  <2>1. r.id \in 1 .. MaxRow /\ r.id < NextRow
    BY <1>1 DEF ReviewTypeOK
  <2> QED BY <1>1, <1>2, <2>1
<1>8. \A r, s \in rows' : r.id = s.id => r = s
  <2> HIDE DEF new
  <2> QED BY <1>3, <1>6, <1>7 DEF ReviewTypeOK
<1>9. dismissed' = dismissed /\ shown' = NoPage /\ batches' = batches
  BY DEF add_row
<1> QED BY <1>5, <1>8, <1>9 DEF ReviewTypeOK, NoPage

\* Every visit and every import keeps it.
LEMMA InvNext == ReviewInv /\ [ReviewNext]_reviewVars => ReviewInv'
<1> SUFFICES ASSUME ReviewInv, [ReviewNext]_reviewVars PROVE ReviewInv'
  OBVIOUS
<1> USE DEF ReviewInv
<1>0. rows \subseteq RowSet
  BY DEF ReviewTypeOK, RowSet
<1>n. ASSUME shown' = NoPage PROVE PageTrue' /\ (shown.suggested \subseteq shown.groups)'
  BY <1>n DEF PageTrue, NoPage
<1>1. CASE \E file \in Files : import_file(file)
  <2>1. PICK file \in Files : import_file(file)
    BY <1>1
  <2>2. ReviewTypeOK' /\ rows \subseteq rows'
    BY <2>1, ImportKeepsTypes
  <2>3. shown' = shown
    BY <2>1 DEF import_file
  <2>4. PageTrue'
    BY <2>2, <2>3 DEF PageTrue
  <2> QED BY <2>2, <2>4
<1>2. CASE \E file \in Files : \E line \in file : add_row(line)
  <2>1. PICK file \in Files : \E line \in file : add_row(line)
    BY <1>2
  <2>2. PICK line \in file : add_row(line)
    BY <2>1
  <2>3. ReviewTypeOK'
    BY <2>2, AddKeepsTypes
  <2> QED BY <1>n, <2>2, <2>3 DEF add_row
<1>3. CASE duplicates_page
  <2>1. PICK m \in Measures :
          LET gs == find_duplicate_groups(m) \cup find_near_duplicate_groups(m) IN
          \E suggested \in SUBSET gs :
            /\ shown' = [groups |-> gs, suggested |-> suggested]
            /\ UNCHANGED <<rows, dismissed, batches>>
    BY <1>3 DEF duplicates_page
  <2> DEFINE gs == find_duplicate_groups(m) \cup find_near_duplicate_groups(m)
  <2>2. PICK suggested \in SUBSET gs :
          /\ shown' = [groups |-> gs, suggested |-> suggested]
          /\ UNCHANGED <<rows, dismissed, batches>>
    BY <2>1
  <2>3. \A g \in gs :
          /\ g.date \in Dates
          /\ \E ps \in SUBSET rows :
               ps /= {} /\ g.rows = {r.id : r \in ps} /\ g.keep = First(ps).id
    BY <1>0, GroupsAreTrue
  <2> HIDE DEF gs
  <2>4. shown'.groups = gs /\ shown'.suggested = suggested /\ rows' = rows
    BY <2>2
  <2>5. PageTrue'
    BY <2>3, <2>4 DEF PageTrue
  <2>6. ReviewTypeOK'
    BY <2>2, <2>4 DEF ReviewTypeOK
  <2> QED BY <2>5, <2>6
<1>4. CASE bulk_delete
  BY <1>4, <1>n DEF bulk_delete, ReviewTypeOK
<1>5. CASE \E r \in rows : delete_transaction(r)
  BY <1>5, <1>n DEF delete_transaction, ReviewTypeOK
<1>6. CASE \E g \in shown.groups : dismiss_duplicate(g)
  <2>1. PICK g \in shown.groups : dismiss_duplicate(g)
    BY <1>6
  <2>2. g.date \in Dates
    BY DEF PageTrue
  <2> QED BY <1>n, <2>1, <2>2 DEF dismiss_duplicate, ReviewTypeOK
<1>7. CASE bulk_dismiss_duplicates
  <2>1. {r.date : r \in ChosenRows} \subseteq Dates
    BY <1>0 DEF RowSet, ChosenRows
  <2> QED BY <1>7, <1>n, <2>1 DEF bulk_dismiss_duplicates, ReviewTypeOK
<1>8. CASE \E d \in dismissed : undismiss_duplicate(d)
  BY <1>8, <1>n DEF undismiss_duplicate, ReviewTypeOK
<1>9. CASE UNCHANGED reviewVars
  BY <1>9 DEF reviewVars, ReviewTypeOK, PageTrue
<1> QED BY <1>1, <1>2, <1>3, <1>4, <1>5, <1>6, <1>7, <1>8, <1>9 DEF ReviewNext

----------------------------------------------------------------------------

\* For every list of rows, whatever is alike and whatever the model answers,
\* deleting what the page selects leaves one row of every set its groups tie
\* together (ChainKeepsOne, "Delete selected" of the page of duplicates).
THEOREM ChainKept == ReviewSpec => ChainKeepsOne
<1>1. ASSUME ReviewInv, rows \ rows' \subseteq ChosenRows,
             NEW ids \in SUBSET UNION {g.rows : g \in shown.groups}, ids /= {}, Tied(ids)
      PROVE  \E r \in rows' : r.id \in ids
  <2>1. PICK r \in rows : r.id \in ids /\ r.id \notin Chosen
    BY <1>1, FirstIsSpared
  <2>2. r \in rows'
    BY <1>1, <2>1 DEF ChosenRows
  <2> QED BY <2>1, <2>2
<1> DEFINE Spared ==
      rows \ rows' \subseteq ChosenRows =>
        \A ids \in SUBSET UNION {g.rows : g \in shown.groups} :
          ids /= {} /\ Tied(ids) => \E r \in rows' : r.id \in ids
<1>2. ReviewInv => Spared
  BY <1>1
<1>3. ReviewInv => [Spared]_rows
  BY <1>2
<1> QED BY <1>3, InvInit, InvNext, PTL DEF ReviewSpec, ChainKeepsOne

----------------------------------------------------------------------------
(* Holdings and valuations.                                                 *)

----------------------------------------------------------------------------
(* Sums of units and of worth.                                              *)

\* What the executions of each key move, given how many rows each key has.
Moved(times) == [k \in Keys |-> Fills[k].qty * times[k]]
Times == [k \in Keys |-> Fills[k].times]

\* The sum the history takes off is a sum over the keys (WoundBack).
LEMMA BookedSummed ==
  ASSUME NEW S \in SUBSET Keys
  PROVE  MapThenSumSet(LAMBDA k : Fills[k].qty * booked[k], S) = SumOver(Moved(booked), S)
<1> DEFINE A(g) == [s \in SUBSET S |->
                      IF s = {} THEN 0
                      ELSE Fills[Taken(s)].qty * booked[Taken(s)] + g[s \ {Taken(s)}]]
<1>1. ASSUME NEW g PROVE A(g) = Round(Moved(booked), S, g)
  <2>1. \A s \in SUBSET S : s # {} =>
          Moved(booked)[Taken(s)] = Fills[Taken(s)].qty * booked[Taken(s)]
    BY DEF Taken, Moved
  <2> QED BY <2>1 DEF Round
<1>2. /\ MapThenSumSet(LAMBDA k : Fills[k].qty * booked[k], S) = (CHOOSE g : g = A(g))[S]
      /\ SumOver(Moved(booked), S) = (CHOOSE g : g = Round(Moved(booked), S, g))[S]
  BY Zenon DEF SumOver, MapThenSumSet, MapThenFoldSet, Round, Taken
<1> HIDE DEF A
<1>3. (CHOOSE g : g = A(g)) = (CHOOSE g : g = Round(Moved(booked), S, g))
  BY <1>1, Zenon
<1> QED BY <1>2, <1>3

\* ... and so is what was traded (Traded).
LEMMA TradedSummed ==
  ASSUME NEW S \in SUBSET Keys
  PROVE  Traded(S) = SumOver(Moved(Times), S)
<1> DEFINE A(g) == [s \in SUBSET S |->
                      IF s = {} THEN 0
                      ELSE Fills[Taken(s)].qty * Fills[Taken(s)].times + g[s \ {Taken(s)}]]
<1>1. ASSUME NEW g PROVE A(g) = Round(Moved(Times), S, g)
  <2>1. \A s \in SUBSET S : s # {} =>
          Moved(Times)[Taken(s)] = Fills[Taken(s)].qty * Fills[Taken(s)].times
    BY DEF Taken, Moved, Times
  <2> QED BY <2>1 DEF Round
<1>2. /\ Traded(S) = (CHOOSE g : g = A(g))[S]
      /\ SumOver(Moved(Times), S) = (CHOOSE g : g = Round(Moved(Times), S, g))[S]
  BY Zenon DEF Traded, SumOver, MapThenSumSet, MapThenFoldSet, Round, Taken
<1> HIDE DEF A
<1>3. (CHOOSE g : g = A(g)) = (CHOOSE g : g = Round(Moved(Times), S, g))
  BY <1>1, Zenon
<1> QED BY <1>2, <1>3

\* The worth of holdings is one too (Worth).
Worths(units, price) == [h \in DOMAIN units |-> units[h] * price]

LEMMA WorthSummed ==
  ASSUME NEW units, NEW price
  PROVE  Worth(units, price) = SumOver(Worths(units, price), DOMAIN units)
<1> DEFINE S == DOMAIN units
           A(g) == [s \in SUBSET S |->
                      IF s = {} THEN 0
                      ELSE units[Taken(s)] * price + g[s \ {Taken(s)}]]
<1>1. ASSUME NEW g PROVE A(g) = Round(Worths(units, price), S, g)
  <2>1. \A s \in SUBSET S : s # {} => Worths(units, price)[Taken(s)] = units[Taken(s)] * price
    BY DEF Taken, Worths
  <2> QED BY <2>1 DEF Round
<1>2. /\ Worth(units, price) = (CHOOSE g : g = A(g))[S]
      /\ SumOver(Worths(units, price), S) = (CHOOSE g : g = Round(Worths(units, price), S, g))[S]
  BY Zenon DEF Worth, SumOver, MapThenSumSet, MapThenFoldSet, Round, Taken
<1> HIDE DEF A
<1>3. (CHOOSE g : g = A(g)) = (CHOOSE g : g = Round(Worths(units, price), S, g))
  BY <1>1, Zenon
<1> QED BY <1>2, <1>3

\* The executions are finitely many and move whole units.
LEMMA MovedIsInt ==
  /\ IsFiniteSet(Keys) /\ \A S \in SUBSET Keys : IsFiniteSet(S)
  /\ \A k \in Keys : Fills[k].day \in Days /\ Fills[k].qty \in Int /\ Fills[k].times \in Nat
  /\ \A k \in Keys : Moved(Times)[k] \in Int
  /\ \A S \in SUBSET Keys : SumOver(Moved(Times), S) \in Int
<1>1. IsFiniteSet(Keys) /\ \A S \in SUBSET Keys : IsFiniteSet(S)
  BY HoldingAssumption, FS_Subset DEF Keys
<1>2. \A k \in Keys : Fills[k].day \in Days /\ Fills[k].qty \in Int /\ Fills[k].times \in Nat
  BY HoldingAssumption DEF Keys
<1>3. ASSUME NEW k \in Keys PROVE Moved(Times)[k] \in Int
  <2>1. Moved(Times)[k] = Fills[k].qty * Fills[k].times
    BY DEF Moved, Times
  <2> QED BY <1>2, <2>1
<1>4. \A S \in SUBSET Keys : SumOver(Moved(Times), S) \in Int
  BY <1>1, <1>3, SumLess
<1> QED BY <1>1, <1>2, <1>3, <1>4

\* What is held on a day is a number of units (Held).
LEMMA HeldIsInt ==
  ASSUME NEW day
  PROVE  /\ Held(day) \in Int
         /\ Held(day) = Opening + SumOver(Moved(Times), {k \in Keys : Fills[k].day <= day})
BY TradedSummed, MovedIsInt, HoldingAssumption DEF Held

\* What is held on one day and on a later one differ by what is traded between.
LEMMA HeldBetween ==
  ASSUME NEW from \in Int, NEW to \in Int, from <= to
  PROVE  Held(to) = Held(from)
                    + SumOver(Moved(Times), {k \in Keys : Fills[k].day \in from + 1 .. to})
<1> DEFINE Then == {k \in Keys : Fills[k].day <= from}
           Since == {k \in Keys : Fills[k].day \in from + 1 .. to}
<1>1. \A k \in Keys : Fills[k].day \in Int
  BY MovedIsInt, RateAssumption DEF Days
<1>2. /\ {k \in Keys : Fills[k].day <= to} = Then \cup Since
      /\ Then \cap Since = {}
  BY <1>1
<1>3. SumOver(Moved(Times), Then \cup Since)
        = SumOver(Moved(Times), Then) + SumOver(Moved(Times), Since)
  <2>1. Then \in SUBSET Keys /\ Since \in SUBSET Keys
    OBVIOUS
  <2>2. IsFiniteSet(Then) /\ IsFiniteSet(Since) /\ \A k \in Then \cup Since : Moved(Times)[k] \in Int
    BY <2>1, MovedIsInt
  <2> HIDE DEF Then, Since
  <2> QED BY <1>2, <2>2, SumOfUnion
<1>4. SumOver(Moved(Times), Then) \in Int /\ SumOver(Moved(Times), Since) \in Int
  BY MovedIsInt
<1>5. /\ Held(to) = Opening + SumOver(Moved(Times), Then \cup Since)
      /\ Held(from) = Opening + SumOver(Moved(Times), Then)
  BY <1>2, HeldIsInt
<1>6. Opening \in Int
  BY HoldingAssumption
<1>7. Held(to) = Held(from) + SumOver(Moved(Times), Since)
  <2> HIDE DEF Then, Since
  <2> QED BY <1>3, <1>4, <1>5, <1>6
<1> QED BY <1>7

----------------------------------------------------------------------------
(* What the statements leave behind.                                        *)

\* The accounts that statements value.
Stating == Brokers \cup {"rsu", "pension"}

\* Rows are finitely many and each has its id; what is valued from statements is
\* kept in the base currency and read from its valuations, and what is valued by
\* hand has the values that were typed or fetched.
RowsTrue ==
  /\ IsFiniteSet(vals)
  /\ \A v, w \in vals : v.id = w.id => v = w
  /\ read \in [all : SUBSET [from : Days, to : Days], last : [from : Days, to : Days]]
  /\ kind \in Stating => /\ acct.ccy = "base" /\ acct.source = "latest_valuation"
                         /\ \A v \in vals : v.ccy = "base"
                         /\ read.all = {} => vals = {} /\ stated = Unset
  /\ kind \notin Stating => stated = Unset /\ \A v \in vals : v.value \in Values

\* While requests take turns: a key has its rows as soon as a statement covers
\* its day, and the lots are those of the statement read last.
TradesTrue ==
  kind = "broker" =>
    /\ \A k \in Keys :
         booked[k] = IF \E p \in read.all : k \in InPeriod(p) THEN Fills[k].times ELSE 0
    /\ read.all # {} => lots[Share] = Held(read.last.to)

\* A broker's or an award's rows are dated as their statements are, and those of
\* the latest one say what it says.
DatedTrue ==
  kind \in Brokers \cup {"rsu"} /\ stated # Unset =>
    /\ \A v \in vals : /\ v.moment = 0 /\ v.day <= read.last.to
                       /\ v.day = read.last.to => v.value = stated
    /\ \E v \in vals : v.day = read.last.to
    /\ kind \in Brokers => stated = Nav(read.last)

\* What is kept of awards is what the latest statement says, and nothing newer.
AwardsTrue ==
  kind = "rsu" =>
    /\ lots[Share] = 0
    /\ read.all = {} => prices = {}
    /\ stated # Unset =>
         /\ \A q \in prices : q = StatementPrice(q.day) /\ q.day <= read.last.to
         /\ StatementPrice(read.last.to) \in prices
         /\ \A h \in Holds : lots[h] = Reported(read.last.to)[h]
         /\ stated = Worth(Reported(read.last.to), Price[read.last.to])

\* A pension's rows are dated as they are written, and the last one says what the
\* statement does.
PensionTrue ==
  kind = "pension" =>
    /\ lots[Share] = 0
    /\ \A v \in vals : v.moment = v.id /\ v.day <= today
    /\ \A v, w \in vals : v.id < w.id => v.day <= w.day
    /\ stated # Unset =>
         vals # {} /\ \A v \in vals : (\A w \in vals : w.id <= v.id) => v.value = stated

\* Written in the order of dates, the mark is the worth of the latest row, unless
\* several rows share that date.
MarkTrue ==
  (kind = "property" \/ acct.source = "manual_mark") /\ inOrder =>
    ((\A v, w \in LatestBy(vals) : v = w) =>
       \A v \in LatestBy(vals) : v.value = acct.mark /\ v.ccy = acct.ccy)

HoldInv ==
  /\ TypeOK /\ RowsTrue /\ TradesTrue /\ DatedTrue /\ AwardsTrue /\ PensionTrue /\ MarkTrue

----------------------------------------------------------------------------
(* Rows of valuations.                                                      *)

\* A new row has an id no other has (NextId).
LEMMA NextIdIsNew ==
  ASSUME ValTypeOK, IsFiniteSet(vals)
  PROVE  NextId \in Nat \ {0} /\ \A v \in vals : v.id < NextId
<1>1. CASE vals = {}
  BY <1>1 DEF NextId
<1>2. CASE vals # {}
  <2> DEFINE ids == {v.id : v \in vals}
  <2>1. IsFiniteSet(ids)
    <3> DEFINE idOf == [v \in vals |-> v.id]
    <3>1. IsFiniteSet({idOf[v] : v \in vals})
      <4> HIDE DEF idOf
      <4> QED BY FiniteImage
    <3>2. {idOf[v] : v \in vals} = ids
      OBVIOUS
    <3> QED BY <3>1, <3>2
  <2>2. ids # {} /\ ids \subseteq Nat /\ ids \subseteq Int
    BY <1>2 DEF ValTypeOK, Valuation
  <2>3. Max(ids) \in ids /\ \A i \in ids : i <= Max(ids)
    <3> HIDE DEF ids
    <3> QED BY <2>1, <2>2, Greatest
  <2>4. NextId = 1 + Max(ids)
    BY <1>2 DEF NextId
  <2>5. \A v \in vals : v.id \in ids
    OBVIOUS
  <2> HIDE DEF ids
  <2>6. Max(ids) \in Nat
    BY <2>2, <2>3
  <2>7. ASSUME NEW v \in vals PROVE v.id < NextId
    <3>1. v.id \in Nat /\ v.id <= Max(ids)
      BY <2>2, <2>3, <2>5
    <3> QED BY <3>1, <2>4, <2>6
  <2> QED BY <2>4, <2>6, <2>7
<1> QED BY <1>1, <1>2

\* Taking a row in keeps what is true of all rows.
LEMMA RowAdded ==
  ASSUME ValTypeOK, IsFiniteSet(vals), \A v, w \in vals : v.id = w.id => v = w,
         NEW day \in Days, NEW moment \in Nat, NEW value \in Int, NEW ccy \in Currencies,
         vals' = vals \cup {NewVal(day, moment, value, ccy)}
  PROVE  /\ vals' \subseteq Valuation /\ IsFiniteSet(vals')
         /\ \A v, w \in vals' : v.id = w.id => v = w
<1>1. NextId \in Nat \ {0} /\ \A v \in vals : v.id < NextId
  BY NextIdIsNew
<1>2. NewVal(day, moment, value, ccy) \in Valuation
  BY <1>1 DEF NewVal, Valuation
<1>3. IsFiniteSet(vals')
  BY FS_AddElement
<1>4. \A v \in vals : v.id \in Nat /\ v.id # NextId
  BY <1>1 DEF ValTypeOK, Valuation
<1> QED BY <1>2, <1>3, <1>4 DEF NewVal, ValTypeOK

----------------------------------------------------------------------------
(* The rates.                                                               *)

\* The day a writer is at is one it has left (NextDay).
LEMMA NextDayIsLeft ==
  ASSUME RateTypeOK, NEW w \in Writers, job[w].left # {}
  PROVE  NextDay(w) \in job[w].left /\ NextDay(w) \in Days
<1>1. job[w].left \subseteq Days /\ Days \subseteq Nat
  BY RateAssumption DEF RateTypeOK, Days
<1>2. PICK d \in job[w].left : \A e \in job[w].left : d <= e
  BY <1>1, LeastNat
<1>3. NextDay(w) \in job[w].left
  BY <1>2 DEF NextDay, Min
<1> QED BY <1>1, <1>3

\* A writer that sets out for some days is typed as before (Upserts).
LEMMA UpsertsKeep ==
  ASSUME RateTypeOK, UNCHANGED <<today, rates>>, NEW w \in Writers, NEW way \in Ways,
         NEW days \in SUBSET Days, NEW typed \in Nat, Upserts(w, way, days, typed)
  PROVE  RateTypeOK'
BY DEF RateTypeOK, Upserts, Idle

\* The writers keep one row per direction and day (FxStep): a row replaces the one
\* it is for, and where two writers meet the constraint refuses the second.
LEMMA RatesKeep == RateTypeOK /\ [FxStep]_fxVars => RateTypeOK'
<1> SUFFICES ASSUME RateTypeOK, [FxStep]_fxVars PROVE RateTypeOK'
  OBVIOUS
<1>0. /\ today \in Days /\ Days \subseteq Nat /\ LastDay \in Nat /\ NoRate \in Nat
      /\ Typed \subseteq Nat /\ Market \in [Days -> Nat \ {0}]
  BY RateAssumption DEF RateTypeOK, Days, NoRate
<1>1. ASSUME NEW way \in Ways, NEW day \in Days, NEW level \in Typed, fx_add_rate(way, day, level)
      PROVE  RateTypeOK'
  <2>1. {day} \in SUBSET Days /\ level \in Nat /\ "page" \in Writers
    BY <1>0 DEF Writers
  <2> QED BY <1>1, <2>1, UpsertsKeep DEF fx_add_rate
<1>2. ASSUME NEW way \in Ways, fx_fetch_current(way) PROVE RateTypeOK'
  <2>1. {today} \in SUBSET Days /\ "page" \in Writers
    BY <1>0 DEF Writers
  <2> QED BY <1>0, <1>2, <2>1, UpsertsKeep DEF fx_fetch_current
<1>3. ASSUME NEW way \in Ways, NEW from \in Days, fx_fetch_historical(way, from)
      PROVE  RateTypeOK'
  <2>1. (from .. today - 1) \in SUBSET Days /\ "page" \in Writers
    BY <1>0 DEF Writers, Days
  <2> QED BY <1>0, <1>3, <2>1, UpsertsKeep DEF fx_fetch_historical
<1>4. ASSUME NEW w \in Writers, LookUp(w) PROVE RateTypeOK'
  BY <1>4 DEF LookUp, RateTypeOK
<1>5. ASSUME NEW w \in Writers, Store(w) PROVE RateTypeOK'
  <2> DEFINE j == job[w]
             d == NextDay(w)
             row == [way |-> j.way, day |-> d,
                     level |-> IF j.typed = NoRate THEN Market[d] ELSE j.typed]
             refused == j.found = "none" /\ RowThere(w)
  <2>1. d \in Days
    BY <1>5, NextDayIsLeft DEF Store
  <2>2. /\ rates' = IF refused THEN rates ELSE Kept(row)
        /\ job' = [job EXCEPT ![w] = IF refused THEN Idle
                                     ELSE [j EXCEPT !.left = @ \ {d}, !.found = "unread"]]
        /\ today' = today
    BY <1>5 DEF Store
  <2>3. row \in RateRow
    BY <1>0, <2>1 DEF RateRow, RateTypeOK, NoRate
  <2>4. /\ rates' \subseteq RateRow
        /\ \A r, s \in rates' : r.way = s.way /\ r.day = s.day => r = s
    <3> HIDE DEF row, refused
    <3>1. CASE refused
      BY <2>2, <3>1 DEF RateTypeOK
    <3>2. CASE ~refused
      <4>1. rates' = Kept(row) /\ row \in RateRow
        BY <2>2, <2>3, <3>2
      <4> QED BY <4>1 DEF RateTypeOK, Kept
    <3> QED BY <3>1, <3>2
  <2>5. job' \in [Writers -> [way : Ways, left : SUBSET Days, typed : Nat,
                              found : {"unread", "row", "none"}, more : BOOLEAN]]
    <3>1. Idle \in [way : Ways, left : SUBSET Days, typed : Nat,
                    found : {"unread", "row", "none"}, more : BOOLEAN]
      BY DEF Idle, Ways, NoRate
    <3>2. [j EXCEPT !.left = @ \ {d}, !.found = "unread"]
            \in [way : Ways, left : SUBSET Days, typed : Nat,
                 found : {"unread", "row", "none"}, more : BOOLEAN]
      BY DEF RateTypeOK
    <3> HIDE DEF d, j, refused
    <3> QED BY <2>2, <3>1, <3>2 DEF RateTypeOK
  <2> QED BY <1>0, <2>2, <2>4, <2>5 DEF RateTypeOK
<1>6. CASE BootHistory
  <2> DEFINE days == IF Cardinality(Along("inverse")) >= Enough THEN {} ELSE 0 .. today - 1
             j == [job["boot"] EXCEPT !.left = days, !.more = FALSE]
  <2>1. days \in SUBSET Days /\ "boot" \in Writers
    BY <1>0 DEF Days, Writers
  <2>2. job' = [job EXCEPT !["boot"] = j] /\ UNCHANGED <<today, rates>>
    BY <1>6, <2>1 DEF BootHistory, RateTypeOK
  <2>3. j \in [way : Ways, left : SUBSET Days, typed : Nat,
               found : {"unread", "row", "none"}, more : BOOLEAN]
    <3> HIDE DEF days
    <3> QED BY <2>1 DEF RateTypeOK
  <2> HIDE DEF j
  <2> QED BY <2>1, <2>2, <2>3 DEF RateTypeOK
<1>7. CASE Restart
  <2>1. {today} \in SUBSET Days /\ {} \in SUBSET Days /\ "inverse" \in Ways
    BY <1>0 DEF Ways
  <2> QED BY <1>0, <1>7, <2>1 DEF Restart, RateTypeOK, Booting, Idle
<1>8. CASE Tick
  <2>1. today' \in Days
    BY <1>0, <1>8 DEF Tick, Days
  <2> QED BY <1>8, <2>1 DEF Tick, RateTypeOK
<1>9. CASE UNCHANGED fxVars
  BY <1>9 DEF fxVars, RateTypeOK
<1> QED BY <1>1, <1>2, <1>3, <1>4, <1>5, <1>6, <1>7, <1>8, <1>9 DEF FxStep

----------------------------------------------------------------------------
(* The mark.                                                                *)

\* A row is before no row of its own date.
LEMMA RowsCompare ==
  ASSUME NEW v \in Valuation
  PROVE  v.id \in Nat /\ v.day \in Nat /\ v.moment \in Nat /\ ~Before(v, v)
<1>1. v.id \in Nat /\ v.day \in Nat /\ v.moment \in Nat
  BY RateAssumption DEF Valuation, Days
<1> QED BY <1>1 DEF Before

\* A row dated after all others is the latest.
LEMMA AddedIsLatest ==
  ASSUME NEW row \in Valuation, vals \subseteq Valuation, \A v \in vals : Before(v, row)
  PROVE  LatestBy(vals \cup {row}) = {row}
<1>1. ~Before(row, row) /\ \A v \in vals : ~Before(row, v)
  <2>1. row.day \in Nat /\ row.moment \in Nat
    BY RowsCompare
  <2>2. \A v \in vals : v.day \in Nat /\ v.moment \in Nat
    BY RowsCompare
  <2> QED BY <2>1, <2>2 DEF Before
<1> QED BY <1>1 DEF LatestBy

\* Adding a value by hand, and taking in one a provider returns.
LEMMA HandAdds ==
  ASSUME ValTypeOK, IsFiniteSet(vals), \A v, w \in vals : v.id = w.id => v = w, MarkTrue,
         NEW day \in Days, NEW moment \in Nat, NEW value \in Values, NEW ccy \in Currencies,
         vals' = vals \cup {NewVal(day, moment, value, ccy)},
         acct'.mark = value, acct'.ccy = acct.ccy,
         inOrder' => ccy = acct.ccy /\ \A v \in vals : Before(v, NewVal(day, moment, value, ccy))
  PROVE  /\ vals' \subseteq Valuation /\ IsFiniteSet(vals')
         /\ \A v, w \in vals' : v.id = w.id => v = w
         /\ MarkTrue'
<1> DEFINE row == NewVal(day, moment, value, ccy)
<1>0. value \in Int
  BY ValueAssumption
<1>1. /\ vals' \subseteq Valuation /\ IsFiniteSet(vals')
      /\ \A v, w \in vals' : v.id = w.id => v = w
  BY <1>0, RowAdded
<1>2. ASSUME inOrder' PROVE LatestBy(vals') = {row}
  <2>1. row \in Valuation /\ vals \subseteq Valuation
    BY <1>1
  <2>2. \A v \in vals : Before(v, row)
    BY <1>2
  <2>3. vals' = vals \cup {row}
    OBVIOUS
  <2> HIDE DEF row
  <2> QED BY <2>1, <2>2, <2>3, AddedIsLatest
<1>3. row.value = value /\ row.ccy = ccy
  BY DEF NewVal
<1>4. MarkTrue'
  <2> SUFFICES ASSUME inOrder', NEW v \in LatestBy(vals')
               PROVE  v.value = acct'.mark /\ v.ccy = acct'.ccy
    BY DEF MarkTrue, LatestBy
  <2>1. v = row /\ ccy = acct.ccy
    BY <1>2
  <2> QED BY <1>3, <2>1
<1> QED BY <1>1, <1>4

\* Changing a row in its place: the mark follows if it is the latest.
LEMMA UpdateKeeps ==
  ASSUME ValTypeOK, IsFiniteSet(vals), \A v, w \in vals : v.id = w.id => v = w, MarkTrue,
         kind = "property", kind' = kind,
         NEW v \in vals, NEW day \in Days, NEW value \in Values, NEW ccy \in Currencies,
         update_valuation(v, day, value, ccy)
  PROVE  ValTypeOK' /\ IsFiniteSet(vals') /\ (\A u, w \in vals' : u.id = w.id => u = w) /\ MarkTrue'
<1> DEFINE row == [v EXCEPT !.day = day, !.moment = 0, !.value = value, !.ccy = ccy]
<1>0. /\ value \in Int /\ v \in Valuation /\ vals \subseteq Valuation
      /\ UNCHANGED fxVars
  BY ValueAssumption DEF ValTypeOK, update_valuation
<1>1. /\ vals' = (vals \ {v}) \cup {row}
      /\ inOrder' = (inOrder /\ ccy = acct.ccy
                     /\ \A o \in vals \ {v} : Before(o, row) = Before(o, v) /\ Before(row, o) = Before(v, o))
  BY DEF update_valuation
<1>2. PICK latest \in LatestBy(vals) :
        acct' = [acct EXCEPT !.mark = IF latest = v THEN value ELSE @]
  BY DEF update_valuation
<1>3. row \in Valuation /\ row.id = v.id /\ row.value = value /\ row.ccy = ccy
  BY <1>0 DEF Valuation
<1>4. acct' \in [ccy : Currencies, mark : Int, source : Sources] /\ acct'.ccy = acct.ccy
  BY <1>0, <1>2 DEF ValTypeOK
<1>5. inOrder' \in BOOLEAN
  BY <1>1 DEF ValTypeOK
<1> HIDE DEF row
<1>6. vals' \subseteq Valuation /\ IsFiniteSet(vals')
  <2>1. IsFiniteSet(vals \ {v})
    BY FS_Subset
  <2> QED BY <1>0, <1>1, <1>3, <2>1, FS_AddElement
<1>7. ValTypeOK'
  BY <1>0, <1>4, <1>5, <1>6 DEF ValTypeOK, fxVars, RateTypeOK
<1>8. \A o \in vals \ {v} : o.id # row.id /\ o # row
  BY <1>3
<1>9. \A u, w \in vals' : u.id = w.id => u = w
  BY <1>1, <1>8
<1>10. MarkTrue'
  <2> SUFFICES ASSUME inOrder', \A u, w \in LatestBy(vals') : u = w, NEW u \in LatestBy(vals')
               PROVE  u.value = acct'.mark /\ u.ccy = acct'.ccy
    BY DEF MarkTrue, LatestBy
  <2>1. ~Before(v, v) /\ ~Before(row, row)
    BY <1>0, <1>3, RowsCompare
  <2>2. /\ inOrder /\ ccy = acct.ccy
        /\ \A o \in vals \ {v} : Before(o, row) = Before(o, v) /\ Before(row, o) = Before(v, o)
    BY <1>1
  <2>3. \A o \in vals \ {v} : o \in LatestBy(vals') <=> o \in LatestBy(vals)
    BY <1>1, <2>1, <2>2 DEF LatestBy
  <2>4. row \in LatestBy(vals') <=> v \in LatestBy(vals)
    BY <1>1, <2>1, <2>2 DEF LatestBy
  <2>5. CASE v \in LatestBy(vals)
    <3>1. u = row /\ \A o \in vals \ {v} : o \notin LatestBy(vals)
      BY <1>8, <2>3, <2>4, <2>5
    <3>2. latest = v
      BY <3>1 DEF LatestBy
    <3>3. acct'.mark = value
      BY <1>2, <3>2 DEF ValTypeOK
    <3> QED BY <1>3, <1>4, <2>2, <3>1, <3>3
  <2>6. CASE v \notin LatestBy(vals)
    <3>1. u \in LatestBy(vals) /\ u # v
      BY <1>1, <2>3, <2>4, <2>6 DEF LatestBy
    <3>2. \A x, y \in LatestBy(vals) : x = y
      <4>1. \A x \in LatestBy(vals) : x \in vals \ {v}
        BY <2>6 DEF LatestBy
      <4> QED BY <2>3, <4>1
    <3>3. acct'.mark = acct.mark
      BY <1>2, <2>6 DEF ValTypeOK
    <3> QED BY <1>4, <2>2, <3>1, <3>2, <3>3 DEF MarkTrue
  <2> QED BY <2>5, <2>6
<1> QED BY <1>6, <1>7, <1>9, <1>10

\* All values of a property are typed or fetched.
LEMMA ValuesKeep ==
  ASSUME \A v \in vals : v.value \in Values, vals \subseteq Valuation, ValStep
  PROVE  \A v \in vals' : v.value \in Values
<1>1. ASSUME NEW value \in Values, apply_valuation(value)
      PROVE  \A v \in vals' : v.value \in Values
  BY <1>1 DEF apply_valuation, ValNow, NewVal
<1>2. ASSUME NEW day \in Days, NEW value \in Values, NEW ccy \in Currencies,
             add_valuation(day, value, ccy)
      PROVE  \A v \in vals' : v.value \in Values
  BY <1>2 DEF add_valuation, NewVal
<1>3. ASSUME NEW v \in vals, NEW day \in Days, NEW value \in Values, NEW ccy \in Currencies,
             update_valuation(v, day, value, ccy)
      PROVE  \A w \in vals' : w.value \in Values
  <2> DEFINE row == [v EXCEPT !.day = day, !.moment = 0, !.value = value, !.ccy = ccy]
  <2>1. vals' = (vals \ {v}) \cup {row}
    BY <1>3 DEF update_valuation
  <2>2. row.value = value
    BY DEF Valuation
  <2> HIDE DEF row
  <2> QED BY <2>1, <2>2
<1>4. ASSUME NEW v \in vals, delete_valuation(v) PROVE \A w \in vals' : w.value \in Values
  BY <1>4 DEF delete_valuation
<1>5. ASSUME NEW value, NEW price, account_update(value, price)
      PROVE  \A w \in vals' : w.value \in Values
  BY <1>5 DEF account_update
<1> QED BY <1>1, <1>2, <1>3, <1>4, <1>5 DEF ValStep, account_update_fetched

\* What the user and the provider do with the valuations of a property (ValStep).
LEMMA PropertyKeeps ==
  ASSUME HoldInv, kind = "property", ValStep, UNCHANGED holdVars
  PROVE  HoldInv'
<1>1. /\ ValTypeOK /\ IsFiniteSet(vals) /\ MarkTrue
      /\ \A v, w \in vals : v.id = w.id => v = w
      /\ kind' = kind
  BY DEF HoldInv, TypeOK, RowsTrue, holdVars
<1>2. SUFFICES /\ ValTypeOK' /\ IsFiniteSet(vals') /\ MarkTrue'
               /\ \A v, w \in vals' : v.id = w.id => v = w
  <2>1. TypeOK' <=> ValTypeOK'
    BY DEF HoldInv, TypeOK, holdVars
  <2>2. RowsTrue' <=> IsFiniteSet(vals') /\ \A v, w \in vals' : v.id = w.id => v = w
    <3>1. \A v \in vals' : v.value \in Values
      BY <1>1, ValuesKeep DEF HoldInv, RowsTrue, ValTypeOK, Stating, Brokers
    <3> QED BY <3>1 DEF HoldInv, RowsTrue, Stating, Brokers, holdVars
  <2>3. TradesTrue' /\ DatedTrue' /\ AwardsTrue' /\ PensionTrue'
    BY DEF TradesTrue, DatedTrue, AwardsTrue, PensionTrue, Brokers, holdVars
  <2> QED BY <1>2, <2>1, <2>2, <2>3 DEF HoldInv
<1>3. ASSUME NEW value \in Values, apply_valuation(value)
      PROVE  /\ ValTypeOK' /\ IsFiniteSet(vals') /\ MarkTrue'
             /\ \A v, w \in vals' : v.id = w.id => v = w
  <2>1. /\ vals' = vals \cup {NewVal(today, NextId, value, acct.ccy)}
        /\ acct' = [acct EXCEPT !.mark = value, !.source = "manual_mark"]
        /\ inOrder' = (inOrder /\ \A v \in vals : Before(v, NewVal(today, NextId, value, acct.ccy)))
        /\ UNCHANGED fxVars
    BY <1>3 DEF apply_valuation, ValNow
  <2>2. today \in Days /\ NextId \in Nat /\ acct.ccy \in Currencies /\ value \in Int
    BY <1>1, NextIdIsNew, ValueAssumption DEF ValTypeOK, RateTypeOK
  <2>3. /\ acct' \in [ccy : Currencies, mark : Int, source : Sources]
        /\ acct'.mark = value /\ acct'.ccy = acct.ccy
    BY <1>1, <2>1, <2>2 DEF ValTypeOK, Sources
  <2>4. /\ vals' \subseteq Valuation /\ IsFiniteSet(vals') /\ MarkTrue'
        /\ \A v, w \in vals' : v.id = w.id => v = w
    BY <1>1, <2>1, <2>2, <2>3, HandAdds
  <2> QED BY <1>1, <2>1, <2>3, <2>4 DEF ValTypeOK, RateTypeOK, fxVars
<1>4. ASSUME NEW day \in Days, NEW value \in Values, NEW ccy \in Currencies,
             add_valuation(day, value, ccy)
      PROVE  /\ ValTypeOK' /\ IsFiniteSet(vals') /\ MarkTrue'
             /\ \A v, w \in vals' : v.id = w.id => v = w
  <2>1. /\ vals' = vals \cup {NewVal(day, 0, value, ccy)}
        /\ acct' = [acct EXCEPT !.mark = value]
        /\ inOrder' = (inOrder /\ ccy = acct.ccy /\ \A v \in vals : Before(v, NewVal(day, 0, value, ccy)))
        /\ UNCHANGED fxVars
    BY <1>4 DEF add_valuation
  <2>2. value \in Int /\ 0 \in Nat
    BY ValueAssumption
  <2>3. /\ acct' \in [ccy : Currencies, mark : Int, source : Sources]
        /\ acct'.mark = value /\ acct'.ccy = acct.ccy
    BY <1>1, <2>1, <2>2 DEF ValTypeOK
  <2>4. /\ vals' \subseteq Valuation /\ IsFiniteSet(vals') /\ MarkTrue'
        /\ \A v, w \in vals' : v.id = w.id => v = w
    BY <1>1, <2>1, <2>2, <2>3, HandAdds
  <2> QED BY <1>1, <2>1, <2>3, <2>4 DEF ValTypeOK, RateTypeOK, fxVars
<1>5. ASSUME NEW v \in vals, NEW day \in Days, NEW value \in Values, NEW ccy \in Currencies,
             update_valuation(v, day, value, ccy)
      PROVE  /\ ValTypeOK' /\ IsFiniteSet(vals') /\ MarkTrue'
             /\ \A u, w \in vals' : u.id = w.id => u = w
  BY <1>1, <1>5, UpdateKeeps
<1>6. ASSUME NEW v \in vals, delete_valuation(v)
      PROVE  /\ ValTypeOK' /\ IsFiniteSet(vals') /\ MarkTrue'
             /\ \A u, w \in vals' : u.id = w.id => u = w
  <2>1. /\ vals' = vals \ {v} /\ UNCHANGED fxVars
        /\ inOrder' = \A o \in vals \ {v} : o.ccy = acct.ccy
        /\ IF vals' = {} THEN acct' = [acct EXCEPT !.mark = Unset]
           ELSE \E latest \in LatestBy(vals') : acct' = [acct EXCEPT !.mark = latest.value]
    BY <1>6 DEF delete_valuation
  <2>2. vals' \subseteq Valuation /\ IsFiniteSet(vals') /\ Unset \in Int
    BY <1>1, <2>1, FS_Subset DEF ValTypeOK, Unset
  <2>3. CASE vals' = {}
    <3>1. acct' \in [ccy : Currencies, mark : Int, source : Sources]
      BY <1>1, <2>1, <2>2, <2>3 DEF ValTypeOK
    <3>2. MarkTrue'
      BY <2>3 DEF MarkTrue, LatestBy
    <3> QED BY <1>1, <2>1, <2>2, <3>1, <3>2 DEF ValTypeOK, RateTypeOK, fxVars
  <2>4. CASE vals' # {}
    <3>1. PICK latest \in LatestBy(vals') : acct' = [acct EXCEPT !.mark = latest.value]
      BY <2>1, <2>4
    <3>2. latest.value \in Int
      BY <2>2 DEF LatestBy, Valuation
    <3>3. acct' \in [ccy : Currencies, mark : Int, source : Sources] /\ acct'.mark = latest.value
          /\ acct'.ccy = acct.ccy
      BY <1>1, <3>1, <3>2 DEF ValTypeOK
    <3>4. MarkTrue'
      <4> SUFFICES ASSUME inOrder', \A u, w \in LatestBy(vals') : u = w, NEW u \in LatestBy(vals')
                   PROVE  u.value = acct'.mark /\ u.ccy = acct'.ccy
        BY DEF MarkTrue, LatestBy
      <4>1. u = latest /\ u \in vals \ {v}
        BY <2>1 DEF LatestBy
      <4> QED BY <2>1, <3>3, <4>1
    <3>5. inOrder' \in BOOLEAN
      BY <2>1
    <3> QED BY <1>1, <2>1, <2>2, <3>3, <3>4, <3>5 DEF ValTypeOK, RateTypeOK, fxVars
  <2> QED BY <2>3, <2>4
<1>7. ASSUME NEW value \in Values \cup {Unset}, NEW price \in Values \cup {Unset},
             account_update(value, price)
      PROVE  /\ ValTypeOK' /\ IsFiniteSet(vals') /\ MarkTrue'
             /\ \A u, w \in vals' : u.id = w.id => u = w
  <2>1. /\ acct' = [acct EXCEPT !.source = "manual_mark",
                                !.mark = IF value /= Unset THEN value ELSE price]
        /\ inOrder' = (vals = {}) /\ vals' = vals /\ UNCHANGED fxVars
    BY <1>7 DEF account_update
  <2>2. value \in Int /\ price \in Int
    BY ValueAssumption DEF Unset
  <2>3. acct' \in [ccy : Currencies, mark : Int, source : Sources]
    BY <1>1, <2>1, <2>2 DEF ValTypeOK, Sources
  <2>4. MarkTrue'
    BY <2>1 DEF MarkTrue, LatestBy
  <2> QED BY <1>1, <2>1, <2>3, <2>4 DEF ValTypeOK, RateTypeOK, fxVars
<1>8. ASSUME NEW value \in Values, account_update_fetched(value)
      PROVE  /\ ValTypeOK' /\ IsFiniteSet(vals') /\ MarkTrue'
             /\ \A v, w \in vals' : v.id = w.id => v = w
  BY <1>3, <1>8 DEF account_update_fetched
<1> QED BY <1>3, <1>4, <1>5, <1>6, <1>7, <1>8 DEF ValStep

----------------------------------------------------------------------------
(* Days pass and rates move.                                                *)

\* No account has been read yet.
LEMMA HoldInit == Init => HoldInv
<1> SUFFICES ASSUME Init PROVE HoldInv
  OBVIOUS
<1>1. /\ kind \in Kinds
      /\ lots = [h \in Holds \cup {Share} |-> 0] /\ booked = [k \in Keys |-> 0]
      /\ prices = {} /\ read = NoneRead /\ stated = Unset
  BY HoldingAssumption DEF Init
<1>2. 0 \in Days /\ LastDay \in Nat
  BY RateAssumption DEF Days
<1>3. FxInit => RateTypeOK
  <2> SUFFICES ASSUME FxInit PROVE RateTypeOK
    OBVIOUS
  <2>1. /\ Idle \in [way : Ways, left : SUBSET Days, typed : Nat,
                     found : {"unread", "row", "none"}, more : BOOLEAN]
        /\ Booting \in [way : Ways, left : SUBSET Days, typed : Nat,
                        found : {"unread", "row", "none"}, more : BOOLEAN]
    BY <1>2 DEF FxInit, Idle, Booting, Ways, NoRate
  <2> QED BY <1>2, <2>1 DEF FxInit, RateTypeOK
<1>4. /\ ValTypeOK /\ IsFiniteSet(vals) /\ MarkTrue
      /\ \A v, w \in vals : v.id = w.id => v = w
      /\ kind \in Stating => vals = {} /\ acct.ccy = "base" /\ acct.source = "latest_valuation"
      /\ \A v \in vals : v.value \in Values
  <2>1. CASE kind = "property"
    <3>1. PICK mark \in {Unset} \cup Values, source \in Sources : ValInit("base", mark, source, {})
      BY <2>1 DEF Init, AccountInit
    <3>2. mark \in Int
      BY ValueAssumption DEF Unset
    <3>3. /\ vals = {} /\ acct = [ccy |-> "base", mark |-> mark, source |-> source]
          /\ inOrder = TRUE /\ FxInit
      BY <3>1 DEF ValInit
    <3> QED
      BY <1>3, <2>1, <3>2, <3>3, FS_EmptySet
      DEF ValTypeOK, Currencies, MarkTrue, LatestBy, Stating, Brokers
  <2>2. CASE kind = "abroad"
    <3>1. PICK value \in Values :
            LET row == [id |-> 1, day |-> 0, moment |-> 0, value |-> value, ccy |-> "foreign"] IN
            \/ \E vs \in {{}, {row}}, source \in Sources : ValInit("foreign", value, source, vs)
            \/ ValInit("base", Unset, "latest_valuation", {row})
      BY <2>2 DEF Init, AccountInit
    <3> DEFINE row == [id |-> 1, day |-> 0, moment |-> 0, value |-> value, ccy |-> "foreign"]
    <3>2. value \in Int /\ row \in Valuation /\ Unset \in Int
      BY <1>2, ValueAssumption DEF Valuation, Currencies, Unset
    <3>3. /\ vals \in {{}, {row}} /\ inOrder = TRUE /\ FxInit
          /\ \/ acct.mark = value /\ acct.ccy = "foreign"
             \/ acct.source = "latest_valuation"
          /\ acct \in [ccy : Currencies, mark : Int, source : Sources]
      BY <3>1, <3>2 DEF ValInit, Currencies, Sources
    <3>4. row.value = value /\ row.ccy = "foreign" /\ row.value \in Values
      OBVIOUS
    <3> HIDE DEF row
    <3>5. IsFiniteSet(vals)
      <4>1. IsFiniteSet({}) /\ IsFiniteSet({row})
        BY FS_EmptySet, FS_Singleton
      <4>2. vals = {} \/ vals = {row}
        BY <3>3
      <4> QED BY <4>1, <4>2
    <3>6. ValTypeOK
      BY <1>3, <3>2, <3>3 DEF ValTypeOK
    <3>7. MarkTrue
      BY <2>2, <3>3, <3>4 DEF MarkTrue, LatestBy
    <3>8. \A v \in vals : v = row /\ v.value \in Values
      BY <3>3, <3>4
    <3> QED BY <2>2, <3>5, <3>6, <3>7, <3>8 DEF Stating, Brokers
  <2>3. CASE kind \in Stating
    <3>1. ValInit("base", Unset, "latest_valuation", {})
      BY <2>3 DEF Init, AccountInit, Stating, Brokers
    <3>2. /\ vals = {} /\ acct = [ccy |-> "base", mark |-> Unset, source |-> "latest_valuation"]
          /\ inOrder = TRUE /\ FxInit
      BY <3>1 DEF ValInit
    <3> QED
      BY <1>3, <3>2, FS_EmptySet
      DEF ValTypeOK, Currencies, Sources, Unset, MarkTrue, LatestBy
  <2> QED BY <1>1, <2>1, <2>2, <2>3 DEF Kinds, Stating
<1>5. TypeOK
  BY <1>1, <1>4 DEF TypeOK, Unset
<1>6. RowsTrue
  BY <1>1, <1>2, <1>4 DEF RowsTrue, NoneRead
<1>7. TradesTrue
  BY <1>1 DEF TradesTrue, NoneRead
<1>8. DatedTrue /\ AwardsTrue
  BY <1>1 DEF DatedTrue, AwardsTrue
<1>9. PensionTrue
  BY <1>1, <1>4 DEF PensionTrue, Stating
<1> QED BY <1>4, <1>5, <1>6, <1>7, <1>8, <1>9 DEF HoldInv

\* What happens to the rates alone changes nothing else.
LEMMA RatesAlone ==
  ASSUME HoldInv, RateTypeOK', today <= today', UNCHANGED <<valVars, holdVars>>
  PROVE  HoldInv'
<1> USE DEF HoldInv, valVars, holdVars
<1>1. TypeOK'
  BY DEF TypeOK, ValTypeOK
<1>2. RowsTrue'
  BY DEF RowsTrue
<1>3. TradesTrue'
  BY DEF TradesTrue
<1>4. DatedTrue'
  BY DEF DatedTrue
<1>5. AwardsTrue'
  BY DEF AwardsTrue
<1>6. PensionTrue'
  <2>1. today \in Nat /\ today' \in Nat /\ \A v \in vals : v.day \in Nat
    BY RateAssumption DEF TypeOK, ValTypeOK, RateTypeOK, Valuation, Days
  <2> QED BY <2>1 DEF PensionTrue
<1>7. MarkTrue'
  BY DEF MarkTrue, LatestBy
<1> QED BY <1>1, <1>2, <1>3, <1>4, <1>5, <1>6, <1>7

\* Rates, days, and a page that fetches a rate.
LEMMA RatesAloneKeep ==
  ASSUME HoldInv,
         \/ kind = "abroad" /\ FxStep /\ UNCHANGED <<valVars, holdVars>>
         \/ kind = "abroad" /\ page_fetches /\ UNCHANGED holdVars
         \/ kind # "abroad" /\ Tick /\ UNCHANGED <<valVars, holdVars>>
         \/ UNCHANGED vars
  PROVE  HoldInv'
<1>0. RateTypeOK /\ today \in Nat
  BY RateAssumption DEF HoldInv, TypeOK, ValTypeOK, RateTypeOK, Days
<1>1. CASE FxStep /\ UNCHANGED <<valVars, holdVars>>
  <2>1. RateTypeOK'
    BY <1>0, <1>1, RatesKeep
  <2>2. today <= today'
    <3>1. today' = today \/ Tick
      BY <1>1 DEF FxStep, fx_add_rate, fx_fetch_current, fx_fetch_historical, LookUp, Store,
                  BootHistory, Restart
    <3> QED BY <1>0, <3>1 DEF Tick
  <2> QED BY <1>1, <2>1, <2>2, RatesAlone
<1>2. CASE page_fetches /\ UNCHANGED holdVars
  <2>1. /\ UNCHANGED <<today, rates, valVars, holdVars>>
        /\ Upserts("page", "direct", {today}, NoRate)
    BY <1>2 DEF page_fetches, valVars
  <2>2. {today} \in SUBSET Days /\ "page" \in Writers /\ "direct" \in Ways /\ NoRate \in Nat
    BY <1>0 DEF RateTypeOK, Writers, Ways, NoRate
  <2>3. RateTypeOK'
    BY <1>0, <2>1, <2>2, UpsertsKeep
  <2> QED BY <1>0, <2>1, <2>3, RatesAlone
<1>3. CASE Tick /\ UNCHANGED <<valVars, holdVars>>
  <2>1. FxStep
    BY <1>3 DEF FxStep
  <2> QED BY <1>1, <1>3, <2>1
<1>4. CASE UNCHANGED vars
  <2>1. RateTypeOK'
    BY <1>0, <1>4, RatesKeep DEF vars
  <2> QED BY <1>0, <1>4, <2>1, RatesAlone DEF vars, fxVars
<1> QED BY <1>1, <1>2, <1>3, <1>4

----------------------------------------------------------------------------
(* The broker's statements.                                                 *)

\* What a statement says it is worth, and the period it covers.
LEMMA PeriodIs ==
  ASSUME NEW p \in Periods
  PROVE  /\ p \in [from : Days, to : Days] /\ p = [from |-> p.from, to |-> p.to]
         /\ p.to \in Days /\ Held(p.to) \in Int /\ Nav(p) \in Int
<1>1. p \in [from : Days, to : Days] /\ p.to \in Days
  BY HoldingAssumption
<1>2. Held(p.to) \in Int /\ Price[p.to] \in Nat
  BY <1>1, HeldIsInt, HoldingAssumption
<1>3. Nav(p) \in Int
  BY <1>2 DEF Nav
<1> QED BY <1>1, <1>2, <1>3

\* A price of the broker's statements stands beside the others (Priced).
LEMMA PricesTyped ==
  ASSUME TypeOK, NEW day \in Days
  PROVE  /\ StatementPrice(day) \in [day : Days, moment : Nat, price : Nat]
         /\ \A q \in Priced(day) : q \in [day : Days, moment : Nat, price : Nat]
         /\ \A q \in prices \cup {StatementPrice(day)} : q \in [day : Days, moment : Nat, price : Nat]
<1>1. Price[day] \in Nat
  BY HoldingAssumption
<1>2. StatementPrice(day) \in [day : Days, moment : Nat, price : Nat]
  BY <1>1 DEF StatementPrice
<1> QED BY <1>2 DEF Priced, TypeOK

\* Reading a broker's statement (apply_ibkr_statement).
LEMMA StatementKeeps ==
  ASSUME HoldInv, NEW p \in Periods, apply_ibkr_statement(p)
  PROVE  HoldInv'
<1>1. /\ p \in [from : Days, to : Days] /\ p = [from |-> p.from, to |-> p.to]
      /\ p.to \in Days /\ Held(p.to) \in Int /\ Nav(p) \in Int
  BY PeriodIs
<1>2. /\ kind \in Brokers /\ kind' = kind /\ kind \in Stating
      /\ lots' = [lots EXCEPT ![Share] = Held(p.to)]
      /\ booked' = Booked(p)
      /\ prices' = IF Held(p.to) = 0 THEN prices ELSE Priced(p.to)
      /\ vals' = IF Nav(p) = 0 THEN vals ELSE vals \cup {NewVal(p.to, 0, Nav(p), acct.ccy)}
      /\ acct' = IF Nav(p) = 0 THEN acct ELSE [acct EXCEPT !.source = "latest_valuation"]
      /\ read' = [all |-> read.all \cup {p}, last |-> p]
      /\ stated' = IF Nav(p) /= 0 /\ DatesInOrder(p.to) THEN Nav(p) ELSE Unset
      /\ UNCHANGED <<fxVars, inOrder>>
  BY <1>1 DEF apply_ibkr_statement, Stating, WithRow, Midnight, Read
<1>3. /\ TypeOK /\ ValTypeOK /\ RowsTrue /\ IsFiniteSet(vals)
      /\ \A v, w \in vals : v.id = w.id => v = w
      /\ acct.ccy = "base" /\ acct.source = "latest_valuation" /\ acct.ccy \in Currencies
  BY <1>2 DEF HoldInv, TypeOK, RowsTrue, ValTypeOK
<1>4. /\ vals' \subseteq Valuation /\ IsFiniteSet(vals')
      /\ \A v, w \in vals' : v.id = w.id => v = w
  <2>1. CASE Nav(p) = 0
    BY <1>2, <1>3, <2>1 DEF ValTypeOK
  <2>2. CASE Nav(p) # 0
    <3>1. vals' = vals \cup {NewVal(p.to, 0, Nav(p), acct.ccy)} /\ 0 \in Nat
      BY <1>2, <2>2
    <3> QED BY <1>1, <1>3, <3>1, RowAdded
  <2> QED BY <2>1, <2>2
<1>5. acct' = acct
  BY <1>2, <1>3 DEF ValTypeOK
<1>6. TypeOK'
  <2>1. lots' \in [Holds \cup {Share} -> Int]
    BY <1>1, <1>2, <1>3 DEF TypeOK
  <2>2. booked' \in [Keys -> Nat]
    BY <1>2, <1>3, MovedIsInt DEF TypeOK, Booked
  <2>3. \A q \in prices' : q \in [day : Days, moment : Nat, price : Nat]
    BY <1>1, <1>2, <1>3, PricesTyped DEF TypeOK
  <2>4. stated' \in Int
    BY <1>1, <1>2 DEF Unset
  <2> QED BY <1>2, <1>3, <1>4, <1>5, <2>1, <2>2, <2>3, <2>4 DEF TypeOK, ValTypeOK, RateTypeOK, fxVars
<1>7. RowsTrue'
  <2>1. \A v \in vals' : v.ccy = "base"
    BY <1>2, <1>3 DEF RowsTrue, NewVal
  <2>2. read' \in [all : SUBSET [from : Days, to : Days], last : [from : Days, to : Days]]
        /\ read'.all # {}
    BY <1>1, <1>2, <1>3 DEF RowsTrue
  <2> QED BY <1>2, <1>3, <1>4, <1>5, <2>1, <2>2 DEF RowsTrue
<1>8. TradesTrue'
  <2> SUFFICES ASSUME kind = "broker" PROVE TradesTrue'
    BY <1>2 DEF TradesTrue
  <2>1. ASSUME NEW k \in Keys
        PROVE  booked'[k] = IF \E o \in read'.all : k \in InPeriod(o) THEN Fills[k].times ELSE 0
    <3>1. booked[k] = IF \E o \in read.all : k \in InPeriod(o) THEN Fills[k].times ELSE 0
      BY DEF HoldInv, TradesTrue
    <3>2. booked'[k] = IF booked[k] > 0 \/ k \notin InPeriod(p) THEN booked[k] ELSE Fills[k].times
      BY <1>2 DEF Booked
    <3>3. read'.all = read.all \cup {p} /\ Fills[k].times \in Nat
      BY <1>2, MovedIsInt
    <3> QED BY <3>1, <3>2, <3>3
  <2>2. lots'[Share] = Held(read'.last.to)
    BY <1>2, <1>3 DEF TypeOK
  <2> QED BY <2>1, <2>2 DEF TradesTrue
<1>9. DatedTrue'
  <2> SUFFICES ASSUME stated' # Unset PROVE DatedTrue'
    BY DEF DatedTrue
  <2> DEFINE row == NewVal(p.to, 0, Nav(p), acct.ccy)
  <2>1. /\ Nav(p) # 0 /\ DatesInOrder(p.to) /\ stated' = Nav(p)
        /\ vals' = vals \cup {row}
    BY <1>2
  <2>2. row.moment = 0 /\ row.day = p.to /\ row.value = Nav(p)
    BY DEF NewVal
  <2> HIDE DEF row
  <2>3. read'.last = p
    BY <1>2
  <2>4. ASSUME NEW v \in vals PROVE v.moment = 0 /\ v.day <= p.to /\ (v.day = p.to => v.value = Nav(p))
    <3>1. stated # Unset /\ read.last.to <= p.to
      BY <1>2, <1>3, <2>1 DEF DatesInOrder, RowsTrue
    <3>2. /\ v.moment = 0 /\ v.day <= read.last.to
          /\ v.day = read.last.to => v.value = stated
          /\ stated = Nav(read.last)
      BY <1>2, <3>1 DEF HoldInv, DatedTrue
    <3>3. v.day \in Nat /\ read.last.to \in Nat /\ p.to \in Nat
      <4>1. Days \subseteq Nat
        BY RateAssumption DEF Days
      <4>2. read.last.to \in Days
        BY <1>3 DEF RowsTrue
      <4> QED BY <1>1, <1>3, <4>1, <4>2, RowsCompare DEF ValTypeOK
    <3>4. read.last.to = p.to => Nav(read.last) = Nav(p)
      BY DEF Nav
    <3> QED BY <3>1, <3>2, <3>3, <3>4
  <2>5. p.to <= p.to
    BY <1>1, RateAssumption DEF Days
  <2> QED BY <1>2, <2>1, <2>2, <2>3, <2>4, <2>5 DEF DatedTrue
<1>10. AwardsTrue' /\ PensionTrue'
  BY <1>2 DEF AwardsTrue, PensionTrue, Brokers
<1>11. MarkTrue'
  BY <1>2, <1>3, <1>5 DEF MarkTrue, Brokers
<1> QED BY <1>6, <1>7, <1>8, <1>9, <1>10, <1>11 DEF HoldInv

\* The first one, read by two requests (ibkr_confirm_twice).
LEMMA TwiceKeeps ==
  ASSUME HoldInv, NEW p \in Periods, ibkr_confirm_twice(p)
  PROVE  HoldInv'
<1> DEFINE one == NewVal(p.to, 0, Nav(p), acct.ccy)
           two == [one EXCEPT !.id = @ + 1]
<1>1. /\ p \in [from : Days, to : Days] /\ p = [from |-> p.from, to |-> p.to]
      /\ p.to \in Days /\ Held(p.to) \in Int /\ Nav(p) \in Int
  BY PeriodIs
<1>2. /\ kind = "overlap" /\ kind' = kind /\ kind \in Stating /\ kind \in Brokers
      /\ read.all = {}
      /\ lots' = [lots EXCEPT ![Share] = 2 * Held(p.to)]
      /\ booked' = [k \in Keys |-> 2 * Booked(p)[k]]
      /\ prices' = Priced(p.to)
      /\ vals' = (vals \cup {one}) \cup {two}
      /\ acct' = [acct EXCEPT !.source = "latest_valuation"]
      /\ read' = [all |-> read.all \cup {p}, last |-> p]
      /\ stated' = Nav(p)
      /\ UNCHANGED <<fxVars, inOrder>>
  BY <1>1 DEF ibkr_confirm_twice, Stating, Brokers, WithRow, Midnight, Read
<1>3. /\ TypeOK /\ ValTypeOK /\ RowsTrue /\ vals = {}
      /\ acct.ccy = "base" /\ acct.source = "latest_valuation"
  BY <1>2 DEF HoldInv, TypeOK, RowsTrue
<1>4. acct' = acct
  BY <1>2, <1>3 DEF ValTypeOK
<1>5. vals' = {one, two}
  BY <1>2, <1>3
<1>6. /\ one \in Valuation /\ two \in Valuation /\ one.id # two.id
      /\ one.moment = 0 /\ two.moment = 0 /\ one.day = p.to /\ two.day = p.to
      /\ one.value = Nav(p) /\ two.value = Nav(p) /\ one.ccy = "base" /\ two.ccy = "base"
  <2>1. NextId = 1
    BY <1>3 DEF NextId
  <2> QED BY <1>1, <1>3, <2>1 DEF NewVal, Valuation, Currencies
<1> HIDE DEF one, two
<1>7. IsFiniteSet(vals')
  <2>1. IsFiniteSet({one})
    BY FS_Singleton
  <2>2. vals' = {one} \cup {two}
    BY <1>5
  <2> QED BY <2>1, <2>2, FS_AddElement
<1>8. TypeOK'
  <2>1. lots' \in [Holds \cup {Share} -> Int]
    <3>1. 2 * Held(p.to) \in Int
      BY <1>1
    <3> QED BY <1>2, <1>3, <3>1 DEF TypeOK
  <2>2. booked' \in [Keys -> Nat]
    <3>1. Booked(p) \in [Keys -> Nat]
      BY <1>3, MovedIsInt DEF TypeOK, Booked
    <3>2. \A k \in Keys : 2 * Booked(p)[k] \in Nat
      BY <3>1
    <3> QED BY <1>2, <3>2
  <2>3. \A q \in prices' : q \in [day : Days, moment : Nat, price : Nat]
    BY <1>1, <1>2, <1>3, PricesTyped
  <2>4. stated' \in Int
    BY <1>1, <1>2
  <2>5. vals' \subseteq Valuation
    BY <1>5, <1>6
  <2> QED BY <1>2, <1>3, <1>4, <2>1, <2>2, <2>3, <2>4, <2>5 DEF TypeOK, ValTypeOK, RateTypeOK, fxVars
<1>9. RowsTrue'
  <2>1. \A v \in vals' : v.ccy = "base"
    BY <1>5, <1>6
  <2>2. read' \in [all : SUBSET [from : Days, to : Days], last : [from : Days, to : Days]]
        /\ read'.all # {}
    BY <1>1, <1>2, <1>3 DEF RowsTrue
  <2>3. \A v, w \in vals' : v.id = w.id => v = w
    BY <1>5, <1>6
  <2> QED BY <1>2, <1>3, <1>4, <1>7, <2>1, <2>2, <2>3 DEF RowsTrue
<1>10. TradesTrue' /\ AwardsTrue' /\ PensionTrue'
  BY <1>2 DEF TradesTrue, AwardsTrue, PensionTrue
<1>11. DatedTrue'
  <2>1. p.to <= p.to
    BY <1>1, RateAssumption DEF Days
  <2> QED BY <1>2, <1>5, <1>6, <2>1 DEF DatedTrue
<1>12. MarkTrue'
  BY <1>2, <1>3, <1>4 DEF MarkTrue
<1> QED BY <1>8, <1>9, <1>10, <1>11, <1>12 DEF HoldInv

\* A live price kept, over whatever the day has (Saved, refresh_prices).
LEMMA SavedTyped ==
  ASSUME TypeOK, IsFiniteSet(vals)
  PROVE  \A q \in Saved : q \in [day : Days, moment : Nat, price : Nat]
<1>1. NextId \in Nat /\ today \in Days /\ Live \in Nat
  BY NextIdIsNew, HoldingAssumption DEF TypeOK, ValTypeOK, RateTypeOK
<1> QED BY <1>1 DEF Saved, TypeOK

LEMMA RefreshKeeps ==
  ASSUME HoldInv, refresh_prices PROVE HoldInv'
<1>1. kind \in Brokers /\ prices' = Saved
      /\ UNCHANGED <<fxVars, valVars, kind, lots, booked, read, stated>>
  BY DEF refresh_prices
<1>2. \A q \in prices' : q \in [day : Days, moment : Nat, price : Nat]
  BY <1>1, SavedTyped DEF HoldInv, RowsTrue
<1> USE DEF HoldInv, fxVars, valVars
<1>3. TypeOK'
  BY <1>1, <1>2 DEF TypeOK, ValTypeOK, RateTypeOK
<1>4. RowsTrue'
  BY <1>1 DEF RowsTrue
<1>5. TradesTrue'
  BY <1>1 DEF TradesTrue
<1>6. DatedTrue'
  BY <1>1 DEF DatedTrue
<1>7. AwardsTrue' /\ PensionTrue'
  BY <1>1 DEF AwardsTrue, PensionTrue, Brokers
<1>8. MarkTrue'
  BY <1>1 DEF MarkTrue, LatestBy
<1> QED BY <1>3, <1>4, <1>5, <1>6, <1>7, <1>8

----------------------------------------------------------------------------
(* The statements of awards and of a pension.                               *)

\* Units and a price make a worth; a holding without units adds nothing to it.
LEMMA WorthIsInt ==
  ASSUME NEW units \in [Holds \cup {Share} -> Int], NEW price \in Int
  PROVE  /\ Worth(units, price) \in Int
         /\ \A rep \in [Holds -> Int] :
              units[Share] = 0 /\ (\A h \in Holds : units[h] = rep[h])
                => Worth(units, price) = Worth(rep, price)
<1> DEFINE w == Worths(units, price)
<1>1. IsFiniteSet(Holds) /\ IsFiniteSet({Share}) /\ Share \notin Holds
  BY HoldingAssumption, FS_Singleton
<1>2. IsFiniteSet(Holds \cup {Share})
  BY <1>1, FS_Union
<1>3. ASSUME NEW h \in Holds \cup {Share} PROVE w[h] = units[h] * price /\ w[h] \in Int
  BY DEF Worths
<1>4. Worth(units, price) = SumOver(w, Holds \cup {Share})
  BY WorthSummed
<1>5. Worth(units, price) \in Int
  <2> HIDE DEF w
  <2>1. SumOver(w, Holds \cup {Share}) \in Int
    BY <1>2, <1>3, SumLess
  <2> QED BY <1>4, <2>1
<1>6. ASSUME NEW rep \in [Holds -> Int], units[Share] = 0, \A h \in Holds : units[h] = rep[h]
      PROVE  Worth(units, price) = Worth(rep, price)
  <2>1. SumOver(w, Holds \cup {Share}) = SumOver(w, Holds) + SumOver(w, {Share})
    <3> HIDE DEF w
    <3> QED BY <1>1, <1>3, SumOfUnion
  <2>2. SumOver(w, {Share}) = 0
    <3>1. 0 * price = 0
      OBVIOUS
    <3>2. \A h \in {Share} : w[h] = 0
      BY <1>3, <1>6, <3>1
    <3> HIDE DEF w
    <3> QED BY <1>1, <3>2, SumOfZeros
  <2>3. SumOver(w, Holds) = SumOver(Worths(rep, price), Holds)
    <3>1. \A h \in Holds : w[h] = Worths(rep, price)[h]
      BY <1>3, <1>6 DEF Worths
    <3> HIDE DEF w
    <3> QED BY <3>1, SumSame
  <2>4. Worth(rep, price) = SumOver(Worths(rep, price), Holds)
    BY WorthSummed
  <2>5. SumOver(w, Holds) \in Int
    <3> HIDE DEF w
    <3> QED BY <1>1, <1>3, SumLess
  <2> HIDE DEF w
  <2> QED BY <1>4, <2>1, <2>2, <2>3, <2>4, <2>5
<1> QED BY <1>5, <1>6

\* A statement reports units of what is held.
LEMMA ReportedTyped ==
  ASSUME TypeOK, NEW day \in Days
  PROVE  /\ Reported(day) \in [Holds -> Int] /\ Listed(day) \subseteq Holds
         /\ LotsReplaced(day) \in [Holds \cup {Share} -> Int]
         /\ VestsReplaced(day) \in [Holds \cup {Share} -> Int]
         /\ LotsReplaced(day)[Share] = lots[Share] /\ VestsReplaced(day)[Share] = lots[Share]
         /\ \A h \in Holds : LotsReplaced(day)[h] = Reported(day)[h]
         /\ \A h \in Holds :
              (h \notin Listed(day) => lots[h] = 0) => VestsReplaced(day)[h] = Reported(day)[h]
<1>1. Units \in [Holds -> [Days -> Nat \cup {Unset}]] /\ Share \notin Holds
  BY HoldingAssumption
<1>2. Listed(day) \subseteq Holds
  BY DEF Listed
<1>3. Reported(day) \in [Holds -> Int]
  BY <1>1 DEF Reported, Unset
<1>4. lots \in [Holds \cup {Share} -> Int]
  BY DEF TypeOK
<1>5. /\ LotsReplaced(day) \in [Holds \cup {Share} -> Int]
      /\ LotsReplaced(day)[Share] = lots[Share]
      /\ \A h \in Holds : LotsReplaced(day)[h] = Reported(day)[h]
  BY <1>1, <1>3, <1>4 DEF LotsReplaced
<1>6. /\ VestsReplaced(day) \in [Holds \cup {Share} -> Int]
      /\ VestsReplaced(day)[Share] = lots[Share]
  BY <1>1, <1>2, <1>3, <1>4 DEF VestsReplaced
<1>7. ASSUME NEW h \in Holds, h \notin Listed(day) => lots[h] = 0
      PROVE  VestsReplaced(day)[h] = Reported(day)[h]
  <2>1. VestsReplaced(day)[h] = IF h \in Listed(day) THEN Reported(day)[h] ELSE lots[h]
    BY <1>4 DEF VestsReplaced
  <2>2. h \notin Listed(day) => Reported(day)[h] = 0
    BY DEF Reported
  <2> QED BY <1>7, <2>1, <2>2
<1> QED BY <1>2, <1>3, <1>5, <1>6, <1>7

\* When no price is newer, the latest one is the statement's own.
LEMMA LatestIsStated ==
  ASSUME NEW ps, \A q \in ps : q \in [day : Days, moment : Nat, price : Nat],
         NEW day \in Days, StatementPrice(day) \in ps,
         \A q \in ps : q.day < day \/ q = StatementPrice(day),
         NEW q \in LatestPrices(ps)
  PROVE  q = StatementPrice(day)
<1>1. q \in ps /\ ~Before(q, StatementPrice(day))
  BY DEF LatestPrices
<1>2. q.day \in Nat /\ day \in Nat /\ StatementPrice(day).day = day
  BY <1>1, RateAssumption DEF Days, StatementPrice
<1> QED BY <1>1, <1>2 DEF Before

\* What reading one of these statements does but for its valuation (ReadStatement).
LEMMA ReadIs ==
  ASSUME HoldInv, kind \in {"rsu", "pension"}, kind' = kind,
         NEW day \in Days, NEW units \in [Holds \cup {Share} -> Int], ReadStatement(day, units)
  PROVE  /\ lots' = units /\ prices' = prices \cup {StatementPrice(day)} /\ acct' = acct
         /\ read' \in [all : SUBSET [from : Days, to : Days], last : [from : Days, to : Days]]
         /\ read'.all # {} /\ read'.last.to = day
         /\ \A q \in prices' : q \in [day : Days, moment : Nat, price : Nat]
         /\ UNCHANGED <<fxVars, inOrder, booked>>
<1>1. /\ lots' = units /\ prices' = prices \cup {StatementPrice(day)}
      /\ acct' = [acct EXCEPT !.source = "latest_valuation"]
      /\ read' = [all |-> read.all \cup {[from |-> day, to |-> day]},
                  last |-> [from |-> day, to |-> day]]
      /\ UNCHANGED <<fxVars, inOrder, booked>>
  BY DEF ReadStatement, Read
<1>2. /\ TypeOK /\ acct.source = "latest_valuation"
      /\ acct \in [ccy : Currencies, mark : Int, source : Sources]
      /\ read \in [all : SUBSET [from : Days, to : Days], last : [from : Days, to : Days]]
  BY DEF HoldInv, TypeOK, ValTypeOK, RowsTrue, Stating
<1>3. acct' = acct
  BY <1>1, <1>2
<1>4. read' \in [all : SUBSET [from : Days, to : Days], last : [from : Days, to : Days]]
  BY <1>1, <1>2
<1> QED BY <1>1, <1>2, <1>3, <1>4, PricesTyped

\* What is the same for both: a row more, and types.
LEMMA StatedTypes ==
  ASSUME HoldInv, kind \in {"rsu", "pension"}, kind' = kind,
         NEW day \in Days, NEW moment \in Nat, NEW value \in Int,
         vals' = vals \cup {NewVal(day, moment, value, acct.ccy)},
         acct' = acct, UNCHANGED <<fxVars, inOrder, booked>>,
         lots' \in [Holds \cup {Share} -> Int], stated' \in Int,
         \A q \in prices' : q \in [day : Days, moment : Nat, price : Nat],
         read' \in [all : SUBSET [from : Days, to : Days], last : [from : Days, to : Days]],
         read'.all # {}
  PROVE  TypeOK' /\ RowsTrue' /\ TradesTrue' /\ MarkTrue'
<1>1. /\ TypeOK /\ ValTypeOK /\ IsFiniteSet(vals) /\ acct.ccy \in Currencies
      /\ \A v, w \in vals : v.id = w.id => v = w
      /\ acct.ccy = "base" /\ acct.source = "latest_valuation" /\ \A v \in vals : v.ccy = "base"
  BY DEF HoldInv, TypeOK, ValTypeOK, RowsTrue, Stating
<1>2. /\ vals' \subseteq Valuation /\ IsFiniteSet(vals')
      /\ \A v, w \in vals' : v.id = w.id => v = w
  BY <1>1, RowAdded
<1>3. \A v \in vals' : v.ccy = "base"
  BY <1>1 DEF NewVal
<1>4. TypeOK'
  BY <1>1, <1>2 DEF TypeOK, ValTypeOK, RateTypeOK, fxVars
<1>5. RowsTrue'
  BY <1>1, <1>2, <1>3 DEF RowsTrue, Stating
<1>6. TradesTrue'
  BY DEF TradesTrue
<1>7. MarkTrue'
  BY <1>1 DEF MarkTrue
<1> QED BY <1>4, <1>5, <1>6, <1>7

\* Reading awards of stock (import_rsu_grants).
LEMMA GrantsKeep ==
  ASSUME HoldInv, NEW day \in Days, import_rsu_grants(day)
  PROVE  HoldInv'
<1> DEFINE units == VestsReplaced(day)
<1>1. /\ kind = "rsu" /\ kind' = kind /\ ReadStatement(day, units)
      /\ \E q \in LatestPrices(prices') : vals' = WithRow(q, Worth(units, q.price))
      /\ stated' = IF DatesInOrder(day) /\ PricesBefore(day)
                      /\ \A h \in Holds \ Listed(day) : lots[h] = 0
                   THEN Worth(Reported(day), Price[day]) ELSE Unset
  BY DEF import_rsu_grants, ReadStatement
<1>2. PICK q \in LatestPrices(prices') : vals' = WithRow(q, Worth(units, q.price))
  BY <1>1
<1>3. TypeOK /\ lots[Share] = 0
  BY <1>1 DEF HoldInv, AwardsTrue
<1>4. /\ Reported(day) \in [Holds -> Int] /\ units \in [Holds \cup {Share} -> Int]
      /\ units[Share] = 0
      /\ \A h \in Holds : (h \notin Listed(day) => lots[h] = 0) => units[h] = Reported(day)[h]
  BY <1>3, ReportedTyped
<1> HIDE DEF units
<1>5. /\ lots' = units /\ prices' = prices \cup {StatementPrice(day)} /\ acct' = acct
      /\ read' \in [all : SUBSET [from : Days, to : Days], last : [from : Days, to : Days]]
      /\ read'.all # {} /\ read'.last.to = day
      /\ \A o \in prices' : o \in [day : Days, moment : Nat, price : Nat]
      /\ UNCHANGED <<fxVars, inOrder, booked>>
  BY <1>1, <1>4, ReadIs
<1>6. /\ q.day \in Days /\ q.moment \in Nat /\ q.price \in Int /\ Price[day] \in Int
  BY <1>5, HoldingAssumption DEF LatestPrices
<1>7. /\ Worth(units, q.price) \in Int
      /\ (\A h \in Holds : units[h] = Reported(day)[h]) =>
           Worth(units, Price[day]) = Worth(Reported(day), Price[day])
  BY <1>4, <1>6, WorthIsInt
<1> DEFINE value == Worth(units, q.price)
           row == NewVal(q.day, q.moment, value, acct.ccy)
<1>8. vals' = vals \cup {row}
  BY <1>2 DEF WithRow
<1>9. ASSUME stated' # Unset
      PROVE  /\ DatesInOrder(day) /\ q = StatementPrice(day)
             /\ \A h \in Holds : lots'[h] = Reported(day)[h]
             /\ value = stated' /\ stated' = Worth(Reported(day), Price[day])
             /\ \A o \in prices' : o = StatementPrice(o.day) /\ o.day <= day
  <2>1. /\ DatesInOrder(day) /\ PricesBefore(day) /\ \A h \in Holds \ Listed(day) : lots[h] = 0
        /\ stated' = Worth(Reported(day), Price[day])
    BY <1>1, <1>9
  <2>2. q = StatementPrice(day)
    <3>1. \A o \in prices' : o.day < day \/ o = StatementPrice(day)
      BY <1>5, <2>1 DEF PricesBefore
    <3>2. StatementPrice(day) \in prices'
      BY <1>5
    <3> QED BY <1>5, <3>1, <3>2, LatestIsStated
  <2>3. \A h \in Holds : units[h] = Reported(day)[h]
    BY <1>4, <2>1
  <2>4. q.price = Price[day]
    BY <2>2 DEF StatementPrice
  <2>5. ASSUME NEW o \in prices' PROVE o = StatementPrice(o.day) /\ o.day <= day
    <3>1. day \in Nat /\ o.day \in Nat
      BY <1>5, RateAssumption DEF Days
    <3>2. CASE o = StatementPrice(day)
      BY <3>1, <3>2 DEF StatementPrice
    <3>3. CASE o # StatementPrice(day)
      <4>1. o \in prices /\ o.day < day
        BY <1>5, <2>1, <3>3 DEF PricesBefore
      <4>2. o = StatementPrice(o.day)
        BY <1>1, <2>1, <4>1 DEF DatesInOrder, HoldInv, AwardsTrue
      <4> QED BY <3>1, <4>1, <4>2
    <3> QED BY <3>2, <3>3
  <2> QED BY <1>5, <1>7, <2>1, <2>2, <2>3, <2>4, <2>5
<1>10. stated' \in Int
  <2>1. Worth(Reported(day), Price[day]) \in Int \/ stated' = Unset
    BY <1>6, <1>7, <1>9
  <2> QED BY <1>1, <2>1 DEF Unset
<1>11. TypeOK' /\ RowsTrue' /\ TradesTrue' /\ MarkTrue'
  BY <1>1, <1>4, <1>5, <1>6, <1>7, <1>8, <1>10, StatedTypes
<1>12. row.moment = q.moment /\ row.day = q.day /\ row.value = value
  BY DEF NewVal
<1> HIDE DEF row, value
<1>13. DatedTrue'
  <2> SUFFICES ASSUME stated' # Unset PROVE DatedTrue'
    BY DEF DatedTrue
  <2>1. row.moment = 0 /\ row.day = day /\ row.value = stated'
    BY <1>9, <1>12 DEF StatementPrice
  <2>2. ASSUME NEW v \in vals PROVE v.moment = 0 /\ v.day <= day /\ (v.day = day => v.value = stated')
    <3>1. stated # Unset /\ read.last.to <= day
      BY <1>1, <1>9 DEF DatesInOrder, HoldInv, RowsTrue, Stating
    <3>2. /\ v.moment = 0 /\ v.day <= read.last.to
          /\ v.day = read.last.to => v.value = stated
          /\ stated = Worth(Reported(read.last.to), Price[read.last.to])
      BY <1>1, <3>1 DEF HoldInv, DatedTrue, AwardsTrue
    <3>3. v.day \in Nat /\ read.last.to \in Nat /\ day \in Nat
      <4>1. Days \subseteq Nat
        BY RateAssumption DEF Days
      <4>2. read.last.to \in Days /\ v \in Valuation
        BY <1>3 DEF HoldInv, RowsTrue, TypeOK, ValTypeOK
      <4> QED BY <4>1, <4>2, RowsCompare
    <3>4. read.last.to = day => stated = stated'
      BY <1>9, <3>2
    <3> QED BY <3>1, <3>2, <3>3, <3>4
  <2>3. day <= day
    BY RateAssumption DEF Days
  <2>4. kind' \notin Brokers
    BY <1>1 DEF Brokers
  <2> QED BY <1>5, <1>8, <2>1, <2>2, <2>3, <2>4 DEF DatedTrue
<1>14. AwardsTrue'
  <2>1. lots'[Share] = 0 /\ StatementPrice(day) \in prices'
    BY <1>4, <1>5
  <2> QED BY <1>5, <1>9, <2>1 DEF AwardsTrue
<1>15. PensionTrue'
  BY <1>1 DEF PensionTrue
<1> QED BY <1>11, <1>13, <1>14, <1>15 DEF HoldInv

\* A live price for awards, or the latest one kept (refresh_rsu_price).
LEMMA RefreshRsuKeeps ==
  ASSUME HoldInv, refresh_rsu_price PROVE HoldInv'
<1>1. /\ kind = "rsu" /\ kind' = kind /\ prices' \in {prices, Saved}
      /\ acct' = acct /\ lots' = lots /\ read' = read /\ read.all # {}
      /\ stated' = IF prices' = prices THEN stated ELSE Unset
      /\ UNCHANGED <<fxVars, inOrder, booked>>
  BY DEF refresh_rsu_price
<1>2. PICK q \in LatestPrices(prices') : vals' = WithRow(q, Worth(lots, q.price))
  BY DEF refresh_rsu_price
<1>3. /\ TypeOK /\ IsFiniteSet(vals) /\ lots \in [Holds \cup {Share} -> Int] /\ stated \in Int
      /\ read \in [all : SUBSET [from : Days, to : Days], last : [from : Days, to : Days]]
  BY DEF HoldInv, RowsTrue, TypeOK
<1>4. \A o \in prices' : o \in [day : Days, moment : Nat, price : Nat]
  BY <1>1, <1>3, SavedTyped DEF TypeOK
<1>5. q.day \in Days /\ q.moment \in Nat /\ q.price \in Int
  BY <1>4 DEF LatestPrices
<1>6. Worth(lots, q.price) \in Int /\ stated' \in Int
  <2>1. Worth(lots, q.price) \in Int
    BY <1>3, <1>5, WorthIsInt
  <2>2. stated' \in Int
    BY <1>1, <1>3 DEF Unset
  <2> QED BY <2>1, <2>2
<1> DEFINE value == Worth(lots, q.price)
           row == NewVal(q.day, q.moment, value, acct.ccy)
<1>7. vals' = vals \cup {row}
  BY <1>2 DEF WithRow
<1>8. TypeOK' /\ RowsTrue' /\ TradesTrue' /\ MarkTrue'
  BY <1>1, <1>3, <1>4, <1>5, <1>6, <1>7, StatedTypes
<1>9. row.moment = q.moment /\ row.day = q.day /\ row.value = value
  BY DEF NewVal
<1> DEFINE day == read.last.to
<1>10. ASSUME stated' # Unset
       PROVE  q = StatementPrice(day) /\ value = stated /\ stated' = stated /\ prices' = prices
  <2>1. prices' = prices /\ stated # Unset /\ stated' = stated
    BY <1>1, <1>10
  <2>2. /\ \A o \in prices : o = StatementPrice(o.day) /\ o.day <= day
        /\ StatementPrice(day) \in prices /\ lots[Share] = 0
        /\ \A h \in Holds : lots[h] = Reported(day)[h]
        /\ stated = Worth(Reported(day), Price[day])
    BY <1>1, <2>1 DEF HoldInv, AwardsTrue
  <2>3. day \in Days /\ day \in Nat
    BY <1>3, RateAssumption DEF Days
  <2>4. \A o \in prices : o.day < day \/ o = StatementPrice(day)
    <3>1. \A o \in prices : o.day \in Nat
      BY <1>4, <2>1, RateAssumption DEF Days
    <3> HIDE DEF day
    <3> QED BY <2>2, <2>3, <3>1
  <2>5. q = StatementPrice(day)
    BY <1>4, <2>1, <2>2, <2>3, <2>4, LatestIsStated
  <2>6. q.price = Price[day]
    BY <2>5 DEF StatementPrice
  <2>7. Reported(day) \in [Holds -> Int]
    BY <1>3, <2>3, ReportedTyped
  <2>8. Worth(lots, q.price) = Worth(Reported(day), q.price)
    BY <1>3, <1>5, <2>2, <2>7, WorthIsInt
  <2> QED BY <2>1, <2>2, <2>5, <2>6, <2>8
<1> HIDE DEF row, value
<1>11. DatedTrue'
  <2> SUFFICES ASSUME stated' # Unset PROVE DatedTrue'
    BY DEF DatedTrue
  <2>1. row.moment = 0 /\ row.day = day /\ row.value = stated' /\ stated # Unset /\ stated' = stated
    BY <1>9, <1>10 DEF StatementPrice
  <2>2. \A v \in vals : v.moment = 0 /\ v.day <= day /\ (v.day = day => v.value = stated')
    BY <1>1, <2>1 DEF HoldInv, DatedTrue
  <2>3. day <= day
    BY <1>3, RateAssumption DEF Days
  <2>4. kind' \notin Brokers
    BY <1>1 DEF Brokers
  <2> QED BY <1>1, <1>7, <2>1, <2>2, <2>3, <2>4 DEF DatedTrue
<1>12. AwardsTrue'
  BY <1>1, <1>10 DEF HoldInv, AwardsTrue
<1>13. PensionTrue'
  BY <1>1 DEF PensionTrue
<1> QED BY <1>8, <1>11, <1>12, <1>13 DEF HoldInv

\* Reading a pension (import_pension_positions): its row is the last one written,
\* and dated so.
LEMMA PensionKeeps ==
  ASSUME HoldInv, NEW day \in Days, import_pension_positions(day)
  PROVE  HoldInv'
<1> DEFINE units == LotsReplaced(day)
<1>1. /\ kind = "pension" /\ kind' = kind /\ ReadStatement(day, units)
      /\ \E q \in LatestPrices(prices') : vals' = WithRow(Now, Worth(units, q.price))
      /\ stated' = IF DatesInOrder(day) /\ PricesBefore(day)
                   THEN Worth(Reported(day), Price[day]) ELSE Unset
  BY DEF import_pension_positions, ReadStatement
<1>2. PICK q \in LatestPrices(prices') : vals' = WithRow(Now, Worth(units, q.price))
  BY <1>1
<1>3. /\ TypeOK /\ ValTypeOK /\ IsFiniteSet(vals) /\ lots[Share] = 0 /\ today \in Days
      /\ \A v \in vals : v.moment = v.id /\ v.day <= today
      /\ \A v, w \in vals : v.id < w.id => v.day <= w.day
  BY <1>1 DEF HoldInv, PensionTrue, RowsTrue, TypeOK, ValTypeOK, RateTypeOK
<1>4. /\ Reported(day) \in [Holds -> Int] /\ units \in [Holds \cup {Share} -> Int]
      /\ units[Share] = 0 /\ \A h \in Holds : units[h] = Reported(day)[h]
  BY <1>3, ReportedTyped
<1> HIDE DEF units
<1>5. /\ lots' = units /\ prices' = prices \cup {StatementPrice(day)} /\ acct' = acct
      /\ read' \in [all : SUBSET [from : Days, to : Days], last : [from : Days, to : Days]]
      /\ read'.all # {} /\ read'.last.to = day
      /\ \A o \in prices' : o \in [day : Days, moment : Nat, price : Nat]
      /\ UNCHANGED <<fxVars, inOrder, booked>>
  BY <1>1, <1>4, ReadIs
<1>6. q.price \in Int /\ Price[day] \in Int
  BY <1>5, HoldingAssumption DEF LatestPrices
<1>7. /\ Worth(units, q.price) \in Int
      /\ Worth(units, Price[day]) = Worth(Reported(day), Price[day])
      /\ Worth(units, Price[day]) \in Int
  BY <1>4, <1>6, WorthIsInt
<1>8. NextId \in Nat /\ \A v \in vals : v.id < NextId
  BY <1>3, NextIdIsNew
<1> DEFINE value == Worth(units, q.price)
           row == NewVal(today, NextId, value, acct.ccy)
<1>9. vals' = vals \cup {row}
  BY <1>2 DEF WithRow, Now
<1>10. ASSUME stated' # Unset PROVE value = stated'
  <2>1. PricesBefore(day) /\ stated' = Worth(Reported(day), Price[day])
    BY <1>1, <1>10
  <2>2. \A o \in prices' : o.day < day \/ o = StatementPrice(day)
    BY <1>5, <2>1 DEF PricesBefore
  <2>3. StatementPrice(day) \in prices'
    BY <1>5
  <2>4. q.price = Price[day]
    <3>1. q = StatementPrice(day)
      BY <1>5, <2>2, <2>3, LatestIsStated
    <3> QED BY <3>1 DEF StatementPrice
  <2> QED BY <1>7, <2>1, <2>4
<1>11. stated' \in Int
  BY <1>1, <1>7 DEF Unset
<1>12. TypeOK' /\ RowsTrue' /\ TradesTrue' /\ MarkTrue'
  BY <1>1, <1>3, <1>4, <1>5, <1>7, <1>8, <1>9, <1>11, StatedTypes
<1>13. row.moment = NextId /\ row.id = NextId /\ row.day = today /\ row.value = value
  BY DEF NewVal
<1> HIDE DEF row, value
<1>14. PensionTrue'
  <2>1. lots'[Share] = 0
    BY <1>4, <1>5
  <2>2. today' = today /\ today <= today
    BY <1>3, <1>5, RateAssumption DEF fxVars, Days
  <2>3. \A v \in vals' : v.moment = v.id /\ v.day <= today'
    BY <1>3, <1>9, <1>13, <2>2
  <2>4. \A v, w \in vals' : v.id < w.id => v.day <= w.day
    <3>1. \A v \in vals : ~(NextId < v.id)
      BY <1>3, <1>8 DEF ValTypeOK, Valuation
    <3>2. ~(NextId < NextId)
      BY <1>8
    <3> QED BY <1>3, <1>9, <1>13, <3>1, <3>2
  <2>5. ASSUME NEW v \in vals', \A w \in vals' : w.id <= v.id PROVE v = row
    <3>1. NextId <= v.id
      BY <1>9, <1>13, <2>5
    <3>2. \A u \in vals : ~(NextId <= u.id)
      BY <1>3, <1>8 DEF ValTypeOK, Valuation
    <3> QED BY <1>9, <3>1, <3>2
  <2> QED BY <1>9, <1>10, <1>13, <2>1, <2>3, <2>4, <2>5 DEF PensionTrue
<1>15. DatedTrue' /\ AwardsTrue'
  BY <1>1 DEF DatedTrue, AwardsTrue, Brokers
<1> QED BY <1>12, <1>14, <1>15 DEF HoldInv

----------------------------------------------------------------------------

\* Every step keeps it (Next).
LEMMA HoldNext == HoldInv /\ [Next]_vars => HoldInv'
<1> SUFFICES ASSUME HoldInv, [Next]_vars PROVE HoldInv'
  OBVIOUS
<1>1. CASE \/ kind = "abroad" /\ FxStep /\ UNCHANGED <<valVars, holdVars>>
           \/ kind = "abroad" /\ page_fetches /\ UNCHANGED holdVars
           \/ kind # "abroad" /\ Tick /\ UNCHANGED <<valVars, holdVars>>
           \/ UNCHANGED vars
  BY <1>1, RatesAloneKeep
<1>2. CASE kind = "property" /\ ValStep /\ UNCHANGED holdVars
  BY <1>2, PropertyKeeps
<1>3. ASSUME NEW p \in Periods, apply_ibkr_statement(p) PROVE HoldInv'
  BY <1>3, StatementKeeps
<1>4. ASSUME NEW p \in Periods, ibkr_confirm_twice(p) PROVE HoldInv'
  BY <1>4, TwiceKeeps
<1>5. ASSUME NEW day \in Days, import_rsu_grants(day) PROVE HoldInv'
  BY <1>5, GrantsKeep
<1>6. ASSUME NEW day \in Days, import_pension_positions(day) PROVE HoldInv'
  BY <1>6, PensionKeeps
<1>7. CASE refresh_prices
  BY <1>7, RefreshKeeps
<1>8. CASE refresh_rsu_price
  BY <1>8, RefreshRsuKeeps
<1> QED BY <1>1, <1>2, <1>3, <1>4, <1>5, <1>6, <1>7, <1>8 DEF Next

LEMMA HoldAlways == Spec => []HoldInv
BY HoldInit, HoldNext, PTL DEF Spec

\* Whatever the fills, the statements, the prices and the rates are: rows, lots,
\* trades and prices keep their shape, and there is at most one rate per
\* direction and day (HoldInv, TypeOK).
THEOREM HoldingsTyped == Spec => []TypeOK
<1>1. HoldInv => TypeOK
  BY DEF HoldInv
<1> QED BY <1>1, HoldAlways, PTL

----------------------------------------------------------------------------
(* The history of holdings.                                                 *)

\* After the statement read last no key has a row, and since a day that the
\* statements cover each key has its rows, so what is taken off is what was traded.
LEMMA WoundBackIsHeld ==
  ASSUME HoldInv, kind = "broker", read.all # {}, \A p \in read.all : p.to <= read.last.to,
         NEW day \in -1 .. read.last.to, Covered(day)
  PROVE  WoundBack(day) = Held(day)
<1> DEFINE last == read.last.to
           Since == {k \in Keys : Fills[k].day \in day + 1 .. last}
           After == {k \in Keys : Fills[k].day > last}
<1>1. /\ last \in Nat /\ Days \subseteq Nat /\ day \in Int /\ day <= last
      /\ \A p \in read.all : p.from \in Nat /\ p.to \in Nat /\ p.to <= last
  <2>1. read \in [all : SUBSET [from : Days, to : Days], last : [from : Days, to : Days]]
    BY DEF HoldInv, RowsTrue
  <2>2. Days \subseteq Nat
    BY RateAssumption DEF Days
  <2>3. last \in Nat /\ \A p \in read.all : p.from \in Nat /\ p.to \in Nat
    BY <2>1, <2>2
  <2> QED BY <2>2, <2>3
<1>2. /\ lots[Share] = Held(last)
      /\ \A k \in Keys :
           booked[k] = IF \E p \in read.all : k \in InPeriod(p) THEN Fills[k].times ELSE 0
  BY DEF HoldInv, TradesTrue
<1>3. \A k \in Keys : Fills[k].day \in Nat /\ Fills[k].qty \in Int /\ Fills[k].times \in Nat
  BY <1>1, MovedIsInt
<1>4. {k \in Keys : Fills[k].day > day} = Since \cup After /\ Since \cap After = {}
  BY <1>1, <1>3
<1>5. \A k \in Since : Moved(booked)[k] = Moved(Times)[k]
  <2> SUFFICES ASSUME NEW k \in Since PROVE booked[k] = Fills[k].times
    BY DEF Moved, Times
  <2>1. \E p \in read.all : Fills[k].day \in p.from .. p.to
    BY DEF Covered
  <2>2. \E p \in read.all : k \in InPeriod(p)
    BY <2>1 DEF InPeriod
  <2> QED BY <1>2, <2>2
<1>6. \A k \in After : Moved(booked)[k] = 0
  <2> SUFFICES ASSUME NEW k \in After PROVE Moved(booked)[k] = 0
    OBVIOUS
  <2>1. ~\E p \in read.all : k \in InPeriod(p)
    BY <1>1, <1>3 DEF InPeriod
  <2>2. booked[k] = 0 /\ Fills[k].qty * 0 = 0
    BY <1>2, <1>3, <2>1
  <2> QED BY <2>2 DEF Moved
<1>7. /\ IsFiniteSet(Since) /\ IsFiniteSet(After)
      /\ \A k \in Since : Moved(Times)[k] \in Int
      /\ SumOver(Moved(Times), Since) \in Int /\ Held(day) \in Int
  BY MovedIsInt, HeldIsInt
<1>8. MapThenSumSet(LAMBDA k : Fills[k].qty * booked[k], {k \in Keys : Fills[k].day > day})
        = SumOver(Moved(booked), Since \cup After)
  BY <1>4, BookedSummed
<1>9. Held(last) = Held(day) + SumOver(Moved(Times), Since)
  BY <1>1, HeldBetween
<1>10. WoundBack(day) = Held(last) - SumOver(Moved(booked), Since \cup After)
  BY <1>2, <1>8 DEF WoundBack
<1> HIDE DEF Since, After, last
<1>11. SumOver(Moved(booked), Since \cup After)
         = SumOver(Moved(booked), Since) + SumOver(Moved(booked), After)
  BY <1>4, <1>5, <1>6, <1>7, SumOfUnion
<1>12. SumOver(Moved(booked), Since) = SumOver(Moved(Times), Since)
  BY <1>5, SumSame
<1>13. SumOver(Moved(booked), After) = 0
  BY <1>6, <1>7, SumOfZeros
<1> QED BY <1>7, <1>9, <1>10, <1>11, <1>12, <1>13

\* The history of holdings is true: wound back from the latest statement's lots
\* by the trades of all of them, it shows for every day that the statements
\* cover what was held on it (HoldingsReconstructed; compute_portfolio_history).
THEOREM HistoryIsTrue == Spec => []HoldingsReconstructed
<1>1. HoldInv => HoldingsReconstructed
  BY WoundBackIsHeld DEF HoldingsReconstructed
<1> QED BY <1>1, HoldAlways, PTL

----------------------------------------------------------------------------
(* What the pages show.                                                     *)

\* Rows have one written last.
LEMMA LastRow ==
  ASSUME NEW vs, IsFiniteSet(vs), vs \subseteq Valuation, vs # {}
  PROVE  \E m \in vs : \A o \in vs : o.id <= m.id
<1> DEFINE idOf == [v \in vs |-> v.id]
           ids == {idOf[v] : v \in vs}
<1>1. \A v \in vs : v.id \in Nat /\ idOf[v] = v.id /\ idOf[v] \in ids
  BY DEF Valuation
<1>2. ids # {} /\ ids \subseteq Int
  BY <1>1
<1>3. IsFiniteSet(ids)
  <2> HIDE DEF idOf
  <2> QED BY FiniteImage
<1>4. PICK i \in ids : \A j \in ids : j <= i
  <2> HIDE DEF ids
  <2> QED BY <1>2, <1>3, Greatest
<1>5. PICK m \in vs : idOf[m] = i
  BY <1>4
<1> HIDE DEF idOf
<1>6. \A o \in vs : o.id <= m.id
  BY <1>1, <1>4, <1>5
<1> QED BY <1>6

\* The list takes one of the latest rows (LatestRow).
LEMMA LatestRowIs ==
  ASSUME ValTypeOK, IsFiniteSet(vals), LatestBy(vals) # {}
  PROVE  LatestRow(vals) \in LatestBy(vals)
<1>1. LatestBy(vals) \subseteq vals
  BY DEF LatestBy
<1>2. IsFiniteSet(LatestBy(vals)) /\ LatestBy(vals) \subseteq Valuation
  BY <1>1, FS_Subset DEF ValTypeOK
<1>3. \E m \in LatestBy(vals) : \A o \in LatestBy(vals) : o.id <= m.id
  BY <1>2, LastRow
<1> QED BY <1>3 DEF LatestRow

\* While a worth is stated, all of the latest rows say it.
LEMMA LatestSayIt ==
  ASSUME HoldInv, stated # Unset
  PROVE  /\ vals # {} /\ LatestBy(vals) # {} /\ \A v \in LatestBy(vals) : v.value = stated
<1>1. /\ kind \in Stating /\ vals \subseteq Valuation /\ IsFiniteSet(vals)
      /\ \A v, w \in vals : v.id = w.id => v = w
  BY DEF HoldInv, RowsTrue, TypeOK, ValTypeOK
<1>2. \A v \in vals : v.id \in Nat /\ v.day \in Nat /\ v.moment \in Nat
  BY <1>1, RowsCompare
<1>3. CASE kind \in Brokers \cup {"rsu"}
  <2>1. /\ \A v \in vals : /\ v.moment = 0 /\ v.day <= read.last.to
                           /\ v.day = read.last.to => v.value = stated
        /\ \E v \in vals : v.day = read.last.to
    BY <1>3 DEF HoldInv, DatedTrue
  <2>2. PICK m \in vals : m.day = read.last.to
    BY <2>1
  <2>3. m \in LatestBy(vals)
    BY <1>2, <2>1, <2>2 DEF LatestBy, Before
  <2>4. \A v \in LatestBy(vals) : v.value = stated
    BY <1>2, <2>1, <2>2 DEF LatestBy, Before
  <2> QED BY <2>3, <2>4
<1>4. CASE kind = "pension"
  <2>1. /\ \A v \in vals : v.moment = v.id
        /\ \A v, w \in vals : v.id < w.id => v.day <= w.day
        /\ vals # {} /\ \A v \in vals : (\A w \in vals : w.id <= v.id) => v.value = stated
    BY <1>4 DEF HoldInv, PensionTrue
  <2>2. PICK m \in vals : \A o \in vals : o.id <= m.id
    BY <1>1, <2>1, LastRow
  <2>3. \A o \in vals : o # m => o.id < m.id /\ o.day <= m.day /\ o.moment < m.moment
    BY <1>1, <1>2, <2>1, <2>2
  <2>4. \A o \in vals : ~Before(m, o) /\ (o # m => Before(o, m))
    BY <1>2, <2>3 DEF Before
  <2>5. LatestBy(vals) = {m}
    BY <2>4 DEF LatestBy
  <2> QED BY <2>1, <2>2, <2>5
<1> QED BY <1>1, <1>3, <1>4 DEF Stating

\* An account valued from statements is worth what the statement read last says,
\* however often and by how many requests it was read (StatementValued).
THEOREM StatementsAreWorth == Spec => []StatementValued
<1>1. HoldInv => StatementValued
  <2> SUFFICES ASSUME HoldInv, stated # Unset
               PROVE  list_reading = stated /\ page_readings = {stated}
    BY DEF StatementValued
  <2>1. /\ vals # {} /\ LatestBy(vals) # {} /\ \A v \in LatestBy(vals) : v.value = stated
    BY LatestSayIt
  <2>2. /\ acct.source = "latest_valuation" /\ acct.ccy = "base"
        /\ \A v \in vals : v.ccy = "base"
        /\ ValTypeOK /\ IsFiniteSet(vals)
    BY DEF HoldInv, RowsTrue, TypeOK
  <2>3. \A v \in LatestBy(vals) : v.ccy = "base"
    BY <2>2 DEF LatestBy
  <2>4. list_reading = stated
    BY <2>1, <2>2, <2>3, LatestRowIs DEF list_reading, InBase
  <2>5. \A v \in LatestBy(vals) :
          InBase(InBase(v.value, v.ccy, get_rate(today)), acct.ccy, get_rate(today)) = stated
    BY <2>1, <2>2, <2>3 DEF InBase
  <2>6. page_readings = {InBase(InBase(v.value, v.ccy, get_rate(today)), acct.ccy, get_rate(today)) :
                           v \in LatestBy(vals)}
    BY <2>1, <2>2 DEF page_readings
  <2> QED BY <2>1, <2>4, <2>5, <2>6
<1> QED BY <1>1, HoldAlways, PTL

\* Settled rates are all of one direction, one a day.
LEMMA OneWay ==
  ASSUME RateTypeOK, RatesSettled
  PROVE  /\ \A r, s \in rates : r.way = s.way
         /\ \A r, s \in rates : r.day = s.day => r = s
<1> DEFINE ways == {r.way : r \in rates}
<1>1. ways \subseteq Ways /\ IsFiniteSet(Ways)
  <2>1. IsFiniteSet({"direct"})
    BY FS_Singleton
  <2>2. Ways = {"direct"} \cup {"inverse"}
    BY DEF Ways
  <2>3. IsFiniteSet(Ways)
    BY <2>1, <2>2, FS_AddElement
  <2> QED BY <2>3 DEF RateTypeOK, RateRow
<1>2. IsFiniteSet(ways) /\ Cardinality(ways) \in Nat /\ Cardinality(ways) <= 1
  <2>1. Cardinality(ways) <= 1
    BY DEF RatesSettled
  <2> HIDE DEF ways
  <2> QED BY <1>1, <2>1, FS_Subset, FS_CardinalityType
<1>3. ASSUME NEW r \in rates, NEW s \in rates PROVE r.way = s.way
  <2>1. r.way \in ways /\ s.way \in ways
    OBVIOUS
  <2> HIDE DEF ways
  <2>2. ways # {}
    BY <2>1
  <2>3. Cardinality(ways) # 0
    BY <1>2, <2>2, FS_EmptySet
  <2>4. Cardinality(ways) = 1
    BY <1>2, <2>3
  <2>5. \E x : ways = {x}
    BY <1>2, <2>4, FS_Singleton
  <2> QED BY <2>1, <2>5
<1> QED BY <1>3 DEF RateTypeOK

\* Rates have a newest one.
LEMMA NewestIs ==
  ASSUME RateTypeOK, RatesSettled, rates # {}
  PROVE  \E n \in rates : /\ \A o \in rates : o.day <= n.day /\ (o # n => o.day < n.day)
                          /\ n.day <= today /\ today - n.day <= Reach
<1>1. today \in Nat /\ Reach \in Nat /\ \A r \in rates : r.day \in Days /\ r.day \in Nat
  BY RateAssumption DEF RateTypeOK, RateRow, Days
<1> DEFINE days == {r.day : r \in rates}
<1>2. IsFiniteSet(days) /\ days \subseteq Int /\ days # {}
  <2>1. LastDay \in Int /\ 0 \in Int /\ days \subseteq 0 .. LastDay
    BY <1>1, RateAssumption DEF Days
  <2>2. IsFiniteSet(0 .. LastDay)
    BY <2>1, FS_Interval
  <2>3. IsFiniteSet(days)
    <3> HIDE DEF days
    <3> QED BY <2>1, <2>2, FS_Subset
  <2> QED BY <1>1, <2>3
<1>3. PICK d \in days : \A e \in days : e <= d
  <2> HIDE DEF days
  <2> QED BY <1>2, Greatest
<1>4. PICK n \in rates : n.day = d
  BY <1>3
<1>5. \A o \in rates : o.day <= n.day
  BY <1>3, <1>4
<1>6. \A o \in rates : o # n => o.day # n.day
  BY OneWay
<1>7. PICK r \in rates : today - r.day <= Reach
  BY DEF RatesSettled
<1>8. n.day <= today
  BY DEF RatesSettled
<1>9. today - n.day <= Reach
  BY <1>1, <1>5, <1>7
<1>10. \A o \in rates : o # n => o.day < n.day
  BY <1>1, <1>5, <1>6
<1> QED BY <1>5, <1>8, <1>9, <1>10

\* The three readings of settled rates are one: the lookup within reach, the
\* latest whatever its age, and the list by date.
LEMMA RatesAgree ==
  ASSUME RateTypeOK, RatesSettled
  PROVE  get_rate(today) = latest_rate /\ fx_rate_at(today) = {latest_rate}
<1>1. CASE rates = {}
  <2>1. \A way \in Ways : Along(way) = {} /\ Near(way, today) = {}
    BY <1>1 DEF Along, Near
  <2>2. "direct" \in Ways /\ "inverse" \in Ways
    BY DEF Ways
  <2>3. get_rate(today) = NoRate
    BY <2>1, <2>2 DEF get_rate
  <2>4. latest_rate = NoRate
    BY <1>1, <2>1, <2>2 DEF latest_rate
  <2>5. fx_rate_at(today) = {NoRate}
    BY <1>1 DEF fx_rate_at
  <2> QED BY <2>3, <2>4, <2>5
<1>2. CASE rates # {}
  <2>1. PICK n \in rates : /\ \A o \in rates : o.day <= n.day /\ (o # n => o.day < n.day)
                           /\ n.day <= today /\ today - n.day <= Reach
    BY <1>2, NewestIs
  <2>2. /\ today \in Nat /\ Reach \in Nat /\ \A r \in rates : r.day \in Nat
        /\ n.way \in {"direct", "inverse"} /\ \A r \in rates : r.way = n.way
    BY RateAssumption, OneWay DEF RateTypeOK, RateRow, Days, Ways
  <2>3. /\ Along(n.way) = rates
        /\ \A way \in {"direct", "inverse"} : way # n.way => Along(way) = {} /\ Near(way, today) = {}
    BY <2>2 DEF Along, Near
  <2>4. n \in Near(n.way, today) /\ Near(n.way, today) \subseteq rates
    BY <2>1, <2>2, <2>3 DEF Near, Gap
  <2>5. Nearest(Near(n.way, today), today) = n
    <3> DEFINE near == Near(n.way, today)
               Fits(r) == \A o \in near :
                            \/ Gap(r.day, today) < Gap(o.day, today)
                            \/ Gap(r.day, today) = Gap(o.day, today) /\ r.day >= o.day
    <3>1. \A o \in near : o.day \in Nat /\ o.day <= today /\ Gap(o.day, today) = today - o.day
      <4>1. \A o \in near : o \in rates /\ o.day <= today
        BY <2>4 DEF RatesSettled
      <4> QED BY <2>2, <4>1 DEF Gap
    <3>2. \A o \in near : o # n => o.day < n.day
      BY <2>1, <2>4
    <3> HIDE DEF near
    <3>3. n \in near
      BY <2>4 DEF near
    <3>4. Fits(n)
      BY <2>2, <3>1, <3>2, <3>3
    <3>5. ASSUME NEW r \in near, Fits(r) PROVE r = n
      <4>1. \/ Gap(r.day, today) < Gap(n.day, today)
            \/ Gap(r.day, today) = Gap(n.day, today) /\ r.day >= n.day
        BY <3>3, <3>5
      <4> QED BY <2>2, <3>1, <3>2, <3>3, <4>1
    <3>6. Nearest(near, today) = CHOOSE r \in near : Fits(r)
      BY DEF Nearest
    <3> HIDE DEF Fits
    <3>7. Nearest(near, today) = n
      BY <3>3, <3>4, <3>5, <3>6
    <3> QED BY <3>7 DEF near
  <2>6. Newest(rates) = n
    <3>1. \A o \in rates : o.day <= n.day
      BY <2>1
    <3>2. ASSUME NEW r \in rates, \A o \in rates : o.day <= r.day PROVE r = n
      BY <2>1, <2>2, <3>2
    <3> QED BY <3>1, <3>2 DEF Newest
  <2>7. get_rate(today) = n.level
    <3>1. CASE n.way = "direct"
      BY <2>4, <2>5, <3>1 DEF get_rate
    <3>2. CASE n.way = "inverse"
      <4>1. Near("direct", today) = {} /\ Near("inverse", today) # {}
        BY <2>3, <2>4, <3>2
      <4> QED BY <2>5, <3>2, <4>1 DEF get_rate
    <3> QED BY <2>2, <3>1, <3>2
  <2>8. latest_rate = n.level
    <3>1. CASE n.way = "direct"
      <4>1. Along("direct") = rates
        BY <2>3, <3>1
      <4> QED BY <1>2, <2>6, <4>1 DEF latest_rate
    <3>2. CASE n.way = "inverse"
      <4>1. Along("direct") = {}
        BY <2>3, <3>2
      <4> QED BY <1>2, <2>6, <4>1 DEF latest_rate
    <3> QED BY <2>2, <3>1, <3>2
  <2>9. fx_rate_at(today) = {n.level}
    <3> DEFINE past == {r.day : r \in {q \in rates : q.day <= today}}
    <3>1. n.day \in past /\ \A d \in past : n.day >= d
      BY <2>1, <2>2
    <3>2. \A d \in past : d \in Nat
      BY <2>2
    <3> HIDE DEF past
    <3>3. n.day \in Nat /\ \A d \in past : (\A e \in past : d >= e) => d = n.day
      BY <2>2, <3>1, <3>2
    <3>4. Max(past) = n.day
      BY <3>1, <3>3 DEF Max
    <3>5. {q \in rates : q.day = n.day} = {n}
      BY <2>1, <2>2
    <3>6. fx_rate_at(today) = {r.level : r \in {q \in rates : q.day = Max(past)}}
      BY <1>2, <3>1 DEF fx_rate_at, past
    <3> QED BY <3>4, <3>5, <3>6
  <2> QED BY <2>7, <2>8, <2>9
<1> QED BY <1>1, <1>2

\* Valuations that are settled have one latest by date.
LEMMA OneLatest ==
  ASSUME vals \subseteq Valuation, IsFiniteSet(vals), ValsSettled, vals # {}
  PROVE  \E l \in vals : LatestBy(vals) = {l}
<1>1. \A v \in vals : v.day \in Nat /\ v.moment \in Nat
  BY RowsCompare
<1> DEFINE dayOf == [v \in vals |-> v.day]
           days == {dayOf[v] : v \in vals}
<1>2. PICK m \in vals : \A o \in vals : o.day <= m.day
  <2>1. days \subseteq Int /\ days # {}
    BY <1>1
  <2>2. IsFiniteSet(days)
    <3> HIDE DEF dayOf
    <3> QED BY FiniteImage
  <2>3. PICK d \in days : \A e \in days : e <= d
    <3> HIDE DEF days
    <3> QED BY <2>1, <2>2, Greatest
  <2>4. \A v \in vals : dayOf[v] = v.day /\ dayOf[v] \in days
    OBVIOUS
  <2>5. PICK m \in vals : dayOf[m] = d
    BY <2>3
  <2> HIDE DEF days, dayOf
  <2> QED BY <2>3, <2>4, <2>5
<1> DEFINE On == {v \in vals : v.day = m.day}
           momentOf == [v \in On |-> v.moment]
           moments == {momentOf[v] : v \in On}
<1>3. PICK l \in On : \A o \in On : o.moment <= l.moment
  <2>1. m \in On /\ IsFiniteSet(On) /\ \A v \in On : v \in vals
    BY FS_Subset
  <2> HIDE DEF On
  <2>2. moments \subseteq Int /\ moments # {}
    BY <1>1, <2>1
  <2>3. IsFiniteSet(moments)
    <3> HIDE DEF momentOf
    <3> QED BY <2>1, FiniteImage
  <2>4. PICK d \in moments : \A e \in moments : e <= d
    <3> HIDE DEF moments
    <3> QED BY <2>2, <2>3, Greatest
  <2>5. \A v \in On : momentOf[v] = v.moment /\ momentOf[v] \in moments
    OBVIOUS
  <2>6. PICK l \in On : momentOf[l] = d
    BY <2>4
  <2> HIDE DEF moments, momentOf
  <2> QED BY <2>4, <2>5, <2>6
<1>4. l \in vals /\ l.day = m.day
  OBVIOUS
<1>5. ASSUME NEW o \in vals PROVE ~Before(l, o) /\ (o # l => Before(o, l))
  <2>1. o.day <= l.day /\ (o.day = l.day => o.moment <= l.moment)
    BY <1>2, <1>3, <1>4
  <2>2. o.day = l.day /\ o.moment = l.moment => o = l
    BY <1>4 DEF ValsSettled
  <2> QED BY <1>1, <1>4, <2>1, <2>2 DEF Before
<1>6. LatestBy(vals) = {l}
  BY <1>4, <1>5 DEF LatestBy
<1> QED BY <1>4, <1>6

\* The page, the list and the chart show one worth, once rates and valuations have
\* settled (WorthAgrees): three pieces of code, each with its own lookup of rates
\* and its own choice among valuations, over any rates and valuations, added,
\* changed and deleted in any order.
THEOREM PagesAgree == Spec => []WorthAgrees
<1>1. HoldInv => WorthAgrees
  <2> SUFFICES ASSUME HoldInv, RatesSettled, ValsSettled,
                      IF acct.source = "manual_mark" THEN inOrder ELSE acct.ccy = "base" \/ vals = {}
               PROVE  page_readings = {list_reading} /\ chart_readings(today) = {list_reading}
    BY DEF WorthAgrees
  <2> DEFINE rate == latest_rate
  <2>1. /\ RateTypeOK /\ vals \subseteq Valuation /\ IsFiniteSet(vals) /\ ValTypeOK
        /\ acct.source \in Sources
    BY DEF HoldInv, TypeOK, ValTypeOK, RowsTrue
  <2>2. get_rate(today) = rate /\ fx_rate_at(today) = {rate}
    BY <2>1, RatesAgree
  <2>3. {v \in vals : v.day <= today} = vals
    BY DEF ValsSettled
  <2> HIDE DEF rate
  <2>4. list_reading = IF acct.source = "latest_valuation" /\ vals # {}
                       THEN InBase(LatestRow(vals).value, LatestRow(vals).ccy, rate)
                       ELSE InBase(MarkOf, acct.ccy, rate)
    BY DEF list_reading, rate
  <2>5. page_readings = IF acct.source = "latest_valuation" /\ vals # {}
                        THEN {InBase(InBase(v.value, v.ccy, rate), acct.ccy, rate) :
                                v \in LatestBy(vals)}
                        ELSE {InBase(MarkOf, acct.ccy, rate)}
    BY <2>2 DEF page_readings
  <2>6. CASE vals = {}
    <3>1. chart_readings(today) = {InBase(p[1], p[2], level) :
                                     p \in {<<MarkOf, acct.ccy>>}, level \in {rate}}
      BY <2>2, <2>3, <2>6 DEF chart_readings
    <3>2. chart_readings(today) = {InBase(MarkOf, acct.ccy, rate)}
      BY <3>1
    <3> QED BY <2>4, <2>5, <2>6, <3>2
  <2>7. CASE vals # {}
    <3>1. PICK l \in vals : LatestBy(vals) = {l}
      BY <2>1, <2>7, OneLatest
    <3>2. chart_readings(today) = {InBase(p[1], p[2], level) :
                                     p \in {<<l.value, l.ccy>>}, level \in {rate}}
      <4> DEFINE past == {v \in vals : v.day <= today}
                 worths == IF past = {} THEN {<<MarkOf, acct.ccy>>}
                           ELSE {<<v.value, v.ccy>> : v \in LatestBy(past)}
      <4>1. chart_readings(today) = {InBase(p[1], p[2], level) :
                                       p \in worths, level \in fx_rate_at(today)}
        BY DEF chart_readings
      <4>2. worths = {<<l.value, l.ccy>>}
        <5>1. past = vals
          BY <2>3
        <5> HIDE DEF past
        <5>2. past # {} /\ LatestBy(past) = {l}
          BY <2>7, <3>1, <5>1
        <5> QED BY <5>2
      <4> HIDE DEF worths
      <4> QED BY <2>2, <4>1, <4>2
    <3>3. chart_readings(today) = {InBase(l.value, l.ccy, rate)}
      BY <3>2
    <3>4. LatestRow(vals) = l
      BY <2>1, <3>1, LatestRowIs
    <3>5. CASE acct.source = "manual_mark"
      <4>1. kind \notin Stating /\ l.value \in Nat \ {0}
        BY <3>5, ValueAssumption DEF HoldInv, RowsTrue
      <4>2. l.value = acct.mark /\ l.ccy = acct.ccy
        BY <3>1, <3>5 DEF HoldInv, MarkTrue
      <4>3. MarkOf = l.value
        BY <4>1, <4>2 DEF MarkOf, Unset
      <4> QED BY <2>4, <2>5, <3>3, <3>5, <4>2, <4>3
    <3>6. CASE acct.source = "latest_valuation"
      <4>1. acct.ccy = "base"
        BY <2>7, <3>6
      <4>2. page_readings = {InBase(InBase(l.value, l.ccy, rate), acct.ccy, rate)}
        BY <2>5, <2>7, <3>1, <3>6
      <4>3. page_readings = {InBase(l.value, l.ccy, rate)}
        BY <4>1, <4>2 DEF InBase
      <4> QED BY <2>4, <2>7, <3>3, <3>4, <3>6, <4>3
    <3> QED BY <2>1, <3>5, <3>6 DEF Sources
  <2> QED BY <2>6, <2>7
<1> QED BY <1>1, HoldAlways, PTL
=============================================================================
