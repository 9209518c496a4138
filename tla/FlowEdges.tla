----------------------------- MODULE FlowEdges -----------------------------
(***************************************************************************)
(* GET /transfers/flow (routers/transfers.py: transfer_flow and            *)
(* _acyclic_edges): confirmed transfers summed by the names of the two     *)
(* accounts in the base currency, netted pair by pair, and cut until the   *)
(* graph has no cycle.                                                     *)
(*                                                                         *)
(* The order in which the dictionary is gone through and the order of      *)
(* edges of one flow are left open.                                        *)
(***************************************************************************)
EXTENDS Integers, FiniteSets, FiniteSetsExt

CONSTANTS
  Accounts,
  Name,      \* Name[a]: the name of account a; two accounts may share one
  Rate,      \* Rate[a]: what a unit of a's currency is worth in the base currency
  Ledgers    \* the sums of confirmed transfers a page may find:
             \* functions from pairs of accounts to an amount in the sender's currency

Names == {Name[a] : a \in Accounts}
Pairs == Names \X Names
Reverse(p) == <<p[2], p[1]>>

\* pair_flow: grouped by names and currencies, each group converted; what goes
\* from an account to one of the same name is passed over.
Collapsed(ledger) ==
  [p \in Pairs |->
     IF p[1] = p[2] THEN 0
     ELSE MapThenSumSet(LAMBDA q : ledger[q] * Rate[q[1]],
                        {q \in Accounts \X Accounts : <<Name[q[1]], Name[q[2]]>> = p})]

ASSUME LedgerAssumption ==
  /\ IsFiniteSet(Accounts)
  /\ Rate \in [Accounts -> Nat]
  /\ Ledgers \subseteq [Accounts \X Accounts -> Nat]

VARIABLES
  moved,      \* the transfers the query finds
  pair_flow,  \* what flowed between two names; 0 where the dictionary has no entry
  processed,  \* the pairs netted so far
  netted,     \* the edges so far
  dropped,    \* the edges cut
  stage       \* "net", "cut" or "drawn"

flowVars == <<moved, pair_flow, processed, netted, dropped, stage>>

Entries == {p \in Pairs : pair_flow[p] > 0}
Edge(p, amount) == [from |-> p[1], to |-> p[2], flow |-> amount]

----------------------------------------------------------------------------

\* Mistake: the smaller direction is thrown away instead of taken off.
LargerOf(p) ==
  IF pair_flow[p] >= pair_flow[Reverse(p)] THEN {Edge(p, pair_flow[p])}
  ELSE {Edge(Reverse(p), pair_flow[Reverse(p)])}

\* The edge of a pair, or none if the two directions cancel out exactly.
Net(p) ==
  LET q == Reverse(p)
      e == pair_flow[p]
      rev == pair_flow[q]
      edge == IF e >= rev THEN Edge(p, e - rev) ELSE Edge(q, rev - e)
  IN  IF q \in Entries THEN {x \in {edge} : x.flow > 0} ELSE {Edge(p, e)}

TakePair(p) ==
  /\ stage = "net" /\ p \in Entries \ processed
  /\ netted' = netted \cup Net(p)
  /\ processed' = processed \cup ({p, Reverse(p)} \cap Entries)
  /\ UNCHANGED <<moved, pair_flow, dropped, stage>>

AllNetted ==
  /\ stage = "net" /\ Entries \subseteq processed
  /\ stage' = "cut"
  /\ UNCHANGED <<moved, pair_flow, processed, netted, dropped>>

\* Mistake: only an account that leads back to itself in two steps is seen.
ShortCycle(es) ==
  \E d, e \in es : d.to = e.from /\ e.to = d.from

\* _has_cycle: the depth-first search meets an account it is still visiting
\* exactly if some accounts each lead to another of them.
HasCycle(es) ==
  \E S \in SUBSET Names : S /= {} /\ \A n \in S : \E e \in es : e.from = n /\ e.to \in S

\* Sorted by flow, the first one goes.
CutSmallest ==
  /\ stage = "cut" /\ HasCycle(netted)
  /\ \E e \in netted :
       /\ \A x \in netted : e.flow <= x.flow
       /\ netted' = netted \ {e}
  /\ dropped' = dropped + 1
  /\ UNCHANGED <<moved, pair_flow, processed, stage>>

DrawFlow ==
  /\ stage = "cut" /\ ~HasCycle(netted)
  /\ stage' = "drawn"
  /\ UNCHANGED <<moved, pair_flow, processed, netted, dropped>>

FlowInit ==
  /\ moved \in Ledgers
  /\ pair_flow = Collapsed(moved)
  /\ processed = {} /\ netted = {} /\ dropped = 0
  /\ stage = "net"

FlowNext ==
  \/ \E p \in Pairs : TakePair(p)
  \/ AllNetted
  \/ CutSmallest
  \/ DrawFlow

FlowSpec == FlowInit /\ [][FlowNext]_flowVars

----------------------------------------------------------------------------

FlowTypeOK ==
  /\ moved \in Ledgers
  /\ pair_flow \in [Pairs -> Nat]
  /\ processed \subseteq Entries
  /\ netted \subseteq [from : Names, to : Names, flow : Nat]
  /\ dropped \in Nat
  /\ stage \in {"net", "cut", "drawn"}

\* While the pairs are gone through, the netted graph is what it will be.
FC == INSTANCE FlowChart WITH
        flow <- pair_flow,
        edges <- IF stage = "net"
                 THEN {[from |-> p[1], to |-> p[2], flow |-> pair_flow[p] - pair_flow[Reverse(p)]] :
                         p \in {q \in Pairs : pair_flow[q] > pair_flow[Reverse(q)]}}
                 ELSE netted,
        drawn <- stage = "drawn"

\* The loop over the dictionary with its set of processed pairs, and the loop
\* that sorts and pops, draw what the chart promises: each pair nets to its
\* dominant direction whatever the order, edges go only while there is a cycle,
\* what is drawn has none, and the page is answered.
ChartOfFlows == FC!FairSpec

In(n) == MapThenSumSet(LAMBDA e : e.flow, {e \in netted : e.to = n})
Out(n) == MapThenSumSet(LAMBDA e : e.flow, {e \in netted : e.from = n})
Received(n) ==
  MapThenSumSet(LAMBDA q : moved[q] * Rate[q[1]], {q \in Accounts \X Accounts : Name[q[2]] = n})
Sent(n) ==
  MapThenSumSet(LAMBDA q : moved[q] * Rate[q[1]], {q \in Accounts \X Accounts : Name[q[1]] = n})

\* The table beside the diagram (`summary', net = in - out): as long as no edge
\* was cut, every name gains what its accounts received less what they sent,
\* through grouping by name, conversion, netting and cancelling out.
NetKept ==
  stage = "drawn" /\ dropped = 0 => \A n \in Names : In(n) - Out(n) = Received(n) - Sent(n)

\* Whatever can be reached from its end, its start can.
OnCycle(e) ==
  \A T \in SUBSET Names :
    e.to \in T /\ (\A x \in netted : x.from \in T => x.to \in T) => e.from \in T

\* The comments at transfers.py:56 and 352, "dropping its smallest-flow edge":
\* an edge that goes is one of a cycle.
CutsOnCycle == [][\A e \in netted \ netted' : OnCycle(e)]_netted
=============================================================================
