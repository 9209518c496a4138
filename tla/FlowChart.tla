----------------------------- MODULE FlowChart -----------------------------
(***************************************************************************)
(* What the transfer flow page promises to draw (the docstring of          *)
(* _acyclic_edges in routers/transfers.py): of every two accounts one edge *)
(* in the dominant direction with what flowed more that way, and of these  *)
(* edges as few taken out as it takes, one by one while there is a cycle.  *)
(* A Sankey diagram with a cycle is not drawn at all.                      *)
(***************************************************************************)
EXTENDS Integers

CONSTANT Names  \* the names of the accounts

VARIABLES
  flow,   \* flow[m, n]: what went from m to n, in the base currency
  edges,
  drawn

chartVars == <<flow, edges, drawn>>

Edge(m, n, amount) == [from |-> m, to |-> n, flow |-> amount]

\* The netted graph, all at once.
Dominant(f) ==
  {Edge(p[1], p[2], f[p] - f[p[2], p[1]]) :
     p \in {q \in Names \X Names : f[q] > f[q[2], q[1]]}}

\* Some accounts from each of which an edge leads to another of them.
Cyclic(es) ==
  \E S \in SUBSET Names : S /= {} /\ \A n \in S : \E e \in es : e.from = n /\ e.to \in S

Init ==
  /\ flow \in [Names \X Names -> Nat]
  /\ edges = Dominant(flow)
  /\ drawn = FALSE

Cut ==
  /\ ~drawn /\ Cyclic(edges)
  /\ \E e \in edges : edges' = edges \ {e}
  /\ UNCHANGED <<flow, drawn>>

Draw ==
  /\ ~drawn /\ ~Cyclic(edges)
  /\ drawn' = TRUE
  /\ UNCHANGED <<flow, edges>>

Next == Cut \/ Draw

Spec == Init /\ [][Next]_chartVars

\* The page is answered.
FairSpec == Spec /\ WF_chartVars(Next)
=============================================================================
