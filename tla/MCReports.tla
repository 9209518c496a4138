----------------------------- MODULE MCReports -----------------------------
(* The flow chart over every ledger on some routes, and the duplicates page *)
(* while files arrive.                                                      *)
EXTENDS FlowEdges, Review

NameMC == [a1 |-> "A", a2 |-> "A", b |-> "B", c |-> "C", d |-> "D"]
RateMC == [a1 |-> 1, a2 |-> 2, b |-> 1, c |-> 1, d |-> 1]
Routes == {<<"a1", "b">>, <<"b", "a2">>, <<"a2", "b">>, <<"b", "c">>, <<"c", "a1">>, <<"c", "d">>,
           <<"d", "c">>, <<"a1", "a2">>}
Nothing == [q \in Accounts \X Accounts |-> 0]
LedgersMC ==
  {[q \in Accounts \X Accounts |-> IF q \in Routes THEN r[q] ELSE 0] :
     r \in {r \in [Routes -> 0 .. 2] : r[<<"a1", "a2">>] < 2 /\ r[<<"d", "c">>] < 2}}

AlikeMC == [text |-> {}, model |-> {<<"cafe", "coffee">>, <<"coffee", "cafe">>}]
AkinMC == [text |-> AlikeMC["model"], model |-> AlikeMC["model"]]
OnDay(d, w) == [date |-> d, clock |-> 0, word |-> w]
FilesMC ==
  {{OnDay(0, "cafe")}, {OnDay(1, "coffee")}, {OnDay(1, "cafe"), OnDay(2, "cafe")},
   {OnDay(1, "coffee"), OnDay(1, "train")}}
FilesTimed == {{OnDay(1, "cafe")}, {[date |-> 1, clock |-> 1, word |-> "cafe"]}}

\* The two pages share no table they write; files come where there are no transfers.
Init == FlowInit /\ ReviewInit
Next ==
  \/ FlowNext /\ UNCHANGED reviewVars
  \/ moved = Nothing /\ stage = "drawn" /\ ReviewNext /\ UNCHANGED flowVars
Spec == Init /\ [][Next]_<<flowVars, reviewVars>> /\ WF_flowVars(FlowNext /\ UNCHANGED reviewVars)
=============================================================================
