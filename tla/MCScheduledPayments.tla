------------------------ MODULE MCScheduledPayments ------------------------
EXTENDS ScheduledPayments, TLC

\* Rent and lease fall due on the 5th, gym every seven days, "first" on the
\* first and "end" on the 28th of a month, the deposit once.
MonthlyRent == [unit |-> "months", len |-> 1, anchor |-> 5, due |-> 5]
Plans(names) ==
  [n \in names |->
     CASE n = "rent" -> MonthlyRent
       [] n = "lease" -> MonthlyRent
       [] n = "gym" -> [unit |-> "days", len |-> 7, anchor |-> 0, due |-> 5]
       [] n = "first" -> [unit |-> "months", len |-> 1, anchor |-> 1, due |-> 31]
       [] n = "end" -> [unit |-> "months", len |-> 1, anchor |-> 28, due |-> 58]
       [] n = "deposit" -> [unit |-> "once", len |-> 0, anchor |-> 0, due |-> 5]]
ThePlan == Plans(Names)
\* A wording is its own name's, half like a lease's for a rent, or nothing alike.
TheLikeness ==
  [n \in Names |-> [k \in Looks |->
     IF k = n THEN 132 ELSE IF {n, k} = {"rent", "lease"} THEN 66 ELSE 0]]

Row(date, look) == [date |-> date, look |-> look]
NoStatements == <<>>
NoEntries == {}
SecondStatement == [f \in {"second"} |-> <<Row(35, "rent")>>]
OddEntries == {Row(5, "odd")}
LeaseEntries == {Row(5, "rent"), Row(35, "lease")}
EarlyStatement == [f \in {"early"} |-> <<Row(28, "first")>>]
LateStatement == [f \in {"late"} |-> <<Row(61, "end")>>]
AllEntries == OddEntries \cup LeaseEntries

\* What each run is about.
HomeConfirmRace ==
  {[names |-> {"rent"}, files |-> DOMAIN NoStatements, entries |-> NoEntries,
     offered |-> {5}, typed |-> {}, found |-> {}, stated |-> {}, txns |-> 2, scheds |-> 1]}
HomeDelete ==
  {[names |-> {"rent"}, files |-> DOMAIN SecondStatement, entries |-> OddEntries,
     offered |-> {}, typed |-> {}, found |-> {}, stated |-> {}, txns |-> 2, scheds |-> 1]}
HomeDetect ==
  {[names |-> {"rent"}, files |-> DOMAIN NoStatements, entries |-> NoEntries,
     offered |-> {}, typed |-> {}, found |-> {"rent"}, stated |-> {}, txns |-> 1, scheds |-> 1]}
HomeEarly ==
  {[names |-> {"first"}, files |-> DOMAIN EarlyStatement, entries |-> NoEntries,
     offered |-> {}, typed |-> {}, found |-> {}, stated |-> {}, txns |-> 1, scheds |-> 1]}
HomeLate ==
  {[names |-> {"end"}, files |-> DOMAIN LateStatement, entries |-> NoEntries,
     offered |-> {}, typed |-> {}, found |-> {}, stated |-> {}, txns |-> 1, scheds |-> 1]}
HomeReuse ==
  {[names |-> {"rent", "lease"}, files |-> DOMAIN NoStatements, entries |-> LeaseEntries,
     offered |-> {}, typed |-> {}, found |-> {}, stated |-> {}, txns |-> 2, scheds |-> 2]}
HomeShared ==
  {[names |-> {"rent", "lease"}, files |-> DOMAIN NoStatements, entries |-> LeaseEntries,
     offered |-> {}, typed |-> {5}, found |-> {"lease"}, stated |-> {}, txns |-> 2, scheds |-> 2]}
HomeSolo ==
  {[names |-> {"rent"}, files |-> DOMAIN SecondStatement, entries |-> OddEntries,
     offered |-> {5, 35}, typed |-> {}, found |-> {}, stated |-> {"rent"}, txns |-> 3, scheds |-> 1]}
HomeStart ==
  {[names |-> {"rent"}, files |-> DOMAIN NoStatements, entries |-> OddEntries,
     offered |-> {}, typed |-> {}, found |-> {}, stated |-> {}, txns |-> 1, scheds |-> 1]}
HomeSoloOrShared == HomeSolo \cup HomeShared
=============================================================================
