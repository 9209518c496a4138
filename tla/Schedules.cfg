\* One schedule with confirmations, a statement, odd entries and proposals, or
\* two schedules that compete for the same rows.
CONSTANTS
  Requests = {r1}
  Names = {"rent", "lease"}
  Looks = {"rent", "lease", "odd"}
  Plan <- ThePlan
  Likeness <- TheLikeness
  Statements <- SecondStatement
  Entries <- AllEntries
  MonthLength = 30
  Homes <- HomeSoloOrShared
SPECIFICATION Spec
CHECK_DEADLOCK FALSE
INVARIANTS TypeOK  
PROPERTIES DecisionsStand NoSharedClaim
