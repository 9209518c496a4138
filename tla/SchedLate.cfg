\* A bill of the end of the month, paid a few days late.
CONSTANTS
  Requests = {r1}
  Names = {"end"}
  Looks = {"end"}
  Plan <- ThePlan
  Likeness <- TheLikeness
  Statements <- LateStatement
  Entries <- NoEntries
  MonthLength = 30
  Homes <- HomeLate
SPECIFICATION Spec
CHECK_DEADLOCK FALSE
PROPERTIES NoOccurrenceSkipped
