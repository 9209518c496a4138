\* One request at a time, or two; a start repairs what they leave.
CONSTANTS
  r1 = r1
  r2 = r2
  OtherRows = {"loan", "repaid"}
  Amount <- LoanAmount
  Handlers = {r1, r2}
  Instances <- SoloOrDuo
  RateNum = 1
  RateDen = 10
  MaxCopies = 4
SYMMETRY Interchangeable
SPECIFICATION AccrualSpec
INVARIANTS AccrualsAgreeAlone
PROPERTIES StartRepairs 
CHECK_DEADLOCK FALSE
