\* Five accounts of four names with eight routes; files of two lines on three days.
CONSTANTS
  Accounts = {"a1", "a2", "b", "c", "d"}
  Name <- NameMC
  Rate <- RateMC
  Ledgers <- LedgersMC
  LastDate = 2
  Span = 1
  Clocks = {0}
  Words = {"cafe", "coffee", "train"}
  Measures = {"text", "model"}
  Alike <- AlikeMC
  Akin <- AkinMC
  Files <- FilesMC
  MaxRow = 4
  MaxImports = 3
SPECIFICATION Spec
CHECK_DEADLOCK FALSE
INVARIANTS NetKept
PROPERTIES ChartOfFlows ChainKeepsOne
