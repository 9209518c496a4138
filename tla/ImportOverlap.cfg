\* Two requests import overlapping exports while a third deletes and recovers.
CONSTANTS
  e1 = e1
  t1 = t1
  t2 = t2
  Importers = {t1, t2}
  Editors = {e1}
  NoThread = NoThread
  Files = {"csv", "pdf"}
  Content <- OverlapContent
  Similar <- OverlapSimilar
  Entries = {}
  Rewordings = {}
  MaxId = 5
  MaxTombs = 1
  MaxImports = 3
  Households <- AllFiles
SYMMETRY Interchangeable
SPECIFICATION Spec
INVARIANTS TypeOK SourceHashUnique NoRowLost
PROPERTIES BalanceNeverOverwritten LedgerOfDays
CHECK_DEADLOCK FALSE
