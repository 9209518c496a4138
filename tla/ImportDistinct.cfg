\* Exports that state each transaction once, deletions and recoveries; or the
\* bank's rows that meet rows entered ahead of them.
CONSTANTS
  e1 = e1
  t1 = t1
  Importers = {t1}
  Editors = {e1}
  NoThread = NoThread
  Files = {"csv", "pdf", "bank", "twice"}
  Content <- DistinctContent
  Similar <- OverlapSimilar
  Entries <- RentEntries
  Rewordings = {"moved"}
  MaxId = 4
  MaxTombs = 2
  MaxImports = 3
  Households <- EditsOrEntries
SPECIFICATION Spec
INVARIANTS   NoExpectationStranded
PROPERTIES ReimportAddsNothing
CHECK_DEADLOCK FALSE
