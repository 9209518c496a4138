\* A file that repeats what is there, and the rows without a category from before.
CONSTANTS
  RowIds <- RowsMC
  Descs <- DescsMC
  Words <- WordsMC
  Class <- ClassMC
  Source <- SourceMC
  Amounts <- AmountsMC
  Cats = {"travel", "fun"}
  Documents <- DocumentsMC
  Patterns <- PatternsMC
  Blank = "blank"
  Core <- CoreMC
  Wordless = {}
  PartOf <- PartOfMC
  Overlaps <- OverlapsMC
  Keyword <- KeywordMC
  Offs = {0, 1, 2}
  MaxHits = 3
  MaxOps = 3
SPECIFICATION Spec
CHECK_DEADLOCK FALSE
PROPERTY OnlyNewRowsPlaced
