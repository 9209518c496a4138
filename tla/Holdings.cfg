SPECIFICATION Spec
CONSTANTS
  LastDay = 2
  Reach = 1
  Market <- MarketOf
  Typed = {9}
  Enough = 2
  Values = {3, 4}
  MaxRates = 3
  MaxMarks = 3
  MaxVals = 4
  Fills <- FillsOf
  Opening = 1
  Periods <- PeriodsOf
  Holds = {"h1", "h2"}
  Units <- UnitsOf
  Price <- PriceOf
  Live = 11
  Shapes = {"abroad", "property", "broker", "overlap", "rsu", "pension"}
INVARIANTS TypeOK WorthAgrees  
CHECK_DEADLOCK FALSE
