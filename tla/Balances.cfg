\* The three readings against the institution's book.
CONSTANTS
  None = None
  Kinds = {"bank", "plain", "card"}
  Opening = 7
  Amounts <- SmallAmounts
  HandAmounts = {3}
  Values <- NoValue
  Lags = {0, 1}
  TypedSigns <- TypedAsOwed
  LastDay = 3
  MaxBook = 3
  MaxHand = 1
SPECIFICATION Spec
INVARIANTS CloseIsRead  LatestStatementWins HistoryMeetsCard
CHECK_DEADLOCK FALSE
