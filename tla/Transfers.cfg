\* Every way of using the pages, two requests at a time where they overlap.
CONSTANTS
  r1 = r1
  r2 = r2
  Requests = {r1, r2}
  Accounts = {"checking", "card"}
  Liabilities = {"card"}
  Ledger <- Payment
  Amounts <- Outgoing
  Uses = {"orderly", "edits", "any"}
  MaxTxn = 3
  MaxLink = 2
  MaxBegun = 3
SPECIFICATION Spec
CHECK_DEADLOCK FALSE
SYMMETRY Interchangeable
INVARIANTS PointerIsSide TransfersPaired 
