SPECIFICATION StatementsSpec
CONSTANTS
  Txn = {t1}
  Mark = {out}
  Filter = {}
  Bound = {}
  PageSize = 1
  PerMilli = 1
  PerDay = 2
  MaxClock = 2
INVARIANTS
  FoundByItsReference
CHECK_DEADLOCK FALSE
