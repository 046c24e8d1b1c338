SPECIFICATION Spec
CONSTANTS
  t1 = t1
  t2 = t2
  t3 = t3
  p1 = p1
  p2 = p2
  Nobody = Nobody
  Txn = {t1, t2, t3}
  Instance = {p1}
  Kind = {"REQUEST_SETTLEMENT", "SCHEDULED"}
  Amount = {1, 2}
  DailyLimit = 3
  DayWindow = 1
  Policies <- MCOnePolicy
  ReversalWindow = 1
  MaxClock = 2
SYMMETRY Symmetric
INVARIANTS
  WithinDailyLimit
CHECK_DEADLOCK FALSE
