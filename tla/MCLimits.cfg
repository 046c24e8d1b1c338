SPECIFICATION MCSpec
CONSTANTS
  t1 = t1
  t2 = t2
  t3 = t3
  p1 = p1
  p2 = p2
  Nobody = Nobody
  Txn = {t1, t2, t3}
  Instance = {p1, p2}
  Kind = {"P2P", "REQUEST_SETTLEMENT"}
  Amount = {1, 2}
  DailyLimit = 3
  DayWindow = 1
  Policies <- MCPolicies
  ReversalWindow = 1
  MaxClock = 2
  a1 = a1
  a2 = a2
  a3 = a3
  a4 = a4
  Attempt = {a1, a2, a3, a4}
  MAX_PIN_ATTEMPTS = 2
  LOCKOUT = 2
  MaxNow = 4
SYMMETRY Symmetric
INVARIANTS
  PolicyAppliedExactly
  TypedWithinDailyLimit
  NoFailureLost

  
CHECK_DEADLOCK FALSE
