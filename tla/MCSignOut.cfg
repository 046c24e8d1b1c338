SPECIFICATION SessionsSpec
CONSTANTS
  x1 = x1
  x2 = x2
  x3 = x3
  x4 = x4
  g1 = g1
  g2 = g2
  None = None
  AuthTxn = {x1, x2, x3, x4}
  Page = {g1, g2}
SYMMETRY SessionsSymmetric
INVARIANTS
  SignedOutHoldsNothing
CHECK_DEADLOCK FALSE
