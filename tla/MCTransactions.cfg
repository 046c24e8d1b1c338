SPECIFICATION MCSpec
CONSTANTS
  t1 = t1
  t2 = t2
  t3 = t3
  k1 = k1
  k2 = k2
  k3 = k3
  k4 = k4
  Nobody = Nobody
  Account <- MCAccount
  System <- MCSystem
  Txn = {t1, t2, t3}
  Key = {k1, k2, k3, k4}
  Amount = {1, 2}
  Opening <- MCOpening
  InitStatus <- MCStatus
  Request <- MCRequest
  x1 = x1
  x2 = x2
  x3 = x3
  x4 = x4
  g1 = g1
  g2 = g2
  None = None
  AuthTxn = {x1, x2, x3, x4}
  Page = {g1, g2}
SYMMETRY MCSymmetric
INVARIANTS
  FundsNeverNegative
  ExactlyOnce
  ReplayTellsTruth
  ReversedOnce
  AuditPasses
  NoDeadlock
  OneLiveToken
PROPERTIES
  FrozenNeverPays
  AfterImagesTrue
  ImplementsPromise
  SpentOnce
CHECK_DEADLOCK FALSE
