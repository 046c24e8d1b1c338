SPECIFICATION MCSpec
CONSTANTS
  ana = ana
  ben = ben
  w1 = w1
  w2 = w2
  r1 = r1
  Nobody = Nobody
  Nothing = Nothing
  Account = {ana, ben}
  Write = {w1, w2}
  Read = {r1}
  Funds = 1
  t1 = t1
  t2 = t2
  t3 = t3
  this = this
  that = that
  Txn = {t1, t2, t3}
  Mark = {this, that}
  Filter <- MCFilter
  Bound = {1}
  PageSize = 1
  PerMilli = 2
  PerDay = 2
  MaxClock = 2
  c1 = c1
  c2 = c2
  d1 = d1
  d2 = d2
  NoCall = NoCall
  Incomplete = Incomplete
  Call = {c1, c2}
  Details = {d1, d2}
  MaxVisits = 2
SYMMETRY MCSymmetric
INVARIANTS
  BalanceIsTrue
  ShowsWhatTheWriteSaw
  PagesAreExact
  FoundUnlessMidnight
  NeverPaidTwiceUnknowingly
  EachSuccessIsNew
CHECK_DEADLOCK FALSE
