SPECIFICATION MCSpec
CONSTANTS
  t1 = t1
  t2 = t2
  asker = asker
  friend = friend
  other = other
  r1 = r1
  k1 = k1
  k2 = k2
  w1 = w1
  w2 = w2
  Nobody = Nobody
  User = {asker, friend, other}
  Key = {k1, k2}
  Txn = {t1, t2}
  Worker = {w1, w2}
  Standing = {r1}
  Requester <- MCRequester
  Payer <- MCPayer
  Bills <- MCBills
  Life = 1
  BatchSize = 1
  MaxClock = 1
  MaxTotal = 9
  MaxWeight = 3
  MaxParty = 3
  MinShare = 2
INVARIANTS
  SettledOnce
  AnswersAreTrue
  OneBillPerKey
  SharesAreFair
  ViewsAgree
PROPERTIES
  NothingStaysOverdue
CHECK_DEADLOCK FALSE
