SPECIFICATION Spec
CONSTANTS
  ana = ana
  ben = ben
  w1 = w1
  w2 = w2
  r1 = r1
  Nobody = Nobody
  Nothing = Nothing
  Account = {ana, ben}
  Write = {w1, w2}
  Read = {r1}
  Funds = 1
SYMMETRY Symmetric
INVARIANTS
  ReadYourWrites
CHECK_DEADLOCK FALSE
