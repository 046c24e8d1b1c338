SPECIFICATION MCSpec
CONSTANTS
  s1 = s1
  w1 = w1
  w2 = w2
  Unlimited = Unlimited
  Nobody = Nobody
  Schedule = {s1}
  Worker = {w1, w2}
  Start = {0, 1}
  Runs = {2}
  Interval = 2
  Grace = 1
  RetryBase = 1
  MaxAttempts = 2
  ListSize = 2
  MaxClock = 4
  FirstYear = 2027
  LastYear = 2029
  StartDays = {1, 28, 29, 30, 31}
SYMMETRY Symmetric
INVARIANTS
  PaidOnce
  RunsAreHonoured
  DetailExplained
  NoBurst
  CalendarKept
PROPERTIES
  PaysOnlyWhenWanted
CHECK_DEADLOCK FALSE
