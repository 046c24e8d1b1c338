SPECIFICATION CalendarSpec
CONSTANTS
  FirstYear = 2027
  LastYear = 2027
  StartDays = {1, 31}
INVARIANTS
  StaysOnItsDay
CHECK_DEADLOCK FALSE
