SPECIFICATION MCSpec
CONSTANTS
  e1 = e1
  e2 = e2
  e3 = e3
  d1 = d1
  d2 = d2
  Event = {e1, e2, e3}
  Healthy = {e1}
  Dispatcher = {d1, d2}
  BatchSize = 2
  MaxAttempts = 2
  Instant = {0, 1}
  p1 = p1
  p2 = p2
  l1 = l1
  r1 = r1
  None = None
  Proc = {p1, p2}
  Loop = {l1}
  Req = {r1}
  Files <- MCFiles
  MaxBoots = 2
  h1 = h1
  h2 = h2
  h3 = h3
  Handler = {h1, h2, h3}
  PoolMax = 2
  Attempts = 2
INVARIANTS
  NotifiedWhenProcessed
  BootsDoNotCollide
  QuietBeforeClose
PROPERTIES
  EveryEventSettles
  HealthyEventsArrive
  NobodyHangs
  EveryoneIsServed
CHECK_DEADLOCK FALSE
