CONSTANTS
  d1 = d1
  d2 = d2
  w1 = w1
  w2 = w2
  Delivery = {d1, d2}
  Worker = {w1, w2}
  Retries = 1
  AutoDisableAfter = 1
  SlowWorkers = FALSE
  MaxRedeliveries = 1
  MaxLost = 1
  MaxSwitches = 1
SPECIFICATION FairSpec
INVARIANTS TypeOK CallsBounded OneCallAtATime
PROPERTIES ClosedStaysClosed PendingIsClosed
CHECK_DEADLOCK FALSE
