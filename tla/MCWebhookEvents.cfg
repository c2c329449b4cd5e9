CONSTANTS
  Event = {1, 2, 3}
  Matching = {1, 2}
  Worker = {w1, w2}
  w1 = w1
  w2 = w2
  Limit = 2
  Overlap = 1
  Longest = 1
  MaxTime = 3
  MaxLost = 1
  MaxSwitches = 1
SPECIFICATION FairSpec
INVARIANTS TypeOK NothingLeftBehind
PROPERTY MatchingEventsAreQueued
CHECK_DEADLOCK FALSE
