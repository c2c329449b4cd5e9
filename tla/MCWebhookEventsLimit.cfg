CONSTANTS
  Event = {1, 2, 3}
  Matching = {3}
  Worker = {w1, w2}
  w1 = w1
  w2 = w2
  Limit = 2
  Overlap = 1
  Longest = 1
  MaxTime = 2
  MaxLost = 0
  MaxSwitches = 0
SPECIFICATION FairSpec
PROPERTY MatchingEventsAreQueued
CHECK_DEADLOCK FALSE
