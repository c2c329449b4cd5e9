SPECIFICATION Spec
CONSTANTS
  t1 = t1
  t2 = t2
  r1 = r1
  r2 = r2
  Transaction = {t1, t2}
  Early = {t1}
  Group <- Pair
  Entry = {1, 2}
  Automatic = {1}
  Reviewed = {1}
  Run = {r1, r2}
  Lag = 1
  BatchLimit = 1
  Longest = 1
  LastMoment = 3
  MaxFaults = 1
INVARIANTS TypeOK NoSecondEffect HandledIsUndone NoneSkipped CountedOnce
PROPERTIES DisabledForGood EachReversalHandled
