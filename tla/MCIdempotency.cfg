CONSTANTS
  c1 = c1
  c2 = c2
  c3 = c3
  c4 = c4
  Call = {c1, c2, c3, c4}
  NoCall = NoCall
  Fingerprint <- MCFingerprint
  LateErrors = TRUE
  MaxFaults = 1
  MaxExpired = 1
SPECIFICATION Spec
INVARIANTS TypeOK MadeOnce ReplayIsTrue
PROPERTY KeepsPromise
SYMMETRY Interchangeable
CHECK_DEADLOCK FALSE
