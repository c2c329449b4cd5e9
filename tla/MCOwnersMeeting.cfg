SPECIFICATION Spec
CONSTANTS
  Unit = {a}
  User = {u1, u2}
  NoUser = NoUser
  Mode = {"flag", "proxy_priority"}
  Request = {r1, r2}
SYMMETRY Interchangeable
INVARIANTS TypeOK EachSourceOnce NoVoteLost
PROPERTIES OnlyOverlapsBreak ClosedIsFrozen
