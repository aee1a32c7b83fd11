SPECIFICATION Spec
CONSTANTS
  Req = {r1, r2, r3}
  Slot = {s1, s2, s3}
  ModelOf <- Mixed
  Conc = 2
  MaxQueued = 1
  None = None
SYMMETRY ReqSymmetry
INVARIANTS
  PermitsAccounted
  LaneOwned
  NoZombieOwner
  NothingLeftBehind
PROPERTIES
  LaneServiceSpec
