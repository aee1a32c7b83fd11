SPECIFICATION FairSpec
CONSTANTS
  Req = {r1, r2}
  Slot = {s1, s2}
  ModelOf <- OneEach
  Conc = 1
  MaxQueued = 2
  None = None
PROPERTIES
  EveryRequestEnds
