SPECIFICATION FairSpec
CONSTANTS
  Key = {k1, k2}
  Loader = {l1, l2}
  Unloader = {u1}
  Reaper = reaper
  Gen = {g1}
  Budget = 1
  ReentryLimit = 2
  MaxSlot = 4
  MaxKill = 2
  MaxReap = 1
PROPERTIES
  LoadsEnd
INVARIANTS
  LocksOwned
