SPECIFICATION Spec
CONSTANTS
  Key = {k1, k2}
  Loader = {l1, l2, l3}
  Unloader = {u1}
  Reaper = reaper
  Gen = {g1, g2}
  Budget = 1
  ReentryLimit = 2
  MaxSlot = 3
  MaxKill = 0
  MaxReap = 1
SYMMETRY Symmetry
INVARIANTS
  PendingIsLed
  NoLostWorker
  TimelyLeaseRuns
