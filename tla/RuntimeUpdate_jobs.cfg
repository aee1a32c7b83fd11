SPECIFICATION FairSpec
CONSTANTS
  Model = {m1}
  MaxSlot = 4
  Keep = 3
  MaxCancel = 1
  Enabled = {TRUE, FALSE}
INVARIANTS
  TypeOK
  
PROPERTIES
  
  UpdateEnds
