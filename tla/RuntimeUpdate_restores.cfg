SPECIFICATION Spec
CONSTANTS
  Model = {m1}
  MaxSlot = 2
  Keep = 3
  MaxCancel = 0
  Enabled = {TRUE}
PROPERTIES
  FailedUpdateRestores
