SPECIFICATION Spec
CONSTANTS
  b1 = b1
  b2 = b2
  b3 = b3
  Chains <- MCChains
  Quota = 5
  BranchReuse = TRUE
  MaxFaults = 2
  MaxCrashes = 1
  MaxWipes = 1
  p1 = p1
  p2 = p2
  p3 = p3
  Worker = {w1}
  Prefix = {p1, p2, p3}
  Requests <- MCRequests
  MaxBytes = 2
  MaxSpoiled = 2
  MaxKills = 1
  a = a
  b = b
  Token = {a, b}
  Prompts <- MCPrompts
  Windows = {0, 3}
  MinReuse = 2
  DiskTokens = 5
  WriteTokens = 8
  None = None
  MaxGen = 2
  MaxTurns = 3
  MaxMishaps = 1
INVARIANTS
  TypeOK
  ServedSound
  
  FailuresPaid
  LabelsTrue
