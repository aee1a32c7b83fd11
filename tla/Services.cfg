SPECIFICATION Spec
CONSTANTS
  Loader = {l1}
  Gen = {g1}
  Unloader = {o1}
  Forcer = {o1}
  Prober = {o1}
  ProcModel = {m1}
  Engine = {"lm", "vlm"}
  Candidates <- MCCandidates
  Nothing = Nothing
  MaxPid = 3
  MaxLoads = 2
  MaxDeaths = 1
  MaxProcRestarts = 1
  Call = {c1, c2}
  PoolKey = {m1}
  NoSlot = NoSlot
  MaxWorkers = 3
  MaxEnds = 2
  Caller = {r1, r2, r3, r4}
  MaxQueued = 2
  None = None
  Exports <- MCExports
  Patches <- MCPatches
  Closed = Closed
  MaxEdits = 2
  MaxPuts = 1
  Ingest = {i1, i2, i3}
  Collection = {c1}
  Dim = {1, 2}
  Pieces = {2}
  MaxChunks = 4
  NoDim = 0
  m1 = m1
  m2 = m2
  Model = {m1, m2}
  Patch <- MCPatch
  Body <- MCBody
  Endpoint <- MCEndpoint
  Stored <- Here
  Absent = Absent
  MaxResRestarts = 1
  MaxCalls = 3
  MaxRetries = 1
INVARIANTS
  TypeOK
  
  ServedValid
  SoundUnlessRaced
  
PROPERTIES
  SettingsKept
  ResidentsKeep
CHECK_DEADLOCK FALSE
