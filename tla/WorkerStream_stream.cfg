SPECIFICATION Spec
CONSTANTS
  Req = {r1, r2}
  ToolReq = {r2}
CHECK_DEADLOCK FALSE
INVARIANTS GeneratorsSettle ToldTruly
PROPERTIES StopsAtNextToken CancelStops
