SPECIFICATION JobFairSpec
CONSTANTS
  Sub = {s1}
  Canceller = {c1, c2}
  MaxProgress = 2
INVARIANTS
  ActiveIsTended
  StreamTellsOutcome
PROPERTIES
  RowLife
  StreamsEnd
