CONSTANT MaxChunks = 2
SPECIFICATION FairSpec
INVARIANTS
  SuccessIsWhole
PROPERTIES
  TimeoutStopsProvider
  RunEnds
CHECK_DEADLOCK FALSE
