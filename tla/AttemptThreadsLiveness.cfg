CONSTANTS
  Lines = {"init", "broader", "scalar"}
  Enforcement = {TRUE}
  LogLimit = 0
  PipeSize = 1
  MaxEvents = 1
  MaxChunks = 1
SPECIFICATION FairSpec
PROPERTIES
  ManifestFailureStopsChild
  OverBudgetStopsChild
  AttemptEnds
CHECK_DEADLOCK FALSE
