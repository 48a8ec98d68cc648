CONSTANTS
  Lines = {"init", "broader", "ok", "error", "other", "noise", "scalar"}
  Enforcement = {TRUE, FALSE}
  LogLimit = 2
  PipeSize = 1
  MaxEvents = 2
  MaxChunks = 1
SPECIFICATION Spec
INVARIANTS
  LogsShareOneBudget
  MaterializableIsWhole
  ManifestBeforeResult
  OverBudgetIsCaught
  StoryIsOne
CHECK_DEADLOCK FALSE
