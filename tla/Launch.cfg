CONSTANTS
  None = None
  r1 = r1
  r2 = r2
  Runs = {r1, r2}
  Scenarios <- SmallScenarios
  Places <- AllPlaces
  PlaceKinds = {"absent", "empty", "filled", "public", "file"}
  Stop = 3
  MaxBytes = 2
  MaxSaved = 1
  MaxRemoved = 1
  MaxAttempts = 2
SPECIFICATION Spec
INVARIANTS
  ScratchIsOwned
  WorkerIsContained
  AcceptedIsRequested
PROPERTIES
  BudgetVerdictIsTrue
  LogsFit
CHECK_DEADLOCK FALSE
