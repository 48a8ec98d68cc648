CONSTANTS
  Managers = {a, b}
  Artifact = TRUE
  Overwrite = FALSE
  None = None
  Foreign = Foreign
  MaxCommands = 3
  MaxAttempts = 3
SPECIFICATION Spec
SYMMETRY ManagerSymmetry
INVARIANT ExitZeroIsDelivered
CHECK_DEADLOCK FALSE
