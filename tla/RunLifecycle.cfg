CONSTANTS
  Managers = {a, b}
  Artifact = TRUE
  Overwrite = FALSE
  None = None
  Foreign = Foreign
  MaxCommands = 3
  MaxAttempts = 3
SPECIFICATION Spec
SYMMETRY ManagerSymmetry
INVARIANTS
  TypeOK
  AttemptDirIsExclusive
  LiveChildIsRecorded
  OnlySuccessIsDelivered
PROPERTIES
  EvidenceIsKept
  OutputReplacedOnRequest
CHECK_DEADLOCK FALSE
