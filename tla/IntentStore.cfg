CONSTANTS
  Writers = {w1, w2}
  Months = {m1, m2}
  m1 = m1
  m2 = m2
  Requests <- IdentityRequests
  CallerIds = {c1}
  c1 = c1
  Origins = {local, other}
  Local = local
  other = other
  Runs = {r1, r2}
  r1 = r1
  r2 = r2
  Sessions = {s1}
  s1 = s1
  None = None
  MaxCalls = 3
  MaxPowerLosses = 1
SPECIFICATION Spec
SYMMETRY WriterSymmetry
INVARIANTS
  TypeOK
  MutualExclusion
  IndexFresh
  StoreConsistent
  OrphanFlagTrue
  FailedLeavesNothing
  OneRecordPerCall
PROPERTY AppendOnly
CHECK_DEADLOCK FALSE
