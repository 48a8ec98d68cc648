CONSTANTS
  Writers = {w1, w2}
  Months = {m1, m2}
  m1 = m1
  m2 = m2
  Requests <- DurabilityRequests
  CallerIds = {c1}
  c1 = c1
  Origins = {local, other}
  Local = local
  other = other
  Runs = {r1, r2}
  r1 = r1
  r2 = r2
  Sessions = {s1}
  s1 = s1
  None = None
  MaxCalls = 2
  MaxPowerLosses = 0
SPECIFICATION Spec
INVARIANT PartialLineIsRolledBack
CHECK_DEADLOCK FALSE
