SPECIFICATION Spec
CONSTANTS
  Roots = {r1}
  Tools = {t1}
  McpServers = {s1}
  McpNames = {m1}
  Commands = {c1}
  Destinations = {d1, d2}
  HostGrants = {h1}
  Paths = {p1, p2}
  Definitions = {inside, outside1, outside2}
  OutsideDefs = {outside1, outside2}
  NoTemplate = NoTemplate
  NoPath = NoPath
  OtherId = OtherId
  MaxLimit = 1
  MaxEdits = 3
INVARIANT NoHiddenExpansion ExpansionIsConfirmed ReverseIsMirror
CHECK_DEADLOCK FALSE
