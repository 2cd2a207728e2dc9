SPECIFICATION Spec
CONSTANTS
  a = a
  e = e
  x = x
  Ids <- MCIds
  Comms <- MCComms
  Empty = e
  NoTask = NoTask
  MaxChanges = 2
  Endless = FALSE
  Prefixes <- MCPrefixes
  PrefixOf <- MCPrefixOf
  Configs <- MCConfigs
  Absent = Absent
  Closed = Closed
  Gone = Gone
INVARIANTS TypeOK MapSound MapComplete AbortOnlyOnExit
