SPECIFICATION Spec
CONSTANTS
  a = a
  e = e
  x = x
  Ids <- MCIds2
  Comms <- MCOneComm
  Empty = a
  NoTask = NoTask
  MaxChanges = 0
  Endless = TRUE
  Prefixes <- MCPrefixes
  PrefixOf <- MCPrefixOf
  Configs <- MCConfigs
  Absent = Absent
  Closed = Closed
  Gone = Gone
PROPERTIES RefreshEnds
