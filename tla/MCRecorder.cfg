SPECIFICATION Spec
CONSTANTS
  p1 = p1
  p2 = p2
  a = a
  e = e
  x = x
  Ids <- MCIds
  Comms <- MCComms
  Empty = e
  NoTask = NoTask
  MaxChanges = 2
  Endless = FALSE
  Prefixes <- MCPrefixes
  PrefixOf <- MCPrefixOf
  Configs <- MCConfigs
  Absent = Absent
  Closed = Closed
  Gone = Gone
  FuncCounts <- MCFuncCounts
  TickIntervalMs = 3000
  RefreshIntervalMs = 10000
  CounterMod = 4
INVARIANTS TypeOK LookupsHit StalenessBound NothingLeftBehind SampleComplete
PROPERTIES ShutdownStops ViewConverges
