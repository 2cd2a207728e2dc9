SPECIFICATION CmdSpec
CONSTANTS
  Many = 9
  Words <- MCWords
  Positional <- MCPositional
  Letters <- MCNone
  Assigned <- MCNone
  Lines <- MCLines
  Text <- MCTextOf
  Pids = {1, 2, 3}
  PidOf <- MCPidOf
  Stoul <- MCStoul
  DefaultInterval = "1000"
  NsPerMs = 12
  RefreshIntervalMs = 20
  WordMod = 256
INVARIANT IntervalAsGiven
