SPECIFICATION SpecAll
CONSTANTS
  Callers = {a, b}
  Codes = {k1, k2}
  NoCode = NoCode
  AlarmCodes = {k1}
  LogMax = 2
  TrimPercent = 50
  MaxEventId = 3
  MaxCalls = 2
  MaxFaults = 1
  d1 = d1
  d2 = d2
  d3 = d3
  h1 = h1
  h2 = h2
  n1 = n1
  a = a
  b = b
  c = c
  P = P
  Q = Q
  Dimms = {d1, d2, d3}
  Handles = {h1, h2}
  Unmanaged = {d3}
  Namespaces = {n1}
  NoHandle = NoHandle
  NoTopology = NoTopology
  Scenarios <- AllScenarios
  Threads = {a, b, c}
  ProcOf <- MCProcOf
  Pollers = {P}
  NoOne = NoOne
  Quoted = {2}
  MaxLines = 3
  FlushAt = 1
  MaxLog = 1
  MaxCrashes = 1
  Taken = {"platform_config"}
  MaxSnapshots = 1
  MaxSaves = 3
SYMMETRY Alike
INVARIANTS LogExact StartTells NoOrphanAlarm StoredOnce NoneLost  LeftClean
PROPERTIES KeepsAlarms RollsOldest 
