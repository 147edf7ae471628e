SPECIFICATION SpecAll
CONSTANTS
  Dimms = {d1}
  Namespaces = {n1}
  DimmAttrs <- StatusAndSensor
  NoState = NoState
  MaxCount = 1
  MaxChanges = 2
  MaxFaults = 1
  MaxStops = 1
  DimmCount = 2
  PerfMax = 4
  TrimPercent = 30
  MaxStarts = 2
  MaxTrimFails = 1
INVARIANTS   StoreInUse PerfBounded
PROPERTIES  StopEnds
