SPECIFICATION Spec
CONSTANTS
  Dimms = 2
  PerfMax = 4
  TrimPercent = 30
  MaxStarts = 1
  MaxTrimFails = 0
INVARIANTS EventsChecked
