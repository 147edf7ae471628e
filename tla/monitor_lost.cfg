SPECIFICATION Spec
CONSTANTS
  Dimms = {d1}
  Namespaces = {}
  DimmAttrs <- TwoKinds
  NoState = NoState
  MaxCount = 1
  MaxChanges = 2
  MaxFaults = 0
  MaxStops = 1
INVARIANTS StoryAlwaysHolds
