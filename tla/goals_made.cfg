SPECIFICATION SpecBoth
CONSTANTS
  GB = 16
  WordGB = 65536
  Goals <- SomeGoals
  Dimms <- SomeDimms
  None = None
  PmAlignment = 4
  Requests <- MCRequests
  Manageable <- MCManageable
  Features <- MCFeatures
  OldSets <- MCOldSets
  SocketCount = 8
INVARIANTS AcceptedFits GoalKept GoalsFit AsAsked
PROPERTIES ReapplyStable RoundsPlace
CHECK_DEADLOCK FALSE
