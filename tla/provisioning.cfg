SPECIFICATION SpecAll
CONSTANTS
  c1 = c1
  c2 = c2
  Clients <- MCClients
  Dimms <- MCDimms
  SocketOf <- MCSocketOf
  Named <- MCNamed
  MaxTrouble = 1
  Sets <- MCSets
  DimmsOf <- MCDimmsOf
  SetSize <- MCSetSize
  StorageSize <- MCStorageSize
  Page = 2
  Line = 3
  Minimum = 2
  BlockSize = 2
  Encrypted <- MCEncrypted
  EraseCapable <- MCEraseCapable
  Starts <- MCStarts
  Creates <- MCCreates
  Changes <- MCChanges
  MaxCalls = 2
  MaxFaults = 2
SYMMETRY Anyone
INVARIANTS  ChangedOrUndone SetsWhole FailedLeavesNothing ExportExact
CHECK_DEADLOCK FALSE
