SPECIFICATION Spec
CONSTANTS
  c1 = c1
  c2 = c2
  Clients <- MCClients
  Dimms <- MCDimms
  Sets <- MCSets
  DimmsOf <- MCDimmsOf
  SetSize <- MCSetSize
  StorageSize <- MCStorageSize
  Page = 2
  Line = 3
  Minimum = 2
  BlockSize = 2
  Encrypted <- MCEncrypted
  EraseCapable <- MCEraseCapable
  Starts <- MCStarts
  Creates <- MCCreates
  Changes <- MCChanges
  MaxCalls = 2
  MaxFaults = 2
SYMMETRY Anyone
CHECK_DEADLOCK FALSE
INVARIANT EachAsAsked
