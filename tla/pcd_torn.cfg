SPECIFICATION Spec
CONSTANTS
  Procs = {p1}
  memory = memory
  appDirect = appDirect
  Goals = {memory, appDirect}
  Length <- Lengths
  PartSize = 5
  None = None
  MaxBoots = 2
  MaxFaults = 1
  MaxSmall = 3
SYMMETRY Symmetric
INVARIANTS NumberUnseen
