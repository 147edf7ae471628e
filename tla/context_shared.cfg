SPECIFICATION SpecAll
CONSTANTS
  Procs = {p1, p2}
  memory = memory
  appDirect = appDirect
  Goals = {memory, appDirect}
  Length <- Lengths
  PartSize = 5
  None = None
  MaxBoots = 1
  MaxFaults = 1
  MaxSmall = 1
  Threads = {t1, t2}
  Namespaces = {n1, n2}
  NoContext = NoContext
  Nothing = Nothing
  MaxVersion = 2
  MaxCalls = 4
  MaxRooms = 1
  Others = TRUE
SYMMETRY Alike
INVARIANTS TablesStand StatusHonest CacheCoherent ListSound
PROPERTIES DetailsCurrent
