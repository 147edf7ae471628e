SPECIFICATION Spec
CONSTANTS
  Clients = {c1, c2}
  Pollers = {p1, p2, p3}
  Slots = {1, 2}
  Types = {t1}
  Asked = {t1, AllTypes}
  AllTypes = AllTypes
  NoOne = NoOne
  MaxEventId = 1
  LocalWriters = FALSE
  MaxFaults = 0
  MaxMisreads = 0
SYMMETRY ThreadSymmetry
INVARIANTS Listening
CHECK_DEADLOCK FALSE
