SPECIFICATION FairSpec
CONSTANTS
  Clients = {c1}
  Pollers = {p1, p2}
  Slots = {1, 2}
  Types = {t1, t2}
  Asked = {t1}
  AllTypes = AllTypes
  NoOne = NoOne
  MaxEventId = 2
  LocalWriters = FALSE
  MaxFaults = 1
  MaxMisreads = 1
INVARIANTS TypeOK AtMostOnce NoneSkipped Listening
PROPERTIES Served
