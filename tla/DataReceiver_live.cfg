SPECIFICATION FairSpec
CONSTANTS
  a = a  b = b
  Conns = {a}
  Faults = {"close", "user"}
  MaxEvents = 3
  MaxQueue = 2
  MaxBatch = 2
  MaxSessions = 2
INVARIANTS
  TypeOK
  OldestDropped
PROPERTIES
  SessionsSeparate
  ThreadsEnd
CHECK_DEADLOCK FALSE
