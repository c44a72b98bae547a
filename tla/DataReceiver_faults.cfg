SPECIFICATION Spec
CONSTANTS
  a = a  b = b
  Conns = {a, b}
  Faults = {"close", "early"}
  MaxEvents = 2
  MaxQueue = 6
  MaxBatch = 1
  MaxSessions = 1
SYMMETRY Senders
INVARIANTS
  NothingLost
  OpenOnesDisconnected
CHECK_DEADLOCK FALSE
