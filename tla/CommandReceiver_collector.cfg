SPECIFICATION Spec
CONSTANTS
  Kind = "DataCollector"
  MaxQueue = 1
  Faults = {"hook", "loop", "data", "dying", "write", "log", "conn"}
INVARIANTS
  QuietWhenIdle
  RunningHasLoop
PROPERTIES
  LoopStartsFresh
CHECK_DEADLOCK FALSE
