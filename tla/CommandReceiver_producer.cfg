SPECIFICATION FairSpec
CONSTANTS
  Kind = "Producer"
  MaxQueue = 1
  Faults = {"hook", "loop", "data"}
INVARIANTS
  TypeOK
  ProducerQuiet
PROPERTIES
  ImplementsClient
  ProducerErrorLeft
  CommandsAnswered
  ShutsDown
CHECK_DEADLOCK FALSE
