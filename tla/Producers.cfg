SPECIFICATION FairSpec
CONSTANTS
  Kinds <- MCKinds
  Envs <- MCEnvs
INVARIANTS
  HardwareThere
  EndsClean
  RunningCollects
PROPERTIES
  EventsInRun
  HooksReturn
CHECK_DEADLOCK FALSE
