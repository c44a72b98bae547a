SPECIFICATION CollectorsSpec
CONSTANTS
  Kinds <- MCKinds
  Conns <- MCConns
  Runs <- MCRuns
  Envs <- MCEnvs
  MaxTrigger = 3
  MaxRecord = 4
  MaxTime = 3
  MaxSlices = 5
  Bif = "a"
  Cal = "b"
  Tel = "c"
  FirstROC <- MCFirstROC
  Delays <- MCDelays
  Shift <- MCShift
  Misfits <- MCMisfits
  MaxQue = 2
  TriggerNs <- MCNumbers
INVARIANTS
  TriggersMerged
  PositionsMerged
  TimesMerged
  PairsMerged
  FilesMerged
CHECK_DEADLOCK FALSE
