SPECIFICATION FairSpec
CONSTANTS
  m = m
  d = d
  p = p
  q = q
  Producers = {q}
  DataCollectors = {d}
  Others = {}
  LastStart = q
  FirstStop = "none"
  Late = {}
  Failing = {q}
  Mortal = {}
  Driver = "api"
  MaxRun = 2
  MaxCmds = 1
  MaxUp = 1
PROPERTIES
  StopRunEnds
CHECK_DEADLOCK FALSE
