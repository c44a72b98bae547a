SPECIFICATION FairSpec
CONSTANTS
  m = m
  d = d
  p = p
  q = q
  Producers = {q}
  DataCollectors = {d}
  Others = {}
  LastStart = q
  FirstStop = q
  Late = {}
  Failing = {d}
  Mortal = {}
  Driver = "gui"
  MaxRun = 2
  MaxCmds = 1
  MaxUp = 1
PROPERTIES
  StartRunEnds
CHECK_DEADLOCK FALSE
