SPECIFICATION FairSpec
CONSTANTS
  m = m
  d = d
  p = p
  q = q
  Producers = {p, q}
  DataCollectors = {d}
  Others = {m}
  LastStart = q
  FirstStop = q
  Late = {}
  Failing = {p, q}
  Mortal = {}
  Driver = "scan"
  MaxRun = 3
  MaxCmds = 2
  MaxUp = 2
INVARIANTS
  TypeOK
  OneRun
  NoRefusal
PROPERTIES
  StartRunEnds
CHECK_DEADLOCK FALSE
