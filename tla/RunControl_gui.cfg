SPECIFICATION Spec
CONSTANTS
  m = m
  d = d
  p = p
  q = q
  Producers = {p, q}
  DataCollectors = {d}
  Others = {}
  LastStart = q
  FirstStop = q
  Late = {p}
  Failing = {}
  Mortal = {q}
  Driver = "gui"
  MaxRun = 2
  MaxCmds = 1
  MaxUp = 1
PROPERTIES
  NoJoinDuringRun
  DocumentedOrder
CHECK_DEADLOCK FALSE
