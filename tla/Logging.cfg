SPECIFICATION Spec
CONSTANTS
  Clients <- MCClients
  Own = "log"
  MaxSocket = 2
  Envs <- MCEnvs
INVARIANTS
  LogComplete
  ServerSurvives
PROPERTIES
  CallsEnd
CHECK_DEADLOCK FALSE
