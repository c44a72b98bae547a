SPECIFICATION FairSpec
CONSTANTS
  Base = 4
  MinLong = 3
  Conns <- MCConns
  Envs <- MCEnvs
INVARIANTS
  PacketsIntact
  ServerConsistent
  HandshakeAgrees
  CommandsReach
PROPERTIES
  Answered
CHECK_DEADLOCK FALSE
