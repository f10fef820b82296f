\* The five servers, fork that may fail, kills and a restart.
SPECIFICATION FairSpec
CONSTANTS
  Clients = {c1, c2, c3}
  c1 = c1
  c2 = c2
  c3 = c3
  Master = Master
  Handlers = {"none", "reap", "exit", "int", "shut"}
  BACKLOG = 2
  ProcLimit = 2
  MaxStarts = 2
  CanBeKilled = TRUE
INVARIANTS ConnectionOwned PortReleased
PROPERTIES NobodyWaits
\* The server may wait for ever for a client.
CHECK_DEADLOCK FALSE
