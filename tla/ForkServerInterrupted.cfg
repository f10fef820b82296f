\* One client's child ends while accept waits for the next client.
SPECIFICATION FairSpec
CONSTANTS
  Clients = {c1, c2, c3}
  c1 = c1
  c2 = c2
  c3 = c3
  Master = Master
  Handlers = {"reap"}
  BACKLOG = 2
  ProcLimit = 3
  MaxStarts = 1
  CanBeKilled = FALSE
PROPERTIES EachClientServed
\* The server may wait for ever for a client.
CHECK_DEADLOCK FALSE
