SPECIFICATION FairSpec
CONSTANTS
  c1 = c1
  c2 = c2
  Clients = {c1, c2}
  Permits <- MCPermits
  HANDSHAKE = 2
  IDLE = 3
  IO = 1
  MaxQueries = 2
INVARIANT SlowClientsBounded
PROPERTY PermitsReturn
CHECK_DEADLOCK FALSE
