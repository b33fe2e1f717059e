CONSTANTS
  c1 = c1
  c2 = c2
  c3 = c3
  w1 = w1
  w2 = w2
  NULL = NULL
  JUNK = JUNK
  SERVICE = SERVICE
  Clients <- ThreeClients
  Workers <- TwoWorkers
  MaxConns = 1
  MaxFd = 3
  NExtra = 1
  MaxConnects = 5
SPECIFICATION FairSpec
CHECK_DEADLOCK FALSE
INVARIANTS
  TableMirrors
  OverLimitOnlyIfPending
  OutOfBoundsOnlyIf
PROPERTIES
  EveryClientServed
