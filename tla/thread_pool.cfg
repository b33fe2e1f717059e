CONSTANTS
  N = 2
  c1 = c1
  c2 = c2
  c3 = c3
  t1 = t1
  t2 = t2
  Conns <- MCConns
  Tasks <- MCTasks
SPECIFICATION MCSpec
INVARIANTS
  NoLostWakeup
  IInv
PROPERTIES
  ImplementsDelivery
  EveryMessageProcessed
