CONSTANTS
  f1 = f1
  m1 = m1
  m2 = m2
  Fds <- OneFd
  Mods <- TwoMods
  N = 2
  Allow <- Nothing
  MaxChanges = 2
  MaxConns = 2
  MaxRequests = 3
SPECIFICATION FairSpec
INVARIANTS
  Fresh
  SubscribersAreOpen
PROPERTIES
  PushedToSubscriber
  EventuallyFresh
