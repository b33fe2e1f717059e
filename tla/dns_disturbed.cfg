CONSTANTS
  f1 = f1
  m1 = m1
  m2 = m2
  Fds <- OneFd
  Mods <- OneMod
  N = 2
  Allow <- Everything
  MaxChanges = 2
  MaxConns = 2
  MaxRequests = 2
SPECIFICATION Spec
INVARIANTS
  StaleOnlyIfLost
PROPERTIES
  NeverOlder
