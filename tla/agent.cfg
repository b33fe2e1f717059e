CONSTANTS
  m1 = m1
  m2 = m2
  h1 = h1
  h2 = h2
  Mods <- TwoMods
  Hosts <- TwoHosts
  Allow <- Everything
  MaxFaults = 2
  MaxChanges = 1
SPECIFICATION FairSpec
CHECK_DEADLOCK FALSE
INVARIANTS
  TypeOK
  StrandedOnlyIfDead
  
  AgentFresh
PROPERTIES
  DeafOnlyIfEarly
  
