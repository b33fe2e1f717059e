CONSTANTS
  c1 = c1
  c2 = c2
  host = host
  other = other
  Clients <- TwoClients
  Mods = {3, 4, 6}
  Retcodes <- TwoAnswers
  SeqMod = 2
  Allow <- Everything
  MaxCalls = 3
SPECIFICATION FairSpec
CHECK_DEADLOCK FALSE
INVARIANTS
  AgentsAnswer
