CONSTANTS
  a1 = a1
  a2 = a2
  w1 = w1
  w2 = w2
  Agents <- TwoAgents
  Workers <- TwoWorkers
  thread_cnt = 2
  Allow <- Everything
  IndexInit = {1}
  Shaky <- OneAgent
  MaxFaults = 2
  MaxReports = 2
  MaxTotal = 2
SPECIFICATION FairSpec
CHECK_DEADLOCK FALSE
INVARIANTS
  IndexRecovers
  EachReportOnce
PROPERTIES
  OrderInThread
  ReportsArrive
