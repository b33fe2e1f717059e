CONSTANTS
  a1 = a1
  a2 = a2
  a3 = a3
  NULL = NULL
  Keys <- ThreeKeys
  Addrs <- ThreeAddrs
  ProbeNum = 1
  InitSucc = 0
  InitErr = 0
  ErrNum = 2
  ErrDen = 3
  SuccNum = 2
  SuccDen = 3
  ContinErrLimit = 2
  ContinSuccLimit = 2
  CntMod = 16
  AccessInit <- AnyAccessCnt
  MaxReports = 3
SPECIFICATION Spec
SYMMETRY AddrSymmetry
CHECK_DEADLOCK FALSE
INVARIANTS
  ListsPartition
  SafeUntilRemoval
  IInv
  RatesRespected
  ProbeBound
  ReportsAreComplete
PROPERTIES
  UpdateKeepsSurvivors
