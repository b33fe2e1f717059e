CONSTANTS
  a1 = a1
  a2 = a2
  a3 = a3
  NULL = NULL
  Keys <- TwoKeys
  Addrs <- ThreeAddrs
  ProbeNum = 1
  InitSucc = 1
  InitErr = 1
  ErrNum = 1
  ErrDen = 2
  SuccNum = 1
  SuccDen = 2
  ContinErrLimit = 2
  ContinSuccLimit = 2
  CntMod = 16
  AccessInit <- ZeroAccessCnt
  MaxReports = 2
SPECIFICATION Spec
SYMMETRY AddrSymmetry
CHECK_DEADLOCK FALSE
INVARIANTS
  RouteIsListed
