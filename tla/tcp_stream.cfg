CONSTANTS
  Caps = {4, 8}
  Num = 0
  MemLimit = 5
  HeadLen = 2
  LenLimit = 2
  InLens = {0, 1, 3}
  OutLens = {4}
  MaxIn = 2
  MaxOut = 2
  MaxCloses = 1
  MaxHeld = 1
SPECIFICATION FairSpec
CHECK_DEADLOCK FALSE
INVARIANTS
  DispatchedAsSent
  StreamAsAccepted
  PoolSound
  AssertsOnlyIf
PROPERTIES
  StreamMoves
