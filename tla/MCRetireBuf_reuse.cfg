SPECIFICATION FairSpec
CONSTANTS
  t1 = t1
  t2 = t2
  SpareBit = SpareBit
  Thread = {t1, t2}
  Bit <- MCBit
  TickMod = 8
  WaitTicks = 2
  BufMod = 8
  MaxTick = 5
  NVec = 6
  NData = 3
  RsvCnt = 2
  VecMark = 1
  DataMark = 1
  MaxNew = 1
  Budget <- OneAndThree
INVARIANTS
  TypeOK
  OnePlace
  NoEarlyReuse
  ReserveWhole
PROPERTIES
  CallsMade
