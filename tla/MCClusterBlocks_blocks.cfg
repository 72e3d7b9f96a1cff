SPECIFICATION FairSpec
CONSTANTS
  t1 = t1
  t2 = t2
  Thread = {t1, t2}
  NDirect = 0
  Ptrs = 2
  PgMax = 5
  BlkPerPg = 1
  VecPerBlk = 2
  Stray = {0}
  MaxFail = 3
  Budget <- OneAndTwo
INVARIANTS
  TypeOK
  PageOnce
  PagesInPlace
  WaitsForSomeone
  ListsWhole
PROPERTIES
  AdderReturns
