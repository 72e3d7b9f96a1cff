SPECIFICATION FairSpec
CONSTANTS
  t1 = t1
  t2 = t2
  Thread = {t1, t2}
  SpareBit = SpareBit
  Bit <- MCBit
  TickMod = 4
  WaitTicks = 2
INVARIANTS
  TypeOK
  ResetFindsZero
  OneCloser
PROPERTIES
  TickClosesRound
  GracePeriod
  RoundsAdvance
