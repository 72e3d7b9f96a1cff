SPECIFICATION Spec
CONSTANTS
  t1 = t1
  t2 = t2
  t3 = t3
  Thread = {t1, t2, t3}
  SpareBit = SpareBit
  Bit <- MCBit
  TickMod = 4
  WaitTicks = 2
PROPERTIES
  GracePeriod
