SPECIFICATION FairSpec
CONSTANTS
  d = d
  w = w
  Thread = {d, w}
  SpareBit = SpareBit
  Bit <- MCBit
  TickMod = 4
  WaitTicks = 2
  Divider = d
  Keys <- FiveKeys
  Virt = {1}
  Filled <- TwoOfThree
  Cluster <- Clusters
  Threshold = 3
  PerTime = 1
  MoveTimes = 2
  Calls <- SomeCalls
  Budget = 1
  MaxDrop = 1
  MaxPause = 1
INVARIANTS
  TypeOK
  RefsConserved
  RoutedRight
PROPERTIES
  NotFoundRight
  CallsAnswered
