SPECIFICATION FairSpec
CONSTANTS
  t1 = t1
  t2 = t2
  Thread = {t1, t2}
  Width = 3
  Keys <- SomeKeys
  Prefill <- Empty
  Work <- Additions
  Budget <- Twice
  Trouble = {}
INVARIANTS
  OneRecord
PROPERTIES
  KeysCounted
  CallsAnswered
