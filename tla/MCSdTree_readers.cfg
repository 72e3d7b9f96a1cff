SPECIFICATION Spec
CONSTANTS
  t1 = t1
  t2 = t2
  Thread = {t1, t2}
  Width = 4
  Keys <- OddKeys
  Prefill <- OddTree
  Work <- WriteFind
  Budget <- Twice
  Trouble = {}
INVARIANTS
  NeverStuck
  RecordsLinked
  FreedOnce
PROPERTIES
  KeysCounted
  AloneAnswers
