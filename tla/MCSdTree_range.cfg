SPECIFICATION Spec
CONSTANTS
  t1 = t1
  t2 = t2
  Thread = {t1, t2}
  Width = 4
  Keys <- TailKeys
  Prefill <- TailTree
  Work <- DeleteFind
  Budget <- Twice
  Trouble = {}
INVARIANTS
  FirstSetInRange
