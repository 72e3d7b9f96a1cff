SPECIFICATION Spec
CONSTANTS
  t1 = t1
  t2 = t2
  Thread = {t1, t2}
  Width = 4
  Keys <- UnderKeys
  Prefill <- TwoTree
  Work <- DeleteInsert
  Budget <- Once
  Trouble = {}
INVARIANTS
  UnlinkedInvalid
