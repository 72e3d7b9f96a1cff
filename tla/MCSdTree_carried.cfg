SPECIFICATION Spec
CONSTANTS
  t1 = t1
  t2 = t2
  Thread = {t1, t2}
  Width = 7
  Keys <- DeepKeys
  Prefill <- DeepTree
  Work <- DeleteOutside
  Budget <- OneThree
  Trouble = {}
INVARIANTS
  SameRecord
