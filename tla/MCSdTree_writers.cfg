SPECIFICATION Spec
CONSTANTS
  t1 = t1
  t2 = t2
  Thread = {t1, t2}
  Width = 3
  Keys <- FewKeys
  Prefill <- Twofold
  Work <- DeleteFive
  Budget <- Twice
  Trouble <- Waiting
INVARIANTS
  TypeOK
  RecordsLinked
PROPERTIES
  KeysCounted
