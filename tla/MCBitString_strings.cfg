SPECIFICATION Spec
CONSTANTS
  Starts = {0, 3, 13}
  Ends = {7, 8, 16, 45, 128}
  Marks = {0, 4, 7, 8, 9, 14, 17, 27, 40, 70, 127, 136}
  Places = {0, 3, 6}
  Offsets = {0, 1, 2, 4}
  Inputs <- MCInputs
INVARIANTS
  TypeOK
  FindRight
  KeyFound
  DiffRight
  SmallRight
  Covered
PROPERTIES
  Returns
