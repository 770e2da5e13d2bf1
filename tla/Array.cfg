CONSTANTS
  Values = {v1, v2}
  Garbage = garbage
  MaxN = 4
SPECIFICATION Spec
INVARIANTS
  TypeOK
  ArraySafe
PROPERTIES
  SequenceRefinement
