CONSTANT N = 3
SPECIFICATION MCSpec
INVARIANTS
  TypeOK
  PoolConsistent
PROPERTIES
  NullOnlyWhenExhausted
  ReuseLastReleased
  AllocatorRefinement
