CONSTANTS
  Buffers = {a1, a2}
  Blocks = {p1, p2, p3}
  Null = null
  Sizes = {0, 1, 2}
SPECIFICATION Spec
\* Once every object has been destroyed nothing more can happen.
CHECK_DEADLOCK FALSE
INVARIANT NullMeansEmpty
