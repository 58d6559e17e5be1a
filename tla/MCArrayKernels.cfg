\* A window of two vectors fits the longest array with one value to spare.
CONSTANTS
  LAST = 8
  W = 4
  MERGE_MAX_RATIO = 2
  GALLOP_MARGIN = 1
  Pairs <- MCPairs
  Cpus = {"other", "sse2", "neon", "avx2"}
SPECIFICATION Spec
INVARIANTS
  InBounds
  Exact
PROPERTIES
  Terminates
\* A kernel stops when it is done.
CHECK_DEADLOCK FALSE
