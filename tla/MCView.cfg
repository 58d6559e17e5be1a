\* Five lows: one container over five cells of anything, which is every payload
\* of every type, with room for two runs; two containers, in any order, apart or
\* on the same cells.
CONSTANTS
  LOWS = 5
  KEYS = 2
  WORD_BITS = 1
  EXTRA = 1
  Candidates <- MCCandidates
SPECIFICATION ViewSpec
INVARIANTS
  QueriesExact
  RemainingExact
PROPERTIES
  ImplementsReading
  IterationEnds
CHECK_DEADLOCK FALSE
