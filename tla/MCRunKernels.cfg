CONSTANTS
  LAST = 4
  Folds <- MCFolds
SPECIFICATION Spec
INVARIANTS
  WritesFit
  OutputIsRuns
  FoldExact
\* A fold stops when it is done.
CHECK_DEADLOCK FALSE
