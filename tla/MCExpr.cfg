CONSTANTS
  Leaves <- MCLeaves
  MaxExprs = 6
  AndArities = {1, 2}
  OrArities = {0, 2}
SPECIFICATION Spec
INVARIANTS
  ResultCorrect
  ClaimsPlanned
  OperandsPresent
\* MaxExprs trees are built and the last one executed: then nothing is left to do.
CHECK_DEADLOCK FALSE
