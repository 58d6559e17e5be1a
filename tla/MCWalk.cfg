CONSTANTS
  KeyCount = 3
  Operands <- MCOperands
  Masks <- MCMasks
  MaxArity = 3
SPECIFICATION Spec
INVARIANTS
  AtItsSlot
  PlanExact
PROPERTIES
  ImplementsStream
  Terminates
\* A walk stops when it is done.
CHECK_DEADLOCK FALSE
