CONSTANTS
  Threads = {t1, t2}
  MaxOverflows = 1
  Uses <- MCUses
SPECIFICATION Spec
INVARIANTS
  WorkingLiveExact
  NothingHeldBetweenCalls
  ResultLiveCovers
  WarmCallsAllocateNothing
PROPERTY
  RetentionWithinBudget
