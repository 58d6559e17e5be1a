\* Three inputs, each absent or any of sixteen containers.
CONSTANTS
  LOWS = 12
  KEYS = 1
  WORD_BITS = 2
  MaxInputs = 3
  Stale = {0, 3}
  Cpus = {"neon", "other"}
  Containers <- Twelve
SPECIFICATION Spec
INVARIANTS
  WritesWithin
  HeldExact
  CountExact
  ResultExact
CHECK_DEADLOCK FALSE
