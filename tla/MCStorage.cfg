\* Two keys of ten lows and five bitmap words of two: up to two runs, arrays
\* of up to five lows, and bitmaps.  Sets of nearly any of fourteen values, and
\* every initial stretch, up to the full set.
CONSTANTS
  LOWS = 10
  KEYS = 2
  WORD_BITS = 2
  EXTRA = 0
  Pushable <- TwoBitmaps
  Candidates <- NoCandidates
SPECIFICATION Spec
INVARIANTS
  HoldsPushed
  PayloadsSmallest
  BuiltReadsBack
PROPERTY
  ImplementsValueSet
CHECK_DEADLOCK FALSE
