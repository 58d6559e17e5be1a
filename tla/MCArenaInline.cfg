CONSTANTS
  Plans <- MCInlinePlans
  Forms <- MCInlineForms
SPECIFICATION Spec
INVARIANT LeftwardOnly
\* An arena is consumed by its serialization.
CHECK_DEADLOCK FALSE
