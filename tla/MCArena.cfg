CONSTANTS
  Plans <- MCPlans
  Forms <- MCForms
SPECIFICATION Spec
INVARIANTS
  TypeOK
  RegionsDisjoint
  LeftwardOnly
  UnreadIntact
  ResultParses
PROPERTY ImplementsStore
\* An arena is consumed by its serialization.
CHECK_DEADLOCK FALSE
