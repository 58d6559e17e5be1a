SPECIFICATION Spec
CONSTANTS
  Leaves <- MCLeaves
  Cards <- MCCards
  FlatArity = 3
  TreeArity = 2
  WideLeaves <- MCWideLeaves
  WideArity = 4
  WideHeight = 1
  MaxHeight = 3
INVARIANTS
  WritesFit
  RecordedExact
  ShapeCovers
  PassAssertions
