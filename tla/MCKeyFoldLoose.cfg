\* Three folds under the one that fails; the first leaves a run container where
\* an array was predicted.
SPECIFICATION Spec
CONSTANTS
  Leaves <- MCLooseLeaves
  Cards <- MCCards
  FlatArity = 0
  TreeArity = 2
  WideLeaves <- MCWideLeaves
  WideArity = 4
  WideHeight = 0
  MaxHeight = 4
INVARIANTS
  WritesFit
