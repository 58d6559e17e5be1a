------------------------------- MODULE MCWalk --------------------------------
(***************************************************************************)
(* Small instances of Walk: inputs that are empty, narrow, wide or with a  *)
(* hole, in every encoding; folds that produced what was predicted, less,  *)
(* or nothing.                                                             *)
(***************************************************************************)
EXTENDS Walk

leaf(kind, keys) == [kind |-> kind, at |-> keys, predicted |-> SetToSortSeq(Range(keys), <)]
fold(keys, predicted) == [kind |-> "arena", at |-> keys, predicted |-> predicted]

MCOperands ==
  { leaf("standard", << >>), leaf("standard", << 1 >>), leaf("standard", << 0, 2 >>),
    leaf("standard", << 0, 1, 2 >>),
    leaf("inline", << 0, 1, 1 >>), leaf("inline", << 1, 1, 2, 2, 2 >>),
    fold(<< 0, 2 >>, << 0, 1, 2 >>), fold(<< 1 >>, << 1, 2 >>), fold(<< >>, << 0, 1 >>),
    [kind |-> "empty", at |-> << >>, predicted |-> << 0, 2 >>] }

MCMasks == {Keys, {0, 2}, {1}, {}}
=============================================================================
