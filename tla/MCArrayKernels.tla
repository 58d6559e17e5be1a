--------------------------- MODULE MCArrayKernels ----------------------------
(***************************************************************************)
(* Small instances of ArrayKernels: pairs with whole blocks on both sides, *)
(* more than one on one of them, and a rest; pairs of a short array and a  *)
(* long one; pairs shorter than a block.                                   *)
(***************************************************************************)
EXTENDS ArrayKernels

Sorted(s) == SelectSeq([i \in 1 .. LAST + 1 |-> i - 1], LAMBDA v : v \in s)

Sized(sizes) ==
  {Sorted(s) : s \in {t \in SUBSET (0 .. LAST) : Cardinality(t) \in sizes}}

BothWays(ss, ts) == (ss \X ts) \cup (ts \X ss)

\* Every value, and every value but one, at the ends or in the middle.
Long == {Sorted((0 .. LAST) \ m) : m \in {{}, {0}, {W}, {LAST}}}

\* Two blocks on one side and one or two on the other, with and without a rest.
Blocks ==
  BothWays(Long, Sized({W}) \cup Long) \cup BothWays(Sized({2 * W + 1}), Sized({W + 1}))

Skewed == BothWays(Long, Sized(0 .. 2))

\* The first values and the last.
Short ==
  {Sorted(s) : s \in SUBSET {0, 1, 2, LAST}} \X {Sorted(s) : s \in SUBSET {0, 1, 2, LAST}}

MCPairs == Blocks \cup Skewed \cup Short
=============================================================================
