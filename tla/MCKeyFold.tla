----------------------------- MODULE MCKeyFold ------------------------------
(* Small instances of KeyFold: containers on either side of every boundary  *)
(* the planner and the kernels compare with.                                *)
EXTENDS KeyFold

Array(card)     == [typ |-> CT_ARRAY, card |-> card, runs |-> 0]
Bitmap(card)    == [typ |-> CT_BITMAP, card |-> card, runs |-> 0]
Inline(card)    == [typ |-> CT_INLINE, card |-> card, runs |-> 0]
Run(card, runs) == [typ |-> CT_RUN, card |-> card, runs |-> runs]

MCLeaves ==
  { Array(3), Array(4096), Inline(2049), Bitmap(3000), Bitmap(5000),
    Run(4096, 1), Run(3001, 1500), Run(60000, 1), Run(5000, 2047) }

MCWideLeaves == {Array(600)}

\* Runs that pass MAX_RUNS together: 999 as a builder stores them, 1051 as the
\* union of two such containers may.
MCLooseLeaves == {Array(3), Run(2000, 999), Run(1578, 1051)}

MCCards == {2048, 2049, 4096, 4097}
=============================================================================
