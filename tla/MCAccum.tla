------------------------------ MODULE MCAccum -------------------------------
(***************************************************************************)
(* Small instances of Accum: sets on both sides of every bound the folds   *)
(* compare with, in every form that can hold them.                         *)
(***************************************************************************)
EXTENDS Accum

Forms(s, typs) ==
  { [ typ   |-> t,
      card  |-> Cardinality(s),
      cells |-> CASE t = CT_RUN    -> extract_runs(sorted(s))
                  [] t = CT_BITMAP -> bitmap_words(sorted(s))
                  [] OTHER         -> sorted(s) ] : t \in typs }

\* Twelve lows in words of two: arrays of up to six, up to two runs.
Twelve ==
  UNION { Forms({0, 11}, {CT_ARRAY, CT_INLINE}),
          Forms({3, 4, 5}, {CT_ARRAY, CT_RUN, CT_BITMAP}),
          Forms({1, 4, 6, 8}, {CT_ARRAY, CT_BITMAP, CT_INLINE}),
          Forms({4, 7, 8, 9, 10, 11}, {CT_ARRAY, CT_RUN}),
          Forms(0 .. 7, {CT_RUN, CT_BITMAP}),
          Forms(1 .. 8 \cup {11}, {CT_RUN, CT_BITMAP}),
          Forms({0, 2, 4, 5, 6, 8, 10}, {CT_BITMAP}),
          Forms(0 .. 11, {CT_RUN}) }

\* A key group of an inline bitmap with more lows than an array may have.
WideInline == Forms({3, 4, 5}, {CT_ARRAY}) \cup Forms({0, 2, 4, 5, 6, 8, 10}, {CT_INLINE})
=============================================================================
