------------------------------- MODULE Decide -------------------------------
(***************************************************************************)
(* The per-key container decisions of src/ops/analyze/decide.rs and the    *)
(* promotion rules of plan.rs: from what is known of the containers at one *)
(* key, the type the kernel is expected to build, the bytes its slot must  *)
(* hold and, for a run result, the run count assumed.                      *)
(*                                                                         *)
(* A container is a record [typ, card, runs]; runs is 0 unless typ is      *)
(* CT_RUN.  A choice is a record [typ, cap, runs].                         *)
(***************************************************************************)
EXTENDS FrozenFormat

----------------------------------------------------------------------------
\* Union promotion.
UNION_DENSE_CARD == ARRAY_MAX_SIZE
MAX_UNION_FANIN  == 1048576

\* The fitted break-even of array merges against one bitmap accumulator.
promotion_coef(n) == 85 * n * (n + 1) - 86 * n - 170

union_promotes(n, sum_card) ==
  IF n \in 2 .. MAX_UNION_FANIN
  THEN sum_card * promotion_coef(n) > 40000 * n
  ELSE n > MAX_UNION_FANIN

union_promotes_interior(n, sum_card) == n >= 4 /\ sum_card * (n - 3) > 1000

promotes(n, sum_card, fanin) ==
  IF fanin = "Flat" THEN union_promotes(n, sum_card)
                    ELSE union_promotes_interior(n, sum_card)

----------------------------------------------------------------------------
Larger(a, b) == IF a >= b THEN a ELSE b

\* The ceiling of a key that can only shrink from card values.
shrink_cap(card) == IF card <= ARRAY_MAX_SIZE THEN card * 2 ELSE BITMAP_BYTES

\* AND at one key.
intersect_choice(min_card, all_run, total_runs) ==
  LET native == min_card > ARRAY_MAX_SIZE /\ all_run /\ total_runs <= MAX_RUNS
  IN  [ typ  |-> IF min_card <= ARRAY_MAX_SIZE THEN CT_ARRAY
                 ELSE IF native THEN CT_RUN ELSE CT_BITMAP,
        cap  |-> shrink_cap(min_card),
        runs |-> IF native THEN total_runs ELSE 0 ]

\* OR at one key.  k is an aggregate over the n inputs present there:
\* [n, sum_card, total_runs, any_bitmap, all_run, max_single].
needs_bitmap(k, fanin) ==
  \/ k.any_bitmap
  \/ k.sum_card > UNION_DENSE_CARD
  \/ k.total_runs > MAX_RUNS
  \/ promotes(k.n, k.sum_card, fanin)

array_cap(k) ==
  Larger(Larger(k.sum_card * 2, run_bytes(k.total_runs)), k.max_single)

union_choice(k, fanin) ==
  IF ~ needs_bitmap(k, fanin)
  THEN [typ |-> CT_ARRAY, cap |-> array_cap(k), runs |-> 0]
  ELSE IF k.all_run /\ k.n > 0 /\ k.total_runs <= MAX_RUNS
       THEN [typ |-> CT_RUN, cap |-> BITMAP_BYTES, runs |-> k.total_runs]
       ELSE [typ |-> CT_BITMAP, cap |-> BITMAP_BYTES, runs |-> 0]

\* DIFF at one key, for the flat planner.
diff_cap(card, stored, in_rhs) == IF in_rhs THEN shrink_cap(card) ELSE stored

\* DIFF at one key, for the tree analyzer: l is the left side's [card, typ,
\* runs, cap].  The right side's shape may span a key its arena then lacks, so
\* the slot holds the verbatim copy as well.
diff_choice(l, in_rhs, splittable, run_bound) ==
  LET verbatim == [typ |-> l.typ, cap |-> l.cap, runs |-> l.runs]
      shrunk   == diff_cap(l.card, l.cap, TRUE)
      native   == /\ l.typ = CT_RUN /\ l.card > ARRAY_MAX_SIZE
                  /\ splittable /\ run_bound <= MAX_RUNS
  IN  IF ~ in_rhs \/ l.cap >= shrunk
      THEN verbatim
      ELSE [ typ  |-> IF native THEN CT_RUN
                      ELSE IF l.card <= ARRAY_MAX_SIZE THEN CT_ARRAY
                      ELSE CT_BITMAP,
             cap  |-> shrunk,
             runs |-> IF native THEN run_bound ELSE 0 ]

=============================================================================
