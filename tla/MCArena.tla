------------------------------ MODULE MCArena -------------------------------
(***************************************************************************)
(* Bounded instances of Arena: every plan of up to three slots over the    *)
(* capacities at which layout and alignment change, and the container      *)
(* forms that matter to them.                                              *)
(***************************************************************************)
EXTENDS Arena

array(card)  == [typ |-> CT_ARRAY, card |-> card, size |-> 2 * card]
run(nr)      == [typ |-> CT_RUN, card |-> 3 * nr, size |-> run_bytes(nr)]
bitmap(card) == [typ |-> CT_BITMAP, card |-> card, size |-> BITMAP_BYTES]

\* An emptied slot, a lone value, two runs, the sparsest bitmap a fold leaves, a
\* bitmap whose transcoded array is as large, and one a compact result keeps.
MCForms ==
  { array(0), array(1), run(2), bitmap(ARRAY_MAX_SIZE \div 2 + 1),
    bitmap(ARRAY_MAX_SIZE), bitmap(ARRAY_MAX_SIZE + 1) }

PlansOver(caps, n) ==
  { [slots |-> [i \in 1 .. n |-> [key |-> 2 * i, capacity |-> c[i]]], double |-> d] :
      c \in [1 .. n -> caps], d \in BOOLEAN }

\* 0: a key the observed re-plan found nobody reaches; 2, 10: tight array and
\* run slots; 8190: the largest slot that is not a bitmap's.
MCPlans ==
  PlansOver({0}, 0) \cup PlansOver({0, 2, 10, 8190, BITMAP_BYTES}, 1)
    \cup PlansOver({2, 10, BITMAP_BYTES}, 2)
    \cup PlansOver({2, BITMAP_BYTES}, 3)

\* A difference whose left side is inline and has one value at its first key and
\* ARRAY_MAX_SIZE + 1 at its second.  plan_diff sizes a key group that no
\* subtrahend touches as an array of its cardinality, and below 64 KiB of slots
\* it plans a partner-major fold, whose diff_seed loads the long group as a
\* bitmap.  (A key-major fold would load it as an array.)
MCInlineForms == { array(1), bitmap(ARRAY_MAX_SIZE + 1) }
MCInlinePlans ==
  LET capacity(card) == stored_bytes(CT_INLINE, card, 0)
  IN  { [slots |-> << [key |-> 2, capacity |-> capacity(1)],
                      [key |-> 4, capacity |-> capacity(ARRAY_MAX_SIZE + 1)] >>,
         double |-> TRUE] }
=============================================================================
