----------------------------- MODULE WireProofs ------------------------------
(***************************************************************************)
(* What the choice of a payload's type guarantees, for every width, number *)
(* of lows and number of runs.                                             *)
(***************************************************************************)
EXTENDS Wire, TLAPS

\* Byte costs of the three payloads.
cost(typ, array_cost, run_cost) ==
  CASE typ = CT_ARRAY  -> array_cost
    [] typ = CT_BITMAP -> bitmap_bytes
    [] typ = CT_RUN    -> run_cost

LEMMA BitmapBytes == bitmap_bytes \in Nat /\ LOWS \in Nat
<1>1. LOWS \in Nat /\ WORD_BITS \in Nat /\ WORD_BITS > 0
  BY WireAssumption
<1>2. LOWS \div WORD_BITS \in Nat
  BY <1>1
<1>3. QED  BY <1>1, <1>2 DEF bitmap_bytes, bitmap_cells

\* build_container's order of tests gives the smallest payload there is, for
\* any number of lows and runs, and none is larger than a bitmap.
THEOREM SmallestIsSmallest ==
  ASSUME NEW lows \in Nat, NEW nr \in Nat
  PROVE  LET t == smallest(2 * lows, run_bytes(nr))
             c == cost(t, 2 * lows, run_bytes(nr))
         IN  /\ t \in {CT_ARRAY, CT_BITMAP, CT_RUN}
             /\ c <= 2 * lows /\ c <= run_bytes(nr) /\ c <= bitmap_bytes
<1>1. run_bytes(nr) \in Nat /\ 2 * lows \in Nat /\ bitmap_bytes \in Nat
  BY BitmapBytes DEF run_bytes
<1>2. CT_ARRAY # CT_BITMAP /\ CT_ARRAY # CT_RUN /\ CT_BITMAP # CT_RUN
  BY DEF CT_ARRAY, CT_BITMAP, CT_RUN
<1>3. CASE run_bytes(nr) <= 2 * lows /\ run_bytes(nr) <= bitmap_bytes
  <2>1. smallest(2 * lows, run_bytes(nr)) = CT_RUN
    BY <1>3 DEF smallest
  <2>2. cost(CT_RUN, 2 * lows, run_bytes(nr)) = run_bytes(nr)
    BY <1>2 DEF cost
  <2>3. QED  BY <1>1, <1>3, <2>1, <2>2
<1>4. CASE ~ (run_bytes(nr) <= 2 * lows /\ run_bytes(nr) <= bitmap_bytes)
           /\ 2 * lows <= bitmap_bytes
  <2>1. smallest(2 * lows, run_bytes(nr)) = CT_ARRAY
    BY <1>4 DEF smallest
  <2>2. cost(CT_ARRAY, 2 * lows, run_bytes(nr)) = 2 * lows
    BY <1>2 DEF cost
  <2>3. QED  BY <1>1, <1>4, <2>1, <2>2
<1>5. CASE ~ (run_bytes(nr) <= 2 * lows /\ run_bytes(nr) <= bitmap_bytes)
           /\ ~ (2 * lows <= bitmap_bytes)
  <2>1. smallest(2 * lows, run_bytes(nr)) = CT_BITMAP
    BY <1>5 DEF smallest
  <2>2. cost(CT_BITMAP, 2 * lows, run_bytes(nr)) = bitmap_bytes
    BY <1>2 DEF cost
  <2>3. QED  BY <1>1, <1>5, <2>1, <2>2
<1>6. QED  BY <1>3, <1>4, <1>5

\* Writer and examiner agree on how many runs a container has: one the builder
\* stores as runs has at most max_runs, the bound payload_is_valid refuses past,
\* so a set whose runs are many is never written in a form that is refused.
THEOREM StoredRunsAccepted ==
  ASSUME NEW lows \in Nat, NEW nr \in Nat,
         smallest(2 * lows, run_bytes(nr)) = CT_RUN
  PROVE  nr <= max_runs
<1>1. run_bytes(nr) <= bitmap_bytes
  BY DEF smallest, CT_RUN, CT_ARRAY, CT_BITMAP
<1>2. bitmap_bytes \in Nat /\ 2 + nr * 4 <= bitmap_bytes
  BY <1>1, BitmapBytes DEF run_bytes
<1>3. nr <= (bitmap_bytes - 2) \div 4
  BY <1>2
<1>4. QED  BY <1>3 DEF max_runs

=============================================================================
