---------------------------- MODULE KeyFoldProofs ----------------------------
(***************************************************************************)
(* The capacity contract at one key, for every set of leaves a builder may *)
(* have stored, every number of operands and every height of a tree: what  *)
(* a fold writes fits, and what it records is what its parent was told.    *)
(*                                                                         *)
(* FoldInv says what the planner promised of the containers still to come  *)
(* and, once the fold has started, what its accumulator owes to that: a    *)
(* slot smaller than a bitmap holds the array of everything left, and only *)
(* an array, or a copy of the left side's runs, is ever in it.             *)
(***************************************************************************)
EXTENDS KeyFold, TLAPS, FiniteSetTheorems, SequenceTheorems, WellFoundedInduction

----------------------------------------------------------------------------
\* The decisions: the capacity that is reserved for a slot holds every form the
\* kernels may put there, for every cardinality and run count.
UnionKey == [n : Nat, sum_card : Nat, total_runs : Nat, any_bitmap : BOOLEAN,
             all_run : BOOLEAN, max_single : Nat]

DiffLhs == [card : Nat, typ : {CT_ARRAY, CT_BITMAP, CT_RUN}, runs : Nat, cap : Nat]

\* A key that can only shrink: its slot holds any array the format allows of
\* that many values, and is never larger than a bitmap (shrink_cap).
LEMMA ShrinkCapHolds ==
  ASSUME NEW card \in Nat
  PROVE  /\ shrink_cap(card) \in 0 .. BITMAP_BYTES
         /\ card <= ARRAY_MAX_SIZE => shrink_cap(card) = 2 * card
         /\ card > ARRAY_MAX_SIZE => shrink_cap(card) = BITMAP_BYTES
         /\ \A m \in Nat : m <= card /\ m <= ARRAY_MAX_SIZE => 2 * m <= shrink_cap(card)
BY DEF shrink_cap, ARRAY_MAX_SIZE, BITMAP_BYTES, BITMAP_WORDS

\* A run container the format allows fits a bitmap-sized slot (run_bytes,
\* MAX_RUNS).
LEMMA RunsFitBitmap ==
  ASSUME NEW r \in Nat, r <= MAX_RUNS
  PROVE  run_bytes(r) <= BITMAP_BYTES
BY DEF run_bytes, MAX_RUNS, BITMAP_BYTES, BITMAP_WORDS

\* A union's slot, whichever promotion rule applied: a slot smaller than a
\* bitmap holds the array of every input's values together, and no more than an
\* array may have, which is what union_seed and union_key rely on when they pick
\* the array accumulator from the capacity alone; any other slot is a bitmap's or
\* larger.  Provided the largest input is stored in no more than a bitmap's
\* bytes, the slot holds it, and is itself no larger than a bitmap's.
THEOREM UnionSlotHolds ==
  ASSUME NEW k \in UnionKey, NEW fanin
  PROVE  LET c == union_choice(k, fanin)
         IN  /\ c.cap < BITMAP_BYTES =>
                  /\ k.sum_card <= ARRAY_MAX_SIZE
                  /\ 2 * k.sum_card <= c.cap
                  /\ ~ k.any_bitmap
             /\ k.max_single <= BITMAP_BYTES =>
                  k.max_single <= c.cap /\ c.cap <= BITMAP_BYTES
             /\ run_bytes(c.runs) <= c.cap
<1>1. CASE needs_bitmap(k, fanin)
  <2>1. union_choice(k, fanin).cap = BITMAP_BYTES
    BY <1>1 DEF union_choice
  <2>2. union_choice(k, fanin).runs \in {0, k.total_runs}
        /\ (union_choice(k, fanin).runs # 0 => k.total_runs <= MAX_RUNS)
    BY <1>1 DEF union_choice
  <2>3. run_bytes(union_choice(k, fanin).runs) <= BITMAP_BYTES
    <3>1. union_choice(k, fanin).runs \in Nat /\ union_choice(k, fanin).runs <= MAX_RUNS
      BY <2>2 DEF UnionKey, MAX_RUNS, BITMAP_BYTES, BITMAP_WORDS
    <3>2. QED  BY <3>1, RunsFitBitmap
  <2>4. QED  BY <2>1, <2>3 DEF BITMAP_BYTES, BITMAP_WORDS
<1>2. CASE ~ needs_bitmap(k, fanin)
  <2>1. /\ union_choice(k, fanin).cap = array_cap(k)
        /\ union_choice(k, fanin).runs = 0
    BY <1>2 DEF union_choice
  <2>2. /\ ~ k.any_bitmap
        /\ ~ (k.sum_card > ARRAY_MAX_SIZE)
        /\ ~ (k.total_runs > MAX_RUNS)
    BY <1>2 DEF needs_bitmap, UNION_DENSE_CARD
  <2>3. /\ k.sum_card \in Nat /\ k.total_runs \in Nat /\ k.max_single \in Nat
        /\ ARRAY_MAX_SIZE \in Nat
    BY DEF UnionKey, ARRAY_MAX_SIZE
  <2>4. /\ 2 * k.sum_card <= array_cap(k)
        /\ k.max_single <= array_cap(k)
        /\ run_bytes(0) <= array_cap(k)
    BY <2>3 DEF array_cap, Larger, run_bytes
  <2>5. k.max_single <= BITMAP_BYTES => array_cap(k) <= BITMAP_BYTES
    <3>1. run_bytes(k.total_runs) <= BITMAP_BYTES
      BY <2>2, <2>3, RunsFitBitmap DEF MAX_RUNS, BITMAP_BYTES, BITMAP_WORDS
    <3>2. 2 * k.sum_card <= BITMAP_BYTES
      BY <2>2, <2>3 DEF ARRAY_MAX_SIZE, BITMAP_BYTES, BITMAP_WORDS
    <3>3. QED  BY <2>3, <3>1, <3>2 DEF array_cap, Larger, run_bytes
  <2>6. QED  BY <2>1, <2>2, <2>3, <2>4, <2>5
<1>3. QED  BY <1>1, <1>2

\* A difference's slot in a tree: it holds the left side as its own node was
\* allowed to store it (the copy diff_key makes when the right side turns out to
\* have nothing at the key) and, when the right side may reach the key, also
\* everything the shrinking fold passes through.
THEOREM DiffSlotHolds ==
  ASSUME NEW l \in DiffLhs, NEW in_rhs \in BOOLEAN, NEW splittable \in BOOLEAN,
         NEW run_bound \in Nat
  PROVE  LET c == diff_choice(l, in_rhs, splittable, run_bound)
         IN  /\ l.cap <= c.cap
             /\ in_rhs => shrink_cap(l.card) <= c.cap
             /\ l.cap <= BITMAP_BYTES => c.cap <= BITMAP_BYTES
<1> DEFINE s == shrink_cap(l.card)
           c == diff_choice(l, in_rhs, splittable, run_bound).cap
<1>1. l.card \in Nat /\ l.cap \in Nat /\ BITMAP_BYTES \in Nat
  BY DEF DiffLhs, BITMAP_BYTES, BITMAP_WORDS
<1>2. s \in 0 .. BITMAP_BYTES
  BY <1>1, ShrinkCapHolds
<1>3. diff_cap(l.card, l.cap, TRUE) = s
  BY DEF diff_cap
<1>4. c = IF ~ in_rhs \/ l.cap >= s THEN l.cap ELSE s
  BY <1>3 DEF diff_choice
<1>5. HIDE DEF s, c
<1>6. /\ l.cap <= c
      /\ in_rhs => s <= c
      /\ l.cap <= BITMAP_BYTES => c <= BITMAP_BYTES
  BY <1>1, <1>2, <1>4
<1>7. QED  BY <1>6 DEF s, c

\* The two bounds as numbers (plan.rs).
LEMMA PromotionBounds ==
  /\ MAX_UNION_FANIN \in Nat /\ MAX_UNION_FANIN <= 1048576
  /\ UNION_DENSE_CARD \in Nat /\ UNION_DENSE_CARD <= 4096
BY SMT DEF MAX_UNION_FANIN, UNION_DENSE_CARD, ARRAY_MAX_SIZE

\* What the fan-in bounds of union_promotes are for: between them the u64
\* arithmetic neither goes below zero at any of its three steps nor leaves 64
\* bits, whatever cardinality union_key still lets through to it.
THEOREM PromotionInRange ==
  ASSUME NEW t \in 2 .. MAX_UNION_FANIN, NEW sum_card \in 0 .. UNION_DENSE_CARD
  PROVE  /\ 85 * t * (t + 1) - 86 * t >= 0
         /\ promotion_coef(t) >= 0
         /\ sum_card * promotion_coef(t) < 18446744073709551616
         /\ 40000 * t < 18446744073709551616
<1> DEFINE big == MAX_UNION_FANIN
<1>1. /\ t \in Nat /\ 2 <= t /\ t <= big /\ big \in Nat
      /\ sum_card \in Nat /\ sum_card <= UNION_DENSE_CARD /\ UNION_DENSE_CARD \in Nat
  BY PromotionBounds, SMT
<1>2. t * (t + 1) \in Nat /\ 3 * t <= t * (t + 1) /\ t * (t + 1) <= big * (big + 1)
  <2>1. t * (t + 1) \in Nat /\ 3 * t <= t * (t + 1)
    BY <1>1, SMT
  <2>2. t * (t + 1) <= big * (t + 1) /\ big * (t + 1) <= big * (big + 1)
    BY <1>1, SMT
  <2>3. QED  BY <1>1, <2>1, <2>2, SMT
<1>3. promotion_coef(t) = 85 * (t * (t + 1)) - 86 * t - 170
  BY <1>1, SMT DEF promotion_coef
<1>4. promotion_coef(t) \in Nat /\ promotion_coef(t) <= 85 * (big * (big + 1))
  BY <1>1, <1>2, <1>3, SMT
<1>5. sum_card * promotion_coef(t) <= UNION_DENSE_CARD * promotion_coef(t)
  BY <1>1, <1>4, SMT
<1>6. sum_card * promotion_coef(t) < 18446744073709551616
  <2>1. big * (big + 1) <= 1048576 * (1048576 + 1)
    <3>1. big * (big + 1) <= 1048576 * (big + 1)
      BY <1>1, PromotionBounds, SMT
    <3>2. QED  BY <1>1, <3>1, PromotionBounds, SMT
  <2>2. UNION_DENSE_CARD * promotion_coef(t) <= 4096 * promotion_coef(t)
    BY <1>4, PromotionBounds, SMT
  <2>3. promotion_coef(t) <= 85 * (1048576 * (1048576 + 1))
    BY <1>1, <1>4, <2>1, SMT
  <2>4. QED  BY <1>1, <1>4, <1>5, <2>2, <2>3, SMT
<1>7. 40000 * t < 18446744073709551616
  BY <1>1, PromotionBounds, SMT
<1>8. 85 * t * (t + 1) - 86 * t >= 0
  BY <1>1, <1>2, SMT
<1>9. QED
  BY <1>4, <1>6, <1>7, <1>8, SMT

----------------------------------------------------------------------------
\* The invariant.
Containers ==
  { c \in [typ : {UNSEEDED, CT_ARRAY, CT_BITMAP, CT_RUN, CT_INLINE},
           card : 0 .. KEYSPACE, runs : 0 .. MAX_RUNS] :
      /\ c.card = 0 <=> c.typ = UNSEEDED
      /\ c.typ \in {CT_ARRAY, CT_INLINE} => c.card <= ARRAY_MAX_SIZE
      /\ c.typ = CT_RUN <=> c.runs > 0 }

Accumulators ==
  [ typ  : {UNSEEDED, CT_ARRAY, CT_BITMAP, CT_RUN, CT_INLINE},
    card : {CARD_LAZY} \cup 0 .. KEYSPACE,
    runs : 0 .. MAX_RUNS,
    at   : {"source", "slot", "scratch"} ]

\* A run container no larger than the array of its values.
AsBuilt(card, runs) == runs = 0 \/ 2 * runs + 1 <= card

IsShape(s) == s.cap \in Nat /\ s.card \in Nat /\ s.runs \in Nat

\* A container is within what was predicted of it.
Covers(s, c) ==
  /\ c.card <= s.card
  /\ c.card > 0 => stored(c) <= s.cap
  /\ s.cap < BITMAP_BYTES => AsBuilt(c.card, c.runs)

IsOperand(o) ==
  /\ o.c \in Containers /\ IsShape(o.s) /\ Covers(o.s, o.c)
  /\ o.leaf \in BOOLEAN /\ (o.leaf => AsBuilt(o.s.card, o.s.runs))

\* A slot of cp bytes is smaller than a bitmap's; it holds an array of so many.
Tight(cp)   == cp < BITMAP_BYTES
Fits(cp, m) == m <= ARRAY_MAX_SIZE /\ 2 * m <= cp

AnyAfter(td) == \E i \in 2 .. Len(td) : td[i].card > 0

\* What the plan of operation o, with slot cp and shape sh, promises of the
\* containers td it was made for.
Promised(o, cp, sh, td) ==
  /\ o = "Union" =>
         /\ Tight(cp) => Fits(cp, TotalCard(td))
         /\ sh.card > 0 => TotalCard(td) <= sh.card
  /\ o = "Intersect" =>
         /\ Tight(cp) => \E i \in 1 .. Len(td) : Fits(cp, td[i].card)
         /\ sh.card > 0 => \E i \in 1 .. Len(td) : td[i].card <= sh.card
  /\ o = "Diff" =>
         /\ td[1].card > 0 => stored(td[1]) <= cp \/ AnyAfter(td)
         /\ AnyAfter(td) => shrink_cap(td[1].card) <= cp
         /\ Tight(cp) => AsBuilt(td[1].card, td[1].runs)
         /\ sh.card > 0 => td[1].card <= sh.card

\* A count is that of the container, or put off.
Counted(a, m) == a.card = m \/ (a.typ = CT_BITMAP /\ a.card = CARD_LAZY)

RunsOf(a, m) == a.typ = CT_RUN /\ m > 0 => a.runs > 0

AllPresent(td) == \A i \in 1 .. Len(td) : td[i].card > 0
NonePresent(td) == \A i \in 1 .. Len(td) : td[i].card = 0

\* The accumulator a, really m values, with td still to fold, in each form.
UnionPassed(cp, a, m, td) ==
  /\ a.typ \in {UNSEEDED, CT_ARRAY, CT_BITMAP, CT_RUN}
  /\ a.typ = UNSEEDED => a = NoAcc /\ m = 0
  /\ a.typ = CT_RUN => m > 0
  /\ Tight(cp) => a.typ \in {UNSEEDED, CT_ARRAY} /\ Fits(cp, m + TotalCard(td))
  /\ a.typ = CT_ARRAY => Tight(cp)

DiffPassed(cp, a, m, td) ==
  /\ a.typ \in {CT_ARRAY, CT_BITMAP, CT_RUN}
  /\ a.typ = CT_ARRAY => Fits(cp, m)
  /\ a.typ = CT_BITMAP => ~ Tight(cp)
  /\ a.typ = CT_RUN =>
       /\ run_bytes(a.runs) <= cp
       /\ Tight(cp) => AsBuilt(m, a.runs) /\ NonePresent(td)

ArrayHeld(o, cp, a, m, td) ==
  /\ a.card = m /\ Fits(cp, m)
  /\ o = "Union" => Fits(cp, m + TotalCard(td))
  /\ AllPresent(td)

\* The fragments the subtrahends td can split off, at most.
Splits(td) == Total(Each(splits_into, td), Len(td))

RunHeld(o, cp, a, m, td) ==
  /\ ~ Tight(cp) /\ a.typ = CT_RUN
  /\ a.card = m
  /\ a.runs + Splits(td) <= MAX_RUNS
  /\ AllPresent(td)
  /\ \A i \in 1 .. Len(td) : td[i].typ \in (IF o = "Diff" THEN {CT_RUN, CT_ARRAY} ELSE {CT_RUN})

BitmapHeld(cp, a, td) ==
  /\ ~ Tight(cp) /\ a.typ = CT_BITMAP
  /\ AllPresent(td)

Verbatim(o, cp, a, m, td) ==
  /\ o = "Diff" /\ td = << >>
  /\ [typ |-> a.typ, card |-> m, runs |-> a.runs] \in Containers /\ m > 0
  /\ a.card = m /\ stored(a) <= cp
  /\ Tight(cp) => AsBuilt(m, a.runs)

Held(o, cp, f, a, m, td) ==
  \/ f = "pass" /\ o = "Union" /\ UnionPassed(cp, a, m, td)
  \/ f = "pass" /\ o = "Diff" /\ DiffPassed(cp, a, m, td)
  \/ f = "array" /\ ArrayHeld(o, cp, a, m, td)
  \/ f = "run" /\ RunHeld(o, cp, a, m, td)
  \/ f = "bitmap" /\ BitmapHeld(cp, a, td)
  \/ f = "verbatim" /\ Verbatim(o, cp, a, m, td)

\* What is left can only make of it what was predicted.
Bounded(o, sh, m, td) ==
  sh.card > 0 =>
    /\ m <= sh.card
    /\ o = "Union" => m + TotalCard(td) <= sh.card

Started(o, cp, sh, f, a, m, td) ==
  /\ a \in Accumulators /\ m \in 0 .. KEYSPACE /\ td \in Seq(Containers)
  /\ Counted(a, m) /\ RunsOf(a, m)
  /\ Held(o, cp, f, a, m, td)
  /\ Bounded(o, sh, m, td)

\* The plan (operation o, slot cp, shape sh) is one the planners make.
IsPlan(o, cp, sh) ==
  /\ o \in {"Union", "Intersect", "Diff"}
  /\ cp \in Nat /\ IsShape(sh)
  /\ sh.card > 0 => cp <= sh.cap \/ sh.cap >= BITMAP_BYTES

FoldInv ==
  phase = "fold" =>
    /\ IsPlan(op, cap, shape) /\ major \in {"partner", "key"}
    /\ op = "Intersect" => major = "key"
    /\ form \in {"none", "pass", "array", "run", "bitmap", "verbatim"}
    /\ todo \in Seq(Containers)
    /\ form = "none" => acc = NoAcc /\ n = 0 /\ (todo # << >> => Promised(op, cap, shape, todo))
    /\ form # "none" => Started(op, cap, shape, form, acc, n, todo)
    /\ result = NoOperand

IdleInv ==
  phase = "idle" =>
    /\ acc = NoAcc /\ n \in 0 .. KEYSPACE
    /\ result.c \in Containers /\ result.c.typ # CT_INLINE /\ result.c.card = n
    /\ IsShape(result.s) /\ result.leaf = FALSE
    /\ result.s.card > 0 => Covers(result.s, result.c)

IInv ==
  /\ phase \in {"idle", "fold"}
  /\ FoldInv /\ IdleInv
  /\ WritesFit

----------------------------------------------------------------------------
\* Sums.
LEMMA SetInduction ==
  ASSUME NEW S, 0 \in S, \A l \in Nat : l \in S => l + 1 \in S
  PROVE  Nat \subseteq S
<1> DEFINE missing == {l \in Nat : l \notin S}
<1>1. ASSUME missing # {} PROVE FALSE
  <2>1. missing \in SUBSET Nat
    OBVIOUS
  <2> HIDE DEF missing
  <2>2. PICK l \in missing : \A m \in missing : ~ (<< m, l >> \in OpToRel(<, Nat))
    BY <1>1, <2>1, WFMin, NatLessThanWellFounded
  <2>3. l \in Nat /\ l # 0 /\ l \notin S
    BY <2>2 DEF missing
  <2>4. l - 1 \in Nat /\ (l - 1) + 1 = l
    BY <2>3
  <2>5. l - 1 \in missing
    BY <2>3, <2>4 DEF missing
  <2>6. << l - 1, l >> \in OpToRel(<, Nat)
    BY <2>3, <2>4 DEF OpToRel
  <2> QED
    BY <2>2, <2>5, <2>6
<1> QED
  BY <1>1

\* f holds the sums of c up to l.
Sums(c, l, f) == f = [k \in 0 .. l |-> IF k = 0 THEN 0 ELSE f[k - 1] + c[k]]

LEMMA SumsExist ==
  ASSUME NEW c, NEW l \in Nat
  PROVE  \E f : Sums(c, l, f)
<1> DEFINE S == {k \in Nat : \E f : Sums(c, k, f)}
<1>1. 0 \in S
  <2>1. Sums(c, 0, [k \in 0 .. 0 |-> 0])
    BY DEF Sums
  <2> QED
    BY <2>1
<1>2. ASSUME NEW k \in Nat, k \in S
      PROVE  k + 1 \in S
  <2>1. PICK f : Sums(c, k, f)
    BY <1>2
  <2> DEFINE g == [j \in 0 .. k + 1 |-> IF j = k + 1 THEN f[k] + c[k + 1] ELSE f[j]]
  <2>2. ASSUME NEW j \in 0 .. k + 1
        PROVE  g[j] = (IF j = 0 THEN 0 ELSE g[j - 1] + c[j])
    <3>1. CASE j = k + 1
      BY <3>1
    <3>2. CASE j # k + 1
      <4>1. j \in 0 .. k
        BY <3>2
      <4>2. f[j] = (IF j = 0 THEN 0 ELSE f[j - 1] + c[j])
        BY <2>1, <4>1 DEF Sums
      <4>3. j # 0 => j - 1 \in 0 .. k + 1 /\ j - 1 # k + 1
        BY <4>1
      <4> QED
        BY <3>2, <4>2, <4>3
    <3> QED
      BY <3>1, <3>2
  <2>3. DOMAIN g = 0 .. k + 1 /\ g = [j \in 0 .. k + 1 |-> g[j]]
    OBVIOUS
  <2> HIDE DEF g
  <2>4. Sums(c, k + 1, g)
    BY <2>2, <2>3 DEF Sums
  <2> QED
    BY <2>4
<1> HIDE DEF S
<1>3. l \in S
  BY <1>1, <1>2, SetInduction
<1> QED
  BY <1>3 DEF S

LEMMA SumsAgree ==
  ASSUME NEW c, NEW d, NEW m \in Nat, NEW l \in Nat, m <= l, NEW f, NEW g,
         Sums(c, m, f), Sums(d, l, g), \A k \in 1 .. m : c[k] = d[k]
  PROVE  f[m] = g[m]
<1> DEFINE S == {k \in Nat : k <= m => f[k] = g[k]}
<1>1. 0 \in S
  BY DEF Sums
<1>2. ASSUME NEW k \in Nat, k \in S
      PROVE  k + 1 \in S
  <2>1. CASE k + 1 <= m
    <3>1. k + 1 \in 0 .. m /\ k + 1 \in 0 .. l /\ k + 1 # 0 /\ (k + 1) - 1 = k /\ k + 1 \in 1 .. m
      BY <2>1
    <3>2. f[k + 1] = f[k] + c[k + 1] /\ g[k + 1] = g[k] + d[k + 1]
      BY <3>1 DEF Sums
    <3>3. f[k] = g[k]
      BY <1>2, <2>1
    <3> QED
      BY <3>1, <3>2, <3>3
  <2>2. CASE ~ (k + 1 <= m)
    BY <2>2
  <2> QED
    BY <2>1, <2>2
<1> HIDE DEF S
<1>3. m \in S
  BY <1>1, <1>2, SetInduction
<1> QED
  BY <1>3 DEF S

LEMMA TotalIs ==
  ASSUME NEW c, NEW l \in Nat
  PROVE  \E f : Sums(c, l, f) /\ Total(c, l) = f[l]
<1> DEFINE f == CHOOSE f : Sums(c, l, f)
<1>1. Sums(c, l, f)
  BY SumsExist
<1>2. Total(c, l) = f[l]
  BY DEF Total, Sums
<1> QED
  BY <1>1, <1>2

LEMMA TotalFacts ==
  ASSUME NEW c, NEW l \in Nat
  PROVE  /\ Total(c, 0) = 0
         /\ Total(c, l + 1) = Total(c, l) + c[l + 1]
         /\ \A d : (\A k \in 1 .. l : c[k] = d[k]) => Total(d, l) = Total(c, l)
<1>1. Total(c, 0) = 0
  <2>1. PICK f : Sums(c, 0, f) /\ Total(c, 0) = f[0]
    BY TotalIs
  <2> QED
    BY <2>1 DEF Sums
<1>2. PICK f : Sums(c, l, f) /\ Total(c, l) = f[l]
  BY TotalIs
<1>3. Total(c, l + 1) = Total(c, l) + c[l + 1]
  <2>1. PICK m \in Nat : m = l + 1
    OBVIOUS
  <2>2. l <= m /\ m \in 0 .. m /\ m # 0 /\ m - 1 = l
    BY <2>1
  <2>3. PICK g : Sums(c, m, g) /\ Total(c, m) = g[m]
    BY TotalIs
  <2>4. PICK d : d = c
    OBVIOUS
  <2>5. f[l] = g[l]
    <3>1. /\ Sums(d, m, g) /\ Sums(c, l, f) /\ l <= m
          /\ \A k \in 1 .. l : c[k] = d[k]
      BY <1>2, <2>2, <2>3, <2>4
    <3> QED
      BY <3>1, SumsAgree
  <2>6. g[m] = g[l] + c[m]
    BY <2>2, <2>3 DEF Sums
  <2> QED
    BY <1>2, <2>1, <2>3, <2>5, <2>6
<1>4. ASSUME NEW d, \A k \in 1 .. l : c[k] = d[k]
      PROVE  Total(d, l) = Total(c, l)
  <2>1. PICK g : Sums(d, l, g) /\ Total(d, l) = g[l]
    BY TotalIs
  <2>2. l <= l
    OBVIOUS
  <2>3. f[l] = g[l]
    BY <1>2, <1>4, <2>1, <2>2, SumsAgree
  <2> QED
    BY <1>2, <2>1, <2>3
<1> QED
  BY <1>1, <1>3, <1>4

\* A sum of naturals is one, no less than what it is a sum of.
LEMMA TotalNat ==
  ASSUME NEW c, NEW l \in Nat, \A k \in 1 .. l : c[k] \in Nat
  PROVE  /\ Total(c, l) \in Nat
         /\ \A k \in 1 .. l : c[k] <= Total(c, l)
<1> DEFINE S == {i \in Nat : i <= l => /\ Total(c, i) \in Nat
                                       /\ \A k \in 1 .. i : c[k] <= Total(c, i)}
<1>1. 0 \in S
  BY TotalFacts
<1>2. ASSUME NEW i \in Nat, i \in S
      PROVE  i + 1 \in S
  <2>1. CASE i + 1 <= l
    <3>1. Total(c, i + 1) = Total(c, i) + c[i + 1]
      BY TotalFacts
    <3>2. c[i + 1] \in Nat /\ i + 1 \in 1 .. l
      BY <2>1
    <3>3. Total(c, i) \in Nat /\ \A k \in 1 .. i : c[k] <= Total(c, i)
      BY <1>2, <2>1
    <3>4. ASSUME NEW k \in 1 .. i + 1
          PROVE  c[k] <= Total(c, i + 1)
      <4>1. CASE k \in 1 .. i
        <5>1. c[k] \in Nat /\ c[k] <= Total(c, i)
          BY <2>1, <3>3, <4>1
        <5> QED
          BY <3>1, <3>2, <3>3, <5>1
      <4>2. CASE k = i + 1
        BY <3>1, <3>2, <3>3, <4>2
      <4> QED
        BY <4>1, <4>2
    <3> QED
      BY <3>1, <3>2, <3>3, <3>4
  <2>2. CASE ~ (i + 1 <= l)
    BY <2>2
  <2> QED
    BY <2>1, <2>2
<1> HIDE DEF S
<1>3. l \in S
  BY <1>1, <1>2, SetInduction
<1> QED
  BY <1>3 DEF S

\* Sums compared term by term.
LEMMA TotalLeq ==
  ASSUME NEW c, NEW d, NEW l \in Nat,
         \A k \in 1 .. l : c[k] \in Nat /\ d[k] \in Nat /\ c[k] <= d[k]
  PROVE  Total(c, l) <= Total(d, l)
<1> DEFINE S == {i \in Nat : i <= l => /\ Total(c, i) \in Nat /\ Total(d, i) \in Nat
                                       /\ Total(c, i) <= Total(d, i)}
<1>1. 0 \in S
  BY TotalFacts
<1>2. ASSUME NEW i \in Nat, i \in S
      PROVE  i + 1 \in S
  <2>1. CASE i + 1 <= l
    <3>1. Total(c, i + 1) = Total(c, i) + c[i + 1] /\ Total(d, i + 1) = Total(d, i) + d[i + 1]
      BY TotalFacts
    <3>2. c[i + 1] \in Nat /\ d[i + 1] \in Nat /\ c[i + 1] <= d[i + 1]
      BY <2>1
    <3>3. Total(c, i) \in Nat /\ Total(d, i) \in Nat /\ Total(c, i) <= Total(d, i)
      BY <1>2, <2>1
    <3> QED
      BY <3>1, <3>2, <3>3
  <2>2. CASE ~ (i + 1 <= l)
    BY <2>2
  <2> QED
    BY <2>1, <2>2
<1> HIDE DEF S
<1>3. l \in S
  BY <1>1, <1>2, SetInduction
<1> QED
  BY <1>3 DEF S

LEMMA TwoAsBuilt ==
  ASSUME NEW c \in Nat, NEW r \in Nat, NEW d \in Nat, NEW s \in Nat,
         AsBuilt(c, r), AsBuilt(d, s)
  PROVE  /\ c + d \in Nat /\ r + s \in Nat
         /\ AsBuilt(c + d, r + s)
BY DEF AsBuilt

\* Runs each no larger than the array of their values are not together either.
LEMMA TotalAsBuilt ==
  ASSUME NEW c, NEW r, NEW l \in Nat,
         \A k \in 1 .. l : c[k] \in Nat /\ r[k] \in Nat /\ AsBuilt(c[k], r[k])
  PROVE  AsBuilt(Total(c, l), Total(r, l))
<1> DEFINE S == {i \in Nat : i <= l => /\ Total(c, i) \in Nat /\ Total(r, i) \in Nat
                                       /\ AsBuilt(Total(c, i), Total(r, i))}
<1>1. 0 \in S
  BY TotalFacts DEF AsBuilt
<1>2. ASSUME NEW i \in Nat, i \in S
      PROVE  i + 1 \in S
  <2>1. CASE i + 1 <= l
    <3>1. Total(c, i + 1) = Total(c, i) + c[i + 1] /\ Total(r, i + 1) = Total(r, i) + r[i + 1]
      BY TotalFacts
    <3>2. c[i + 1] \in Nat /\ r[i + 1] \in Nat /\ AsBuilt(c[i + 1], r[i + 1])
      BY <2>1
    <3>3. Total(c, i) \in Nat /\ Total(r, i) \in Nat /\ AsBuilt(Total(c, i), Total(r, i))
      BY <1>2, <2>1
    <3>4. /\ Total(c, i) + c[i + 1] \in Nat /\ Total(r, i) + r[i + 1] \in Nat
          /\ AsBuilt(Total(c, i) + c[i + 1], Total(r, i) + r[i + 1])
      BY <3>2, <3>3, TwoAsBuilt
    <3>5. /\ Total(c, i + 1) \in Nat /\ Total(r, i + 1) \in Nat
          /\ AsBuilt(Total(c, i + 1), Total(r, i + 1))
      BY <3>1, <3>4
    <3> QED
      BY <3>5
  <2>2. CASE ~ (i + 1 <= l)
    BY <2>2
  <2> QED
    BY <2>1, <2>2
<1> HIDE DEF S
<1>3. l \in S
  BY <1>1, <1>2, SetInduction
<1> QED
  BY <1>3 DEF S

\* A sum without one of its terms.
LEMMA TotalWithout ==
  ASSUME NEW c, NEW d, NEW l \in Nat, NEW p \in 1 .. l,
         \A k \in 1 .. l : c[k] \in Nat,
         \A k \in 1 .. l - 1 : d[k] = IF k < p THEN c[k] ELSE c[k + 1]
  PROVE  Total(d, l - 1) + c[p] = Total(c, l)
<1> DEFINE S == {i \in Nat : p + i <= l => Total(d, p + i - 1) + c[p] = Total(c, p + i)}
<1>1. 0 \in S
  <2>1. PICK q : q = p - 1 /\ q \in Nat /\ p = q + 1 /\ q + 1 \in 1 .. l
    OBVIOUS
  <2>2. \A k \in 1 .. q : c[k] = d[k]
    BY <2>1
  <2>3. Total(d, q) = Total(c, q) /\ Total(c, q + 1) = Total(c, q) + c[q + 1]
    BY <2>1, <2>2, TotalFacts
  <2>4. p + 0 = p /\ p + 0 - 1 = q
    BY <2>1
  <2> QED
    BY <2>1, <2>3, <2>4
<1>2. ASSUME NEW i \in Nat, i \in S
      PROVE  i + 1 \in S
  <2>1. CASE p + (i + 1) <= l
    <3>1. PICK q : q = p + i - 1 /\ q \in Nat /\ p + i = q + 1 /\ p + (i + 1) = (q + 1) + 1
                   /\ p + (i + 1) - 1 = q + 1
      OBVIOUS
    <3>2. Total(d, q + 1) = Total(d, q) + d[q + 1] /\ Total(c, (q + 1) + 1) = Total(c, q + 1) + c[(q + 1) + 1]
      BY <3>1, TotalFacts
    <3>3. d[q + 1] = c[(q + 1) + 1]
      BY <2>1, <3>1
    <3>4. Total(d, q) + c[p] = Total(c, q + 1)
      BY <1>2, <2>1, <3>1
    <3>5. Total(c, q + 1) \in Nat /\ c[p] \in Nat /\ c[(q + 1) + 1] \in Nat
      <4>1. \A k \in 1 .. q + 1 : c[k] \in Nat
        BY <2>1, <3>1
      <4>2. q + 1 \in Nat
        BY <3>1
      <4> QED
        BY <2>1, <3>1, <4>1, <4>2, TotalNat
    <3>6. Total(d, q) \in Nat
      <4>1. \A k \in 1 .. q : d[k] \in Nat
        BY <2>1, <3>1
      <4> QED
        BY <3>1, <4>1, TotalNat
    <3>7. Total(d, q + 1) + c[p] = Total(c, (q + 1) + 1)
      BY <3>2, <3>3, <3>4, <3>5, <3>6
    <3> QED
      BY <3>1, <3>7
  <2>2. CASE ~ (p + (i + 1) <= l)
    BY <2>2
  <2> QED
    BY <2>1, <2>2
<1> HIDE DEF S
<1>3. l - p \in S
  BY <1>1, <1>2, SetInduction
<1>4. p + (l - p) = l
  OBVIOUS
<1> QED
  BY <1>3, <1>4 DEF S

----------------------------------------------------------------------------
\* Sizes and counts.  (MAX_RUNS and KEYSPACE are bounded rather than equated: a
\* range up to a numeral is enumerated by the prover.)
LEMMA Sizes ==
  /\ ARRAY_MAX_SIZE = 4096 /\ BITMAP_BYTES = 8192 /\ SCRATCH_BYTES = 16384
  /\ MAX_RUNS \in Nat /\ 2047 <= MAX_RUNS /\ MAX_RUNS <= 2047
  /\ KEYSPACE \in Nat /\ 65536 <= KEYSPACE /\ KEYSPACE <= 65536
  /\ CARD_LAZY = -1 /\ UNSEEDED = 255
  /\ CT_ARRAY = 0 /\ CT_BITMAP = 1 /\ CT_RUN = 2 /\ CT_INLINE = 3
BY DEF ARRAY_MAX_SIZE, BITMAP_BYTES, BITMAP_WORDS, SCRATCH_BYTES, MAX_RUNS, KEYSPACE,
       CARD_LAZY, UNSEEDED, CT_ARRAY, CT_BITMAP, CT_RUN, CT_INLINE

\* No container takes more than a bitmap (stored_bytes).
LEMMA StoredIs ==
  ASSUME NEW c \in Containers
  PROVE  /\ c.card \in Nat /\ c.card <= KEYSPACE /\ c.runs \in Nat /\ c.runs <= MAX_RUNS
         /\ c.typ \in {UNSEEDED, CT_ARRAY, CT_BITMAP, CT_RUN, CT_INLINE}
         /\ c.typ = UNSEEDED <=> c.card = 0
         /\ c.typ = CT_RUN <=> c.runs > 0
         /\ c.typ \in {CT_ARRAY, CT_INLINE} => c.card <= ARRAY_MAX_SIZE
         /\ stored(c) \in Nat /\ stored(c) <= BITMAP_BYTES
         /\ c.typ = CT_BITMAP => stored(c) = BITMAP_BYTES
         /\ c.typ = CT_RUN => stored(c) = run_bytes(c.runs)
         /\ c.typ \in {CT_ARRAY, CT_INLINE} => stored(c) = 2 * c.card
BY Sizes DEF Containers, stored, stored_bytes, run_bytes

\* What an operation may leave lies between the bounds of set algebra.
LEMMA BetweenIs ==
  ASSUME NEW lo \in Int, NEW hi \in Int, lo <= hi, NEW z \in Between(lo, hi)
  PROVE  z \in Int /\ lo <= z /\ z <= hi
<1>1. Cards \subseteq Nat
  BY KeyFoldAssumption, Sizes
<1>2. z = lo \/ z = hi \/ (z \in Cards /\ lo < z /\ z < hi)
  BY DEF Between
<1>3. CASE z \in {lo, hi}
  BY <1>3
<1>4. CASE z \in Cards /\ lo < z /\ z < hi
  <2>1. z \in Nat
    BY <1>1, <1>4
  <2> QED
    BY <1>4, <2>1
<1> QED
  BY <1>2, <1>3, <1>4

LEMMA CountsAre ==
  ASSUME NEW o \in {"Union", "Intersect", "Diff"},
         NEW x \in Nat, x <= KEYSPACE, NEW y \in Nat, y <= KEYSPACE,
         NEW z \in Counts(o, x, y)
  PROVE  /\ z \in Nat /\ z <= KEYSPACE
         /\ o = "Union" => x <= z /\ y <= z /\ z <= x + y
         /\ o = "Intersect" => z <= x /\ z <= y
         /\ o = "Diff" => z <= x
<1>1. KEYSPACE \in Nat
  BY Sizes
<1>2. CASE o = "Union"
  <2>1. z \in Between(Larger(x, y), Smaller(x + y, KEYSPACE))
    BY <1>2 DEF Counts
  <2>2. PICK lo \in Int, hi \in Int :
          /\ lo = Larger(x, y) /\ hi = Smaller(x + y, KEYSPACE)
          /\ lo <= hi /\ x <= lo /\ y <= lo /\ hi <= x + y /\ hi <= KEYSPACE
    BY <1>1 DEF Larger, Smaller
  <2> QED
    BY <1>1, <1>2, <2>1, <2>2, BetweenIs
<1>3. CASE o = "Intersect"
  <2>1. z \in Between(Larger(0, x + y - KEYSPACE), Smaller(x, y))
    BY <1>3 DEF Counts
  <2>2. PICK lo \in Int, hi \in Int :
          /\ lo = Larger(0, x + y - KEYSPACE) /\ hi = Smaller(x, y)
          /\ lo <= hi /\ 0 <= lo /\ hi <= x /\ hi <= y
    BY <1>1 DEF Larger, Smaller
  <2> QED
    BY <1>1, <1>3, <2>1, <2>2, BetweenIs
<1>4. CASE o = "Diff"
  <2> DEFINE lo == Larger(0, x - y)
             hi == Smaller(x, KEYSPACE - y)
  <2>1. z \in Between(lo, hi)
    BY <1>4 DEF Counts
  <2>2. lo \in Int /\ 0 <= lo /\ lo <= x /\ lo <= KEYSPACE - y
    BY <1>1 DEF Larger
  <2>3. hi \in Int /\ hi <= x /\ (hi = x \/ hi = KEYSPACE - y)
    BY <1>1 DEF Smaller
  <2> HIDE DEF lo, hi
  <2>4. lo <= hi
    BY <2>2, <2>3
  <2>5. z \in Int /\ lo <= z /\ z <= hi
    BY <2>1, <2>2, <2>3, <2>4, BetweenIs
  <2> QED
    BY <1>1, <1>4, <2>2, <2>3, <2>5
<1> QED
  BY <1>2, <1>3, <1>4

LEMMA RunCountsAre ==
  ASSUME NEW x \in Nat, x <= KEYSPACE, NEW y \in Nat, y >= 1, NEW r \in RunCounts(x, y)
  PROVE  /\ r \in Nat /\ r <= y
         /\ x > 0 => r >= 1
         /\ x = 0 => r = 0
BY Sizes DEF RunCounts, Smaller

----------------------------------------------------------------------------
\* Sequences of containers.
LEMMA SeqFacts ==
  ASSUME NEW s \in Seq(Containers)
  PROVE  /\ Len(s) \in Nat /\ DOMAIN s = 1 .. Len(s)
         /\ \A i \in 1 .. Len(s) :
              /\ s[i] \in Containers
              /\ s[i].card \in Nat /\ s[i].runs \in Nat /\ splits_into(s[i]) \in Nat
         /\ TotalCard(s) \in Nat /\ TotalRuns(s) \in Nat
         /\ Splits(s) \in Nat
<1>1. Len(s) \in Nat /\ DOMAIN s = 1 .. Len(s) /\ \A i \in 1 .. Len(s) : s[i] \in Containers
  BY LenProperties, ElementOfSeq
<1>2. \A i \in 1 .. Len(s) : s[i].card \in Nat /\ s[i].runs \in Nat /\ splits_into(s[i]) \in Nat
  <2>1. ASSUME NEW i \in 1 .. Len(s)
        PROVE  s[i].card \in Nat /\ s[i].runs \in Nat /\ splits_into(s[i]) \in Nat
    <3>1. s[i].card \in Nat /\ s[i].runs \in Nat
      BY <1>1, StoredIs, Sizes
    <3> QED
      BY <3>1 DEF splits_into
  <2> QED
    BY <2>1
<1> DEFINE c == [i \in DOMAIN s |-> s[i].card]
           r == [i \in DOMAIN s |-> s[i].runs]
           d == [i \in DOMAIN s |-> splits_into(s[i])]
<1>3. \A k \in 1 .. Len(s) : c[k] \in Nat /\ r[k] \in Nat /\ d[k] \in Nat
  BY <1>1, <1>2
<1>4. TotalCard(s) = Total(c, Len(s)) /\ TotalRuns(s) = Total(r, Len(s))
      /\ Splits(s) = Total(d, Len(s))
  BY DEF TotalCard, TotalRuns, Splits, Each
<1> HIDE DEF c, r, d
<1>5. Total(c, Len(s)) \in Nat /\ Total(r, Len(s)) \in Nat /\ Total(d, Len(s)) \in Nat
  BY <1>1, <1>3, TotalNat
<1> QED
  BY <1>1, <1>2, <1>4, <1>5

\* A sequence t that is s without its element p.
LEMMA Without ==
  ASSUME NEW s \in Seq(Containers), NEW t \in Seq(Containers), NEW p \in 1 .. Len(s),
         Len(t) = Len(s) - 1,
         \A k \in 1 .. Len(t) : t[k] = IF k < p THEN s[k] ELSE s[k + 1]
  PROVE  /\ TotalCard(s) = s[p].card + TotalCard(t)
         /\ TotalRuns(s) = s[p].runs + TotalRuns(t)
         /\ Splits(s) =
              splits_into(s[p]) + Splits(t)
<1> DEFINE c(u) == [i \in DOMAIN u |-> u[i].card]
           r(u) == [i \in DOMAIN u |-> u[i].runs]
           d(u) == [i \in DOMAIN u |-> splits_into(u[i])]
<1>1. /\ Len(s) \in Nat /\ DOMAIN s = 1 .. Len(s) /\ Len(t) \in Nat /\ DOMAIN t = 1 .. Len(t)
      /\ \A i \in 1 .. Len(s) :
           s[i].card \in Nat /\ s[i].runs \in Nat /\ splits_into(s[i]) \in Nat
  BY SeqFacts
<1>2. \A u : /\ TotalCard(u) = Total(c(u), Len(u)) /\ TotalRuns(u) = Total(r(u), Len(u))
             /\ Splits(u) = Total(d(u), Len(u))
  BY DEF TotalCard, TotalRuns, Splits, Each
<1>3. \A k \in 1 .. Len(s) : /\ c(s)[k] = s[k].card /\ r(s)[k] = s[k].runs
                             /\ d(s)[k] = splits_into(s[k])
  BY <1>1
<1>4. \A k \in 1 .. Len(s) : c(s)[k] \in Nat /\ r(s)[k] \in Nat /\ d(s)[k] \in Nat
  BY <1>1, <1>3
<1>5. ASSUME NEW k \in 1 .. Len(s) - 1
      PROVE  /\ c(t)[k] = IF k < p THEN c(s)[k] ELSE c(s)[k + 1]
             /\ r(t)[k] = IF k < p THEN r(s)[k] ELSE r(s)[k + 1]
             /\ d(t)[k] = IF k < p THEN d(s)[k] ELSE d(s)[k + 1]
  <2>1. k \in 1 .. Len(t) /\ k \in 1 .. Len(s) /\ k + 1 \in 1 .. Len(s)
    BY <1>1
  <2>2. c(t)[k] = t[k].card /\ r(t)[k] = t[k].runs /\ d(t)[k] = splits_into(t[k])
    BY <1>1, <2>1
  <2> QED
    BY <1>3, <2>1, <2>2
<1> HIDE DEF c, r, d
<1>6. Total(c(t), Len(s) - 1) + c(s)[p] = Total(c(s), Len(s))
  BY <1>1, <1>4, <1>5, TotalWithout
<1>7. Total(r(t), Len(s) - 1) + r(s)[p] = Total(r(s), Len(s))
  BY <1>1, <1>4, <1>5, TotalWithout
<1>8. Total(d(t), Len(s) - 1) + d(s)[p] = Total(d(s), Len(s))
  BY <1>1, <1>4, <1>5, TotalWithout
<1>9. TotalCard(t) \in Nat /\ TotalRuns(t) \in Nat /\ Splits(t) \in Nat
      /\ s[p].card \in Nat /\ s[p].runs \in Nat /\ splits_into(s[p]) \in Nat
  BY <1>1, SeqFacts
<1>10. TotalCard(s) = s[p].card + TotalCard(t)
  <2>1. TotalCard(t) + s[p].card = TotalCard(s)
    BY <1>1, <1>2, <1>3, <1>6
  <2> QED
    BY <1>9, <2>1
<1>11. TotalRuns(s) = s[p].runs + TotalRuns(t)
  <2>1. TotalRuns(t) + s[p].runs = TotalRuns(s)
    BY <1>1, <1>2, <1>3, <1>7
  <2> QED
    BY <1>9, <2>1
<1>12. Splits(s) = splits_into(s[p]) + Splits(t)
  <2>1. Splits(t) + splits_into(s[p]) = Splits(s)
    BY <1>1, <1>2, <1>3, <1>8
  <2> QED
    BY <1>9, <2>1
<1> QED
  BY <1>10, <1>11, <1>12

LEMMA TailIs ==
  ASSUME NEW s \in Seq(Containers), s # << >>
  PROVE  /\ Tail(s) \in Seq(Containers) /\ Len(Tail(s)) = Len(s) - 1 /\ Len(s) >= 1
         /\ Head(s) = s[1] /\ s[1] \in Containers
         /\ \A k \in 1 .. Len(s) - 1 : Tail(s)[k] = s[k + 1]
         /\ DOMAIN Tail(s) = 1 .. Len(s) - 1
         /\ TotalCard(s) = s[1].card + TotalCard(Tail(s))
         /\ Splits(s) =
              splits_into(s[1]) + Splits(Tail(s))
<1>1. /\ Tail(s) \in Seq(Containers) /\ Len(Tail(s)) = Len(s) - 1 /\ Len(s) >= 1
      /\ Head(s) = s[1] /\ \A k \in 1 .. Len(s) - 1 : Tail(s)[k] = s[k + 1]
  OBVIOUS
<1>2. 1 \in 1 .. Len(s) /\ \A k \in 1 .. Len(Tail(s)) : Tail(s)[k] = IF k < 1 THEN s[k] ELSE s[k + 1]
  BY <1>1
<1>3. s[1] \in Containers /\ DOMAIN Tail(s) = 1 .. Len(s) - 1
  BY <1>1, <1>2, SeqFacts
<1> QED
  BY <1>1, <1>2, <1>3, Without

LEMMA RemovedIs ==
  ASSUME NEW s \in Seq(Containers), NEW p \in 1 .. Len(s)
  PROVE  /\ RemoveAt(s, p) \in Seq(Containers) /\ Len(RemoveAt(s, p)) = Len(s) - 1
         /\ \A k \in 1 .. Len(s) - 1 : RemoveAt(s, p)[k] = IF k < p THEN s[k] ELSE s[k + 1]
         /\ \A k \in DOMAIN RemoveAt(s, p) : \E j \in DOMAIN s : RemoveAt(s, p)[k] = s[j]
         /\ TotalCard(s) = s[p].card + TotalCard(RemoveAt(s, p))
         /\ Splits(s) =
              splits_into(s[p]) + Splits(RemoveAt(s, p))
<1> DEFINE x == SubSeq(s, 1, p - 1)
           y == SubSeq(s, p + 1, Len(s))
<1>1. /\ Len(s) \in Nat /\ DOMAIN s = 1 .. Len(s) /\ p \in Nat
      /\ \A k \in 1 .. Len(s) : s[k] \in Containers
  BY SeqFacts
<1>2. x \in Seq(Containers) /\ Len(x) = p - 1 /\ \A k \in 1 .. p - 1 : x[k] = s[k]
  <2>1. PICK l \in Int : l = p - 1
    BY <1>1
  <2>2. \A k \in 1 .. l : s[k] \in Containers
    BY <1>1, <2>1
  <2>3. /\ SubSeq(s, 1, l) \in Seq(Containers)
        /\ Len(SubSeq(s, 1, l)) = (IF 1 <= l THEN l - 1 + 1 ELSE 0)
        /\ \A k \in 1 .. l - 1 + 1 : SubSeq(s, 1, l)[k] = s[1 + k - 1]
    BY <2>1, <2>2, SubSeqProperties
  <2> QED
    BY <1>1, <2>1, <2>3
<1>3. y \in Seq(Containers) /\ Len(y) = Len(s) - p /\ \A k \in 1 .. Len(s) - p : y[k] = s[p + k]
  <2>1. PICK b \in Int : b = p + 1
    BY <1>1
  <2>2. PICK l : l = Len(s) /\ l \in Nat /\ p <= l
    <3>1. p <= Len(s)
      BY <1>1
    <3> QED
      BY <1>1, <3>1
  <2>3. \A k \in b .. l : s[k] \in Containers
    BY <1>1, <2>1, <2>2
  <2>4. /\ SubSeq(s, b, l) \in Seq(Containers)
        /\ Len(SubSeq(s, b, l)) = (IF b <= l THEN l - b + 1 ELSE 0)
        /\ \A k \in 1 .. l - b + 1 : SubSeq(s, b, l)[k] = s[b + k - 1]
    BY <2>2, <2>3, SubSeqProperties
  <2>5. y = SubSeq(s, b, l)
    BY <2>1, <2>2
  <2> HIDE DEF x, y
  <2>6. Len(y) = l - p
    <3>1. Len(y) = IF b <= l THEN l - b + 1 ELSE 0
      BY <2>4, <2>5
    <3>2. p \in Nat
      BY <1>1
    <3>3. (IF b <= l THEN l - b + 1 ELSE 0) = l - p
      BY <2>1, <2>2, <3>2
    <3> QED
      BY <3>1, <3>3
  <2>7. ASSUME NEW k \in 1 .. Len(s) - p
        PROVE  y[k] = s[p + k]
    <3>1. k \in 1 .. l - b + 1 /\ b + k - 1 = p + k
      BY <1>1, <2>1, <2>2
    <3> QED
      BY <2>4, <2>5, <3>1
  <2> QED
    BY <2>2, <2>4, <2>5, <2>6, <2>7
<1>4. RemoveAt(s, p) = x \o y
  BY DEF RemoveAt
<1> HIDE DEF x, y
<1>5. /\ RemoveAt(s, p) \in Seq(Containers) /\ Len(RemoveAt(s, p)) = Len(s) - 1
      /\ \A k \in 1 .. Len(s) - 1 : RemoveAt(s, p)[k] = IF k <= p - 1 THEN x[k] ELSE y[k - (p - 1)]
  <2>1. /\ x \o y \in Seq(Containers) /\ Len(x \o y) = Len(x) + Len(y)
        /\ \A k \in 1 .. Len(x) + Len(y) :
             (x \o y)[k] = IF k <= Len(x) THEN x[k] ELSE y[k - Len(x)]
    BY <1>2, <1>3, ConcatProperties
  <2>2. Len(x) + Len(y) = Len(s) - 1
    BY <1>1, <1>2, <1>3
  <2> QED
    BY <1>2, <1>4, <2>1, <2>2
<1>6. ASSUME NEW k \in 1 .. Len(s) - 1
      PROVE  RemoveAt(s, p)[k] = IF k < p THEN s[k] ELSE s[k + 1]
  <2>1. CASE k < p
    BY <1>1, <1>2, <1>5, <2>1
  <2>2. CASE ~ (k < p)
    <3>1. k - (p - 1) \in 1 .. Len(s) - p /\ p + (k - (p - 1)) = k + 1
      BY <1>1, <2>2
    <3> QED
      BY <1>1, <1>3, <1>5, <2>2, <3>1
  <2> QED
    BY <2>1, <2>2
<1>7. DOMAIN RemoveAt(s, p) = 1 .. Len(s) - 1
  BY <1>1, <1>5, SeqFacts
<1>8. \A k \in DOMAIN RemoveAt(s, p) : \E j \in DOMAIN s : RemoveAt(s, p)[k] = s[j]
  <2>1. ASSUME NEW k \in 1 .. Len(s) - 1
        PROVE  \E j \in DOMAIN s : RemoveAt(s, p)[k] = s[j]
    <3>1. k \in DOMAIN s /\ k + 1 \in DOMAIN s
      BY <1>1
    <3> QED
      BY <1>6, <3>1
  <2> QED
    BY <1>7, <2>1
<1> QED
  BY <1>5, <1>6, <1>8, Without


LEMMA AppendedIs ==
  ASSUME NEW s \in Seq(Containers), NEW c \in Containers
  PROVE  /\ Append(s, c) \in Seq(Containers) /\ Len(Append(s, c)) = Len(s) + 1
         /\ \A k \in 1 .. Len(s) : Append(s, c)[k] = s[k]
         /\ Append(s, c)[Len(s) + 1] = c
         /\ TotalCard(Append(s, c)) = c.card + TotalCard(s)
<1> DEFINE t == Append(s, c)
           p == Len(s) + 1
<1>1. /\ t \in Seq(Containers) /\ Len(t) = Len(s) + 1 /\ Len(s) \in Nat
      /\ \A k \in 1 .. Len(s) : t[k] = s[k]
      /\ t[p] = c
  OBVIOUS
<1> HIDE DEF t
<1>2. p \in 1 .. Len(t) /\ Len(s) = Len(t) - 1
      /\ \A k \in 1 .. Len(s) : s[k] = IF k < p THEN t[k] ELSE t[k + 1]
  BY <1>1
<1> HIDE DEF p
<1>3. TotalCard(t) = t[p].card + TotalCard(s)
  BY <1>1, <1>2, Without
<1>4. TotalCard(t) = c.card + TotalCard(s)
  BY <1>1, <1>3 DEF p
<1> QED
  BY <1>1, <1>4 DEF t, p

\* u is what the first k of cs leave of the containers present.
PresentUpto(cs, k, u) ==
  /\ u \in Seq(Containers)
  /\ \A i \in 1 .. Len(u) : u[i].card > 0 /\ \E j \in 1 .. k : u[i] = cs[j]
  /\ \A j \in 1 .. k : cs[j].card > 0 => \E i \in 1 .. Len(u) : u[i] = cs[j]
  /\ TotalCard(u) = Total([i \in DOMAIN cs |-> cs[i].card], k)
  /\ cs[1].card > 0 /\ k >= 1 =>
       /\ Len(u) >= 1 /\ u[1] = cs[1]
       /\ Len(u) >= 2 <=> \E j \in 2 .. k : cs[j].card > 0

LEMMA PresentStep ==
  ASSUME NEW cs \in Seq(Containers), NEW k \in Nat, k + 1 <= Len(cs), NEW u,
         PresentUpto(cs, k, u)
  PROVE  PresentUpto(cs, k + 1, IF cs[k + 1].card > 0 THEN Append(u, cs[k + 1]) ELSE u)
<1> DEFINE cards == [i \in DOMAIN cs |-> cs[i].card]
<1>1. /\ k + 1 \in 1 .. Len(cs) /\ cs[k + 1] \in Containers /\ cs[k + 1].card \in Nat
      /\ DOMAIN cs = 1 .. Len(cs)
  BY SeqFacts
<1>2. Total(cards, k + 1) = Total(cards, k) + cs[k + 1].card
  <2>1. Total(cards, k + 1) = Total(cards, k) + cards[k + 1]
    BY TotalFacts
  <2> QED
    BY <1>1, <2>1
<1>3. Total(cards, k) = TotalCard(u) /\ TotalCard(u) \in Nat /\ u \in Seq(Containers)
      /\ Len(u) \in Nat
  BY SeqFacts DEF PresentUpto
<1> HIDE DEF cards
<1>4. CASE cs[k + 1].card = 0
  <2>1. Total(cards, k + 1) = TotalCard(u)
    BY <1>2, <1>3, <1>4
  <2>2. \A j \in 1 .. k + 1 : cs[j].card > 0 => j \in 1 .. k
    BY <1>4
  <2>3. k + 1 >= 1 /\ cs[1].card > 0 => k >= 1
    BY <1>4
  <2>4. \A j \in 2 .. k + 1 : cs[j].card > 0 => j \in 2 .. k
    BY <1>4
  <2>5. PresentUpto(cs, k + 1, u)
    BY <2>1, <2>2, <2>3, <2>4 DEF PresentUpto, cards
  <2> QED
    BY <1>4, <2>5
<1>5. CASE cs[k + 1].card > 0
  <2> DEFINE v == Append(u, cs[k + 1])
  <2>1. /\ v \in Seq(Containers) /\ Len(v) = Len(u) + 1
        /\ \A i \in 1 .. Len(u) : v[i] = u[i]
        /\ v[Len(u) + 1] = cs[k + 1]
        /\ TotalCard(v) = cs[k + 1].card + TotalCard(u)
    BY <1>1, <1>3, AppendedIs
  <2> HIDE DEF v
  <2>2. TotalCard(v) = Total(cards, k + 1)
    BY <1>1, <1>2, <1>3, <2>1
  <2>3. ASSUME NEW i \in 1 .. Len(v)
        PROVE  v[i].card > 0 /\ \E j \in 1 .. k + 1 : v[i] = cs[j]
    <3>1. CASE i \in 1 .. Len(u)
      <4>1. u[i].card > 0 /\ \E j \in 1 .. k : u[i] = cs[j]
        BY <3>1 DEF PresentUpto
      <4> QED
        BY <2>1, <3>1, <4>1
    <3>2. CASE i = Len(u) + 1
      <4>1. k + 1 \in 1 .. k + 1
        OBVIOUS
      <4> QED
        BY <1>5, <2>1, <3>2, <4>1
    <3> QED
      BY <1>3, <2>1, <3>1, <3>2
  <2>4. ASSUME NEW j \in 1 .. k + 1, cs[j].card > 0
        PROVE  \E i \in 1 .. Len(v) : v[i] = cs[j]
    <3>1. CASE j \in 1 .. k
      <4>1. PICK i \in 1 .. Len(u) : u[i] = cs[j]
        BY <2>4, <3>1 DEF PresentUpto
      <4> QED
        BY <1>3, <2>1, <4>1
    <3>2. CASE j = k + 1
      BY <1>3, <2>1, <3>2
    <3> QED
      BY <3>1, <3>2
  <2>5. ASSUME cs[1].card > 0
        PROVE  /\ Len(v) >= 1 /\ v[1] = cs[1]
               /\ Len(v) >= 2 <=> \E j \in 2 .. k + 1 : cs[j].card > 0
    <3>1. CASE k = 0
      <4>1. Len(u) = 0
        <5>1. \A i \in 1 .. Len(u) : FALSE
          BY <3>1 DEF PresentUpto
        <5> QED
          BY <1>3, <5>1
      <4>2. Len(v) = 1 /\ v[1] = cs[1]
        BY <2>1, <3>1, <4>1
      <4> QED
        BY <3>1, <4>2
    <3>2. CASE k >= 1
      <4>1. Len(u) >= 1 /\ u[1] = cs[1]
        BY <2>5, <3>2 DEF PresentUpto
      <4>2. k + 1 \in 2 .. k + 1
        BY <3>2
      <4> QED
        BY <1>3, <1>5, <2>1, <4>1, <4>2
    <3> QED
      BY <3>1, <3>2
  <2>6. PresentUpto(cs, k + 1, v)
    BY <2>1, <2>2, <2>3, <2>4, <2>5 DEF PresentUpto, cards
  <2> QED
    BY <1>5, <2>6 DEF v
<1> QED
  BY <1>1, <1>4, <1>5

Presents(cs, l, f) ==
  f = [k \in 0 .. l |-> IF k = 0 THEN << >>
                        ELSE IF cs[k].card > 0 THEN Append(f[k - 1], cs[k]) ELSE f[k - 1]]

LEMMA PresentsExist ==
  ASSUME NEW cs, NEW l \in Nat
  PROVE  \E f : Presents(cs, l, f)
<1> DEFINE S == {k \in Nat : \E f : Presents(cs, k, f)}
<1>1. 0 \in S
  <2>1. Presents(cs, 0, [k \in 0 .. 0 |-> << >>])
    BY DEF Presents
  <2> QED
    BY <2>1
<1>2. ASSUME NEW k \in Nat, k \in S
      PROVE  k + 1 \in S
  <2>1. PICK f : Presents(cs, k, f)
    BY <1>2
  <2> DEFINE more == IF cs[k + 1].card > 0 THEN Append(f[k], cs[k + 1]) ELSE f[k]
             g == [j \in 0 .. k + 1 |-> IF j = k + 1 THEN more ELSE f[j]]
  <2>2. ASSUME NEW j \in 0 .. k + 1
        PROVE  g[j] = (IF j = 0 THEN << >>
                       ELSE IF cs[j].card > 0 THEN Append(g[j - 1], cs[j]) ELSE g[j - 1])
    <3>1. CASE j = k + 1
      <4>1. g[k] = f[k] /\ g[k + 1] = more /\ (k + 1) - 1 = k /\ k + 1 # 0
        OBVIOUS
      <4> QED
        BY <3>1, <4>1
    <3>2. CASE j # k + 1
      <4>1. j \in 0 .. k
        BY <3>2
      <4>2. f[j] = (IF j = 0 THEN << >>
                    ELSE IF cs[j].card > 0 THEN Append(f[j - 1], cs[j]) ELSE f[j - 1])
        BY <2>1, <4>1 DEF Presents
      <4>3. j # 0 => j - 1 \in 0 .. k + 1 /\ j - 1 # k + 1
        BY <4>1
      <4>4. g[j] = f[j] /\ (j # 0 => g[j - 1] = f[j - 1])
        BY <3>2, <4>1, <4>3
      <4> QED
        BY <4>2, <4>4
    <3> QED
      BY <3>1, <3>2
  <2>3. DOMAIN g = 0 .. k + 1 /\ g = [j \in 0 .. k + 1 |-> g[j]]
    OBVIOUS
  <2> HIDE DEF g
  <2>4. Presents(cs, k + 1, g)
    BY <2>2, <2>3 DEF Presents
  <2> QED
    BY <2>4
<1> HIDE DEF S
<1>3. l \in S
  BY <1>1, <1>2, SetInduction
<1> QED
  BY <1>3 DEF S

\* Present keeps the containers of a key and only those, in order.
LEMMA PresentIs ==
  ASSUME NEW cs \in Seq(Containers)
  PROVE  /\ PresentUpto(cs, Len(cs), Present(cs))
         /\ TotalCard(Present(cs)) = TotalCard(cs)
<1> DEFINE l == Len(cs)
           f == CHOOSE f : Presents(cs, l, f)
<1>1. l \in Nat
  OBVIOUS
<1>2. Presents(cs, l, f)
  BY <1>1, PresentsExist
<1>3. Present(cs) = f[l]
  BY DEF Present, Presents
<1> HIDE DEF l, f
<1> DEFINE S == {k \in Nat : k <= l => PresentUpto(cs, k, f[k])}
<1>4. 0 \in S
  <2>1. f[0] = << >>
    BY <1>1, <1>2 DEF Presents
  <2>2. << >> \in Seq(Containers) /\ Len(<< >>) = 0
    OBVIOUS
  <2>3. TotalCard(<< >>) = 0
    BY <2>2, TotalFacts DEF TotalCard
  <2>4. Total([i \in DOMAIN cs |-> cs[i].card], 0) = 0
    BY TotalFacts
  <2>5. PresentUpto(cs, 0, << >>)
    BY <2>2, <2>3, <2>4 DEF PresentUpto
  <2> QED
    BY <2>1, <2>5
<1>5. ASSUME NEW k \in Nat, k \in S
      PROVE  k + 1 \in S
  <2>1. CASE k + 1 <= l
    <3>1. k + 1 \in 0 .. l /\ k + 1 # 0 /\ (k + 1) - 1 = k /\ k <= l
      BY <1>1, <2>1
    <3>2. f[k + 1] = IF cs[k + 1].card > 0 THEN Append(f[k], cs[k + 1]) ELSE f[k]
      BY <1>2, <3>1 DEF Presents
    <3>3. PresentUpto(cs, k, f[k])
      BY <1>5, <3>1
    <3>4. PresentUpto(cs, k + 1, IF cs[k + 1].card > 0 THEN Append(f[k], cs[k + 1]) ELSE f[k])
      BY <2>1, <3>3, PresentStep DEF l
    <3> QED
      BY <3>2, <3>4
  <2>2. CASE ~ (k + 1 <= l)
    BY <2>2
  <2> QED
    BY <2>1, <2>2
<1> HIDE DEF S
<1>6. l \in S
  BY <1>1, <1>4, <1>5, SetInduction
<1>7. PresentUpto(cs, Len(cs), Present(cs))
  BY <1>1, <1>3, <1>6 DEF S, l
<1>8. TotalCard(Present(cs)) = TotalCard(cs)
  <2>1. TotalCard(cs) = Total([i \in DOMAIN cs |-> cs[i].card], Len(cs))
    BY DEF TotalCard, Each
  <2> QED
    BY <1>7, <2>1 DEF PresentUpto
<1> QED
  BY <1>7, <1>8


----------------------------------------------------------------------------
\* Least, greatest and the aggregate.
LEMMA LeastIs ==
  ASSUME NEW S \in SUBSET Nat, S # {}
  PROVE  Least(S) \in S /\ \A y \in S : Least(S) <= y
<1>1. PICK x \in S : \A m \in S : ~ (<< m, x >> \in OpToRel(<, Nat))
  BY WFMin, NatLessThanWellFounded
<1>2. ASSUME NEW y \in S
      PROVE  x <= y
  <2>1. x \in Nat /\ y \in Nat
    BY <1>1
  <2>2. y < x => << y, x >> \in OpToRel(<, Nat)
    BY <2>1 DEF OpToRel
  <2>3. ~ (y < x)
    BY <1>1, <2>2
  <2> QED
    BY <2>1, <2>3
<1>3. \E z \in S : \A y \in S : z <= y
  BY <1>2
<1> QED
  BY <1>3 DEF Least

LEMMA GreatestIs ==
  ASSUME NEW S \in SUBSET Nat, S # {}, NEW b \in Nat, \A x \in S : x <= b
  PROVE  Greatest(S) \in S /\ \A y \in S : y <= Greatest(S)
<1> DEFINE T == {t \in Nat : t <= b /\ b - t \in S}
<1>1. T \in SUBSET Nat /\ T # {}
  <2>1. PICK x \in S : x \in Nat /\ x <= b
    OBVIOUS
  <2>2. b - x \in Nat /\ b - x <= b /\ b - (b - x) = x
    BY <2>1
  <2> QED
    BY <2>1, <2>2
<1> HIDE DEF T
<1>2. Least(T) \in T /\ \A y \in T : Least(T) <= y
  BY <1>1, LeastIs
<1>3. PICK t : t = Least(T)
  OBVIOUS
<1>4. t \in Nat /\ t <= b /\ b - t \in S
  BY <1>2, <1>3 DEF T
<1>5. ASSUME NEW y \in S
      PROVE  y <= b - t
  <2>1. y \in Nat /\ y <= b
    OBVIOUS
  <2>2. b - y \in Nat /\ b - y <= b /\ b - (b - y) = y
    BY <2>1
  <2>3. b - y \in T
    BY <2>2 DEF T
  <2>4. t <= b - y
    BY <1>2, <1>3, <2>3
  <2> QED
    BY <1>4, <2>1, <2>4
<1>6. \E z \in S : \A y \in S : y <= z
  BY <1>4, <1>5
<1> QED
  BY <1>6 DEF Greatest

\* A function from 1 .. k is a sequence of length k.
LEMMA LenOf ==
  ASSUME NEW k \in Nat, NEW f, f = [i \in 1 .. k |-> f[i]]
  PROVE  Len(f) = k
<1>1. f \in [1 .. k -> {f[i] : i \in 1 .. k}]
  OBVIOUS
<1> QED
  BY <1>1

LEMMA TotalZero ==
  ASSUME NEW c, NEW l \in Nat, \A k \in 1 .. l : c[k] = 0
  PROVE  Total(c, l) = 0
<1> DEFINE S == {i \in Nat : i <= l => Total(c, i) = 0}
<1>1. 0 \in S
  BY TotalFacts
<1>2. ASSUME NEW i \in Nat, i \in S
      PROVE  i + 1 \in S
  <2>1. CASE i + 1 <= l
    <3>1. Total(c, i + 1) = Total(c, i) + c[i + 1]
      BY TotalFacts
    <3>2. c[i + 1] = 0 /\ Total(c, i) = 0
      BY <1>2, <2>1
    <3> QED
      BY <3>1, <3>2
  <2>2. CASE ~ (i + 1 <= l)
    BY <2>2
  <2> QED
    BY <2>1, <2>2
<1> HIDE DEF S
<1>3. l \in S
  BY <1>1, <1>2, SetInduction
<1> QED
  BY <1>3 DEF S

\* ms describes k operands.
Describes(ms, k) ==
  /\ DOMAIN ms = 1 .. k /\ Len(ms) = k
  /\ \A i \in 1 .. k : ms[i].card \in Nat /\ ms[i].runs \in Nat /\ ms[i].cap \in Nat

\* The aggregate over k operands (KeyAggregate): its sums are sums, its count
\* that of the operands present, and it holds the largest of their slots.
LEMMA AggregateIs ==
  ASSUME NEW k \in Nat, NEW ms, Describes(ms, k)
  PROVE  /\ Aggregate(ms) \in UnionKey
         /\ Aggregate(ms).n = Cardinality(present(ms))
         /\ Aggregate(ms).sum_card = Total([i \in 1 .. k |-> ms[i].card], k)
         /\ Aggregate(ms).total_runs = Total([i \in 1 .. k |-> ms[i].runs], k)
         /\ Aggregate(ms).any_bitmap <=> \E i \in present(ms) : ms[i].typ = CT_BITMAP
         /\ \A i \in present(ms) : ms[i].cap <= Aggregate(ms).max_single
         /\ \A b \in Nat : (\A i \in present(ms) : ms[i].cap <= b) => Aggregate(ms).max_single <= b
         /\ present(ms) \in SUBSET (1 .. k)
         /\ IsFiniteSet(present(ms))
<1> DEFINE caps == {0} \cup {ms[i].cap : i \in present(ms)}
           cards == [i \in 1 .. k |-> ms[i].card]
           runs == [i \in 1 .. k |-> ms[i].runs]
           slots == [i \in 1 .. k |-> ms[i].cap]
<1>1. /\ DOMAIN ms = 1 .. k /\ Len(ms) = k
      /\ \A i \in 1 .. k : ms[i].card \in Nat /\ ms[i].runs \in Nat /\ ms[i].cap \in Nat
  BY DEF Describes
<1>2. present(ms) \in SUBSET (1 .. k)
  BY <1>1 DEF present
<1>3. IsFiniteSet(present(ms)) /\ Cardinality(present(ms)) \in Nat
  <2>1. IsFiniteSet(1 .. k)
    BY FS_Interval
  <2> QED
    BY <1>2, <2>1, FS_Subset, FS_CardinalityType
<1>4. TotalCard(ms) = Total(cards, k) /\ TotalRuns(ms) = Total(runs, k)
  BY <1>1 DEF TotalCard, TotalRuns, Each
<1>5. Total(cards, k) \in Nat /\ Total(runs, k) \in Nat
  <2>1. \A i \in 1 .. k : cards[i] \in Nat /\ runs[i] \in Nat
    BY <1>1
  <2> HIDE DEF cards, runs
  <2> QED
    BY <2>1, TotalNat
<1>6. Total(slots, k) \in Nat /\ \A i \in 1 .. k : slots[i] <= Total(slots, k)
  <2>1. \A i \in 1 .. k : slots[i] \in Nat
    BY <1>1
  <2> HIDE DEF slots
  <2> QED
    BY <2>1, TotalNat
<1>7. PICK t \in Nat : \A i \in 1 .. k : ms[i].cap <= t
  <2>1. \A i \in 1 .. k : slots[i] = ms[i].cap
    OBVIOUS
  <2> HIDE DEF slots
  <2> QED
    BY <1>6, <2>1
<1>8. caps \in SUBSET Nat /\ caps # {} /\ \A x \in caps : x <= t
  BY <1>1, <1>2, <1>7
<1>9. Greatest(caps) \in caps /\ \A y \in caps : y <= Greatest(caps)
  <2> HIDE DEF caps
  <2> QED
    BY <1>8, GreatestIs
<1>10. Greatest(caps) \in Nat
  BY <1>8, <1>9
<1>11. \A i \in present(ms) : ms[i].cap <= Greatest(caps)
  BY <1>9
<1>12. ASSUME NEW b \in Nat, \A i \in present(ms) : ms[i].cap <= b
       PROVE  Greatest(caps) <= b
  <2>1. \A x \in caps : x <= b
    BY <1>12
  <2> QED
    BY <1>9, <2>1
<1> HIDE DEF cards, runs, slots
<1>13. /\ Aggregate(ms).n = Cardinality(present(ms))
       /\ Aggregate(ms).sum_card = TotalCard(ms)
       /\ Aggregate(ms).total_runs = TotalRuns(ms)
       /\ Aggregate(ms).any_bitmap = \E i \in present(ms) : ms[i].typ = CT_BITMAP
       /\ Aggregate(ms).all_run = \A i \in present(ms) : ms[i].typ = CT_RUN
       /\ Aggregate(ms).max_single = Greatest(caps)
       /\ Aggregate(ms) = [ n |-> Aggregate(ms).n, sum_card |-> Aggregate(ms).sum_card,
                            total_runs |-> Aggregate(ms).total_runs,
                            any_bitmap |-> Aggregate(ms).any_bitmap,
                            all_run |-> Aggregate(ms).all_run,
                            max_single |-> Aggregate(ms).max_single ]
  BY DEF Aggregate
<1> HIDE DEF caps
<1>14. Aggregate(ms) \in UnionKey
  <2>1. /\ Aggregate(ms).n \in Nat /\ Aggregate(ms).sum_card \in Nat
        /\ Aggregate(ms).total_runs \in Nat /\ Aggregate(ms).max_single \in Nat
        /\ Aggregate(ms).any_bitmap \in BOOLEAN /\ Aggregate(ms).all_run \in BOOLEAN
    BY <1>3, <1>4, <1>5, <1>10, <1>13
  <2> QED
    BY <1>13, <2>1 DEF UnionKey
<1> QED
  BY <1>2, <1>3, <1>4, <1>11, <1>12, <1>13, <1>14 DEF cards, runs


----------------------------------------------------------------------------
\* Operands.
LEMMA LeafIs ==
  ASSUME LeavesAsBuilt, NEW c \in Leaves \cup WideLeaves
  PROVE  IsOperand(Leaf(c)) /\ AsBuilt(c.card, c.runs) /\ Leaf(c).c = c
<1>1. c \in [typ : {CT_ARRAY, CT_BITMAP, CT_RUN, CT_INLINE}, card : 1 .. KEYSPACE, runs : 0 .. MAX_RUNS]
  BY KeyFoldAssumption
<1>2. /\ c.typ = CT_ARRAY => c.card <= ARRAY_MAX_SIZE
      /\ IF c.typ = CT_RUN
         THEN c.runs >= 1 /\ c.runs <= c.card /\ c.runs + c.card <= KEYSPACE + 1
         ELSE c.runs = 0
  BY KeyFoldAssumption
<1>3. /\ c.typ = CT_INLINE => c.card <= ARRAY_MAX_SIZE
      /\ c.typ = CT_RUN => run_bytes(c.runs) <= 2 * c.card
  BY DEF LeavesAsBuilt
<1>4. c.card \in Nat /\ c.card > 0 /\ c.card <= KEYSPACE /\ c.runs \in Nat /\ c.runs <= MAX_RUNS
  BY <1>1, Sizes
<1>5. c \in Containers
  BY <1>1, <1>2, <1>3, <1>4, Sizes DEF Containers
<1>6. AsBuilt(c.card, c.runs)
  BY <1>2, <1>3, <1>4 DEF AsBuilt, run_bytes
<1>7. stored(c) \in Nat
  BY <1>5, StoredIs
<1>8. /\ Leaf(c).c = c /\ Leaf(c).leaf = TRUE
      /\ Leaf(c).s.cap = stored(c) /\ Leaf(c).s.card = c.card /\ Leaf(c).s.runs = c.runs
  BY DEF Leaf
<1>9. IsShape(Leaf(c).s) /\ Covers(Leaf(c).s, c)
  BY <1>4, <1>6, <1>7, <1>8 DEF IsShape, Covers
<1> QED
  BY <1>5, <1>6, <1>8, <1>9 DEF IsOperand

LEMMA AbsentIs ==
  /\ Absent \in Containers /\ Absent.card = 0 /\ Absent.runs = 0 /\ Absent.typ = UNSEEDED
  /\ IsShape(NoShape) /\ NoShape.card = 0 /\ NoShape.cap = 0
  /\ IsOperand(NoOperand) /\ NoOperand.c = Absent /\ NoOperand.s = NoShape
<1>1. Absent \in Containers
  BY Sizes DEF Absent, Containers
<1>2. IsShape(NoShape)
  BY DEF IsShape, NoShape
<1>3. Covers(NoShape, Absent)
  BY DEF Covers, NoShape, Absent, AsBuilt
<1>4. NoOperand.c = Absent /\ NoOperand.s = NoShape /\ NoOperand.leaf = FALSE
  BY DEF NoOperand
<1> QED
  BY <1>1, <1>2, <1>3, <1>4 DEF Absent, NoShape, IsOperand

\* ins is k operands.
Given(ins, k) ==
  /\ k \in Nat /\ k >= 1 /\ ins = [i \in 1 .. k |-> ins[i]]
  /\ \A i \in 1 .. k : IsOperand(ins[i])

LEMMA GivenIs ==
  ASSUME NEW k, NEW ins, Given(ins, k)
  PROVE  \A i \in 1 .. k :
           /\ ins[i].c \in Containers
           /\ ins[i].c.card \in Nat /\ ins[i].c.runs \in Nat /\ stored(ins[i].c) \in Nat
           /\ stored(ins[i].c) <= BITMAP_BYTES
           /\ ins[i].s.card \in Nat /\ ins[i].s.cap \in Nat /\ ins[i].s.runs \in Nat
           /\ ins[i].c.card <= ins[i].s.card
           /\ ins[i].c.card > 0 => stored(ins[i].c) <= ins[i].s.cap
           /\ ins[i].s.cap < BITMAP_BYTES => AsBuilt(ins[i].c.card, ins[i].c.runs)
           /\ ins[i].leaf => AsBuilt(ins[i].s.card, ins[i].s.runs)
           /\ ins[i].c.typ = CT_BITMAP => stored(ins[i].c) = BITMAP_BYTES
           /\ ins[i].c.card = 0 => ins[i].c.runs = 0
<1> SUFFICES ASSUME NEW i \in 1 .. k
             PROVE  /\ ins[i].c \in Containers
                    /\ ins[i].c.card \in Nat /\ ins[i].c.runs \in Nat /\ stored(ins[i].c) \in Nat
                    /\ stored(ins[i].c) <= BITMAP_BYTES
                    /\ ins[i].s.card \in Nat /\ ins[i].s.cap \in Nat /\ ins[i].s.runs \in Nat
                    /\ ins[i].c.card <= ins[i].s.card
                    /\ ins[i].c.card > 0 => stored(ins[i].c) <= ins[i].s.cap
                    /\ ins[i].s.cap < BITMAP_BYTES => AsBuilt(ins[i].c.card, ins[i].c.runs)
                    /\ ins[i].leaf => AsBuilt(ins[i].s.card, ins[i].s.runs)
                    /\ ins[i].c.typ = CT_BITMAP => stored(ins[i].c) = BITMAP_BYTES
                    /\ ins[i].c.card = 0 => ins[i].c.runs = 0
  OBVIOUS
<1>1. IsOperand(ins[i])
  BY DEF Given
<1>2. PICK c : c = ins[i].c /\ c \in Containers
  BY <1>1 DEF IsOperand
<1>3. /\ c.card \in Nat /\ c.runs \in Nat /\ stored(c) \in Nat /\ stored(c) <= BITMAP_BYTES
      /\ c.typ = CT_BITMAP => stored(c) = BITMAP_BYTES
      /\ c.card = 0 => c.runs = 0
  BY <1>2, StoredIs, Sizes
<1> QED
  BY <1>1, <1>2, <1>3 DEF IsOperand, IsShape, Covers

LEMMA ContentsIs ==
  ASSUME NEW k, NEW ins, Given(ins, k)
  PROVE  /\ Contents(ins) \in Seq(Containers) /\ Len(Contents(ins)) = k
         /\ \A i \in 1 .. k : Contents(ins)[i] = ins[i].c
         /\ TotalCard(Contents(ins)) = Total([i \in 1 .. k |-> ins[i].c.card], k)
<1>1. Contents(ins) = [i \in 1 .. k |-> ins[i].c]
  BY DEF Contents, Each, Given
<1>2. Contents(ins) \in [1 .. k -> Containers] /\ k \in Nat
  <2>1. \A i \in 1 .. k : ins[i].c \in Containers
    BY GivenIs
  <2> QED
    BY <1>1, <2>1 DEF Given
<1>3. Contents(ins) \in Seq(Containers) /\ Len(Contents(ins)) = k
  BY <1>2
<1>4. TotalCard(Contents(ins)) = Total([i \in 1 .. k |-> ins[i].c.card], k)
  <2>1. [i \in DOMAIN Contents(ins) |-> Contents(ins)[i].card] = [i \in 1 .. k |-> ins[i].c.card]
    BY <1>1
  <2> QED
    BY <1>3, <2>1 DEF TotalCard, Each
<1> QED
  BY <1>1, <1>3, <1>4

LEMMA GuessesAre ==
  ASSUME NEW k, NEW ins, Given(ins, k)
  PROVE  /\ Describes(Each(Guess, ins), k)
         /\ \A i \in 1 .. k : Each(Guess, ins)[i] = ins[i].s
<1>1. Each(Guess, ins) = [i \in 1 .. k |-> ins[i].s]
  BY DEF Guess, Each, Given
<1>2. k \in Nat
  BY DEF Given
<1>3. PICK ms : ms = Each(Guess, ins)
  OBVIOUS
<1>4. ms = [i \in 1 .. k |-> ms[i]] /\ \A i \in 1 .. k : ms[i] = ins[i].s
  BY <1>1, <1>3
<1>5. DOMAIN ms = 1 .. k
  BY <1>4
<1>6. Len(ms) = k
  BY <1>2, <1>4, LenOf
<1>7. Describes(ms, k)
  <2>1. \A i \in 1 .. k : ins[i].s.card \in Nat /\ ins[i].s.runs \in Nat /\ ins[i].s.cap \in Nat
    BY GivenIs
  <2> QED
    BY <1>4, <1>5, <1>6, <2>1 DEF Describes
<1> QED
  BY <1>3, <1>4, <1>7

LEMMA FactsAre ==
  ASSUME NEW k, NEW ins, Given(ins, k)
  PROVE  /\ Describes(Each(Fact, ins), k)
         /\ \A i \in 1 .. k : Each(Fact, ins)[i] = Fact(ins[i])
<1>1. Each(Fact, ins) = [i \in 1 .. k |-> Fact(ins[i])]
  BY DEF Each, Given
<1>2. k \in Nat
  BY DEF Given
<1>3. PICK ms : ms = Each(Fact, ins)
  OBVIOUS
<1>4. ms = [i \in 1 .. k |-> ms[i]] /\ \A i \in 1 .. k : ms[i] = Fact(ins[i])
  BY <1>1, <1>3
<1>5. DOMAIN ms = 1 .. k
  BY <1>4
<1>6. Len(ms) = k
  BY <1>2, <1>4, LenOf
<1>7. Describes(ms, k)
  <2>1. \A i \in 1 .. k : ins[i].c.card \in Nat /\ ins[i].c.runs \in Nat /\ stored(ins[i].c) \in Nat
    BY GivenIs
  <2>2. \A i \in 1 .. k : /\ Fact(ins[i]).card = ins[i].c.card /\ Fact(ins[i]).runs = ins[i].c.runs
                          /\ Fact(ins[i]).cap = stored(ins[i].c)
    BY DEF Fact
  <2> QED
    BY ZenonT(60), <1>4, <1>5, <1>6, <2>1, <2>2 DEF Describes
<1> QED
  BY <1>3, <1>4, <1>7


----------------------------------------------------------------------------
\* What the planners promise.
LEMMA ShrinkMonotone ==
  ASSUME NEW x \in Nat, NEW y \in Nat, x <= y
  PROVE  shrink_cap(x) \in Nat /\ shrink_cap(x) <= shrink_cap(y) /\ shrink_cap(x) <= BITMAP_BYTES
BY Sizes DEF shrink_cap

LEMMA MinCardIs ==
  ASSUME NEW k \in Nat, k >= 1, NEW ms, Describes(ms, k)
  PROVE  MinCard(ms) \in Nat /\ \E i \in 1 .. k : ms[i].card = MinCard(ms)
<1> DEFINE S == {ms[i].card : i \in DOMAIN ms}
<1>1. S \in SUBSET Nat /\ DOMAIN ms = 1 .. k
  BY DEF Describes
<1>2. S # {}
  <2>1. ms[1].card \in S
    BY <1>1
  <2> QED
    BY <2>1
<1>3. Least(S) \in S
  <2> HIDE DEF S
  <2> QED
    BY <1>1, <1>2, LeastIs
<1>4. MinCard(ms) = Least(S)
  BY DEF MinCard
<1> QED
  BY <1>1, <1>3, <1>4

\* A shrinking slot smaller than a bitmap's holds an array of what it is for.
LEMMA ShrunkFits ==
  ASSUME NEW x \in Nat, NEW y \in Nat, x <= y, Tight(shrink_cap(y))
  PROVE  Fits(shrink_cap(y), x)
BY Sizes DEF shrink_cap, Tight, Fits

LEMMA IntersectPlan ==
  ASSUME NEW k, NEW ins, Given(ins, k), NEW ms, Describes(ms, k),
         \A i \in 1 .. k : ins[i].c.card <= ms[i].card, NEW sh,
         sh.card > 0 => sh.card = MinCard(ms)
  PROVE  Promised("Intersect", shrink_cap(MinCard(ms)), sh, Contents(ins))
<1> DEFINE cp == shrink_cap(MinCard(ms))
           td == Contents(ins)
<1>1. k \in Nat /\ k >= 1
  BY DEF Given
<1>2. PICK i \in 1 .. k : ms[i].card = MinCard(ms) /\ MinCard(ms) \in Nat
  BY <1>1, MinCardIs
<1>3. Len(td) = k /\ td[i] = ins[i].c
  BY ContentsIs
<1>4. td[i].card \in Nat /\ td[i].card <= MinCard(ms)
  <2>1. ins[i].c.card \in Nat /\ ins[i].c.card <= ms[i].card
    BY GivenIs
  <2> QED
    BY <1>2, <1>3, <2>1
<1> HIDE DEF td
<1>5. Tight(cp) => Fits(cp, td[i].card)
  BY <1>2, <1>4, ShrunkFits
<1>6. sh.card > 0 => td[i].card <= sh.card
  BY <1>4
<1>7. i \in 1 .. Len(td)
  BY <1>3
<1> HIDE DEF cp
<1>8. Promised("Intersect", cp, sh, td)
  BY <1>5, <1>6, <1>7 DEF Promised
<1> QED
  BY <1>8 DEF cp, td

LEMMA UnionPlan ==
  ASSUME NEW k, NEW ins, Given(ins, k), NEW ms, Describes(ms, k),
         \A i \in 1 .. k : ins[i].c.card <= ms[i].card, NEW fanin
  PROVE  /\ union_choice(Aggregate(ms), fanin).cap \in Nat
         /\ TotalCard(Contents(ins)) <= Aggregate(ms).sum_card
         /\ Tight(union_choice(Aggregate(ms), fanin).cap) =>
              Fits(union_choice(Aggregate(ms), fanin).cap, TotalCard(Contents(ins)))
<1> DEFINE cards == [i \in 1 .. k |-> ins[i].c.card]
           upper == [i \in 1 .. k |-> ms[i].card]
<1>1. k \in Nat
  BY DEF Given
<1>2. PICK g : g = Aggregate(ms) /\ g \in UnionKey /\ g.sum_card = Total(upper, k)
  BY <1>1, AggregateIs
<1>3. PICK cp : cp = union_choice(g, fanin).cap
  OBVIOUS
<1>4. cp \in Nat
  <2>1. g.sum_card \in Nat /\ g.total_runs \in Nat /\ g.max_single \in Nat
    BY <1>2 DEF UnionKey
  <2>2. array_cap(g) \in Nat
    BY <2>1 DEF array_cap, Larger, run_bytes
  <2> QED
    BY <1>3, <2>2, Sizes DEF union_choice
<1>5. cp < BITMAP_BYTES => g.sum_card <= ARRAY_MAX_SIZE /\ 2 * g.sum_card <= cp
  BY <1>2, <1>3, UnionSlotHolds
<1>6. TotalCard(Contents(ins)) = Total(cards, k)
  BY ContentsIs
<1>7. \A i \in 1 .. k : cards[i] \in Nat /\ upper[i] \in Nat /\ cards[i] <= upper[i]
  <2>1. \A i \in 1 .. k : ins[i].c.card \in Nat /\ ms[i].card \in Nat
    BY GivenIs DEF Describes
  <2> QED
    BY <2>1
<1> HIDE DEF cards, upper
<1>8. Total(cards, k) \in Nat /\ Total(cards, k) <= Total(upper, k) /\ Total(upper, k) \in Nat
  BY <1>1, <1>7, TotalLeq, TotalNat
<1>9. TotalCard(Contents(ins)) \in Nat /\ TotalCard(Contents(ins)) <= g.sum_card /\ g.sum_card \in Nat
  BY <1>2, <1>6, <1>8
<1>10. Tight(cp) => Fits(cp, TotalCard(Contents(ins)))
  BY <1>4, <1>5, <1>9, Sizes DEF Tight, Fits
<1> QED
  BY <1>2, <1>3, <1>4, <1>9, <1>10

LEMMA UnionPromise ==
  ASSUME NEW k, NEW ins, Given(ins, k), NEW cp, NEW sh,
         Tight(cp) => Fits(cp, TotalCard(Contents(ins))),
         sh.card > 0 => TotalCard(Contents(ins)) <= sh.card
  PROVE  Promised("Union", cp, sh, Contents(ins))
BY DEF Promised

\* The left side of a difference, copied or shrunk.
LEMMA DiffPlan ==
  ASSUME NEW k, NEW ins, Given(ins, k), NEW cp \in Nat, NEW sh,
         ins[1].c.card > 0 => stored(ins[1].c) <= cp \/ AnyAfter(Contents(ins)),
         AnyAfter(Contents(ins)) => shrink_cap(ins[1].c.card) <= cp,
         Tight(cp) => AsBuilt(ins[1].c.card, ins[1].c.runs),
         sh.card > 0 => ins[1].c.card <= sh.card
  PROVE  Promised("Diff", cp, sh, Contents(ins))
<1>1. Contents(ins)[1] = ins[1].c
  <2>1. 1 \in 1 .. k
    BY DEF Given
  <2> QED
    BY ZenonT(60), <2>1, ContentsIs
<1> QED
  BY <1>1 DEF Promised


LEMMA RunBoundIs ==
  ASSUME NEW k \in Nat, k >= 1, NEW ms, Describes(ms, k), ms = [i \in 1 .. k |-> ms[i]]
  PROVE  diff_run_bound(ms) \in Nat
<1> DEFINE T == {ms[i] : i \in 1 .. k}
           d == [i \in DOMAIN Tail(ms) |-> splits_into(Tail(ms)[i])]
<1>1. ms \in [1 .. k -> T]
  OBVIOUS
<1> HIDE DEF T
<1>2. ms \in Seq(T) /\ Len(ms) = k /\ ms # << >>
  <2>1. ms \in Seq(T)
    BY <1>1
  <2>2. Len(ms) = k
    BY LenOf
  <2> QED
    BY <2>1, <2>2
<1>3. /\ DOMAIN Tail(ms) = 1 .. k - 1
      /\ \A i \in 1 .. k - 1 : Tail(ms)[i] = ms[i + 1]
  BY <1>2
<1>4. \A i \in 1 .. k : splits_into(ms[i]) \in Nat /\ ms[i].runs \in Nat
  BY DEF Describes, splits_into
<1>5. \A i \in 1 .. k - 1 : d[i] \in Nat
  <2>1. ASSUME NEW i \in 1 .. k - 1
        PROVE  d[i] \in Nat
    <3>1. i + 1 \in 1 .. k
      OBVIOUS
    <3>2. d[i] = splits_into(ms[i + 1])
      BY <1>3
    <3> QED
      BY <1>4, <3>1, <3>2
  <2> QED
    BY <2>1
<1>6. diff_run_bound(ms) = ms[1].runs + Total(d, k - 1)
  BY <1>2 DEF diff_run_bound, Each
<1> HIDE DEF d
<1>7. Total(d, k - 1) \in Nat
  BY <1>5, TotalNat
<1>8. ms[1].runs \in Nat
  BY <1>4
<1> QED
  BY <1>6, <1>7, <1>8

LEMMA DiffShapeIs ==
  ASSUME NEW k \in Nat, k >= 1, NEW ms, Describes(ms, k), ms = [i \in 1 .. k |-> ms[i]]
  PROVE  /\ IsShape(diff_shape(ms)) /\ diff_shape(ms).card = ms[1].card
         /\ ms[1].cap <= diff_shape(ms).cap
         /\ (\E i \in 2 .. k : ms[i].card > 0) => shrink_cap(ms[1].card) <= diff_shape(ms).cap
<1> DEFINE rhs == \E i \in 2 .. Len(ms) : ms[i].card > 0
           c == diff_choice(ms[1], rhs, Splittable(ms), diff_run_bound(ms))
<1>1. Len(ms) = k /\ ms[1].card \in Nat /\ ms[1].runs \in Nat /\ ms[1].cap \in Nat
  BY DEF Describes
<1>2. diff_shape(ms) = [typ |-> c.typ, cap |-> c.cap, card |-> ms[1].card, runs |-> c.runs]
  BY DEF diff_shape
<1>3. PICK s : s = shrink_cap(ms[1].card) /\ s \in Nat
  BY <1>1, ShrinkCapHolds
<1>4. c.cap = IF ~ rhs \/ ms[1].cap >= s THEN ms[1].cap ELSE s
  BY <1>3 DEF diff_choice, diff_cap
<1>5. diff_run_bound(ms) \in Nat
  BY RunBoundIs
<1>6. c.runs \in {ms[1].runs, diff_run_bound(ms), 0}
  BY DEF diff_choice
<1> HIDE DEF c, rhs
<1>7. c.cap \in Nat /\ c.runs \in Nat /\ ms[1].cap <= c.cap /\ (rhs => s <= c.cap)
  BY <1>1, <1>3, <1>4, <1>5, <1>6
<1>8. rhs <=> \E i \in 2 .. k : ms[i].card > 0
  BY <1>1 DEF rhs
<1> QED
  BY <1>1, <1>2, <1>3, <1>7, <1>8 DEF IsShape

LEMMA IntersectShapeIs ==
  ASSUME NEW k \in Nat, k >= 1, NEW ms, Describes(ms, k)
  PROVE  /\ IsShape(intersect_shape(ms)) /\ intersect_shape(ms).card = MinCard(ms)
         /\ intersect_shape(ms).cap = shrink_cap(MinCard(ms))
<1>1. MinCard(ms) \in Nat
  BY MinCardIs
<1>2. shrink_cap(MinCard(ms)) \in Nat
  BY <1>1, ShrinkMonotone
<1>3. Aggregate(ms).total_runs \in Nat
  BY AggregateIs DEF UnionKey
<1>4. /\ intersect_shape(ms).card = MinCard(ms)
      /\ intersect_shape(ms).cap = shrink_cap(MinCard(ms))
      /\ intersect_shape(ms).runs \in {Aggregate(ms).total_runs, 0}
  BY DEF intersect_shape, intersect_choice
<1> QED
  BY <1>1, <1>2, <1>3, <1>4 DEF IsShape

LEMMA UnionShapeIs ==
  ASSUME NEW k \in Nat, k >= 1, NEW ms, Describes(ms, k),
         union_choice(Aggregate(ms), "Interior").cap \in Nat
  PROVE  /\ IsShape(union_shape(ms)) /\ union_shape(ms).card = Aggregate(ms).sum_card
         /\ union_shape(ms).cap = union_choice(Aggregate(ms), "Interior").cap
<1>1. PICK g : g = Aggregate(ms) /\ g \in UnionKey
  BY AggregateIs
<1>2. g.sum_card \in Nat /\ g.total_runs \in Nat
  BY <1>1 DEF UnionKey
<1>3. /\ union_shape(ms).card = g.sum_card
      /\ union_shape(ms).cap = union_choice(g, "Interior").cap
      /\ union_shape(ms).runs = union_choice(g, "Interior").runs
  BY <1>1 DEF union_shape
<1>4. union_choice(g, "Interior").runs \in {0, g.total_runs}
  BY DEF union_choice
<1> QED
  BY <1>1, <1>2, <1>3, <1>4 DEF IsShape

\* A flat plan, or one with every slot a bitmap's (plan_trivial).
LEMMA FlatPlan ==
  ASSUME NEW k, NEW ins, Given(ins, k), \A i \in 1 .. k : AsBuilt(ins[i].c.card, ins[i].c.runs),
         NEW o \in {"Union", "Intersect", "Diff"}, NEW cp,
         cp = flat_cap(o, ins) \/ (o # "Union" /\ cp = BITMAP_BYTES)
  PROVE  IsPlan(o, cp, NoShape) /\ Promised(o, cp, NoShape, Contents(ins))
<1>1. PICK ms : ms = Each(Fact, ins)
  OBVIOUS
<1>2. Describes(ms, k) /\ \A i \in 1 .. k : ms[i] = Fact(ins[i])
  BY <1>1, FactsAre
<1>3. \A i \in 1 .. k : ins[i].c.card <= ms[i].card
  <2>1. \A i \in 1 .. k : Fact(ins[i]).card = ins[i].c.card /\ ins[i].c.card \in Nat
    BY GivenIs DEF Fact
  <2> QED
    BY <1>2, <2>1
<1>4. k \in Nat /\ k >= 1 /\ 1 \in 1 .. k
  BY DEF Given
<1>5. NoShape.card = 0 /\ IsShape(NoShape)
  BY AbsentIs
<1>6. ASSUME cp \in Nat
      PROVE  IsPlan(o, cp, NoShape)
  BY <1>5, <1>6 DEF IsPlan
<1>7. PICK l : l = ins[1].c
  OBVIOUS
<1>8. l.card \in Nat /\ stored(l) \in Nat /\ stored(l) <= BITMAP_BYTES /\ AsBuilt(l.card, l.runs)
  BY <1>4, <1>7, GivenIs
<1>9. CASE o = "Intersect" /\ cp = flat_cap(o, ins)
  <2>1. cp = shrink_cap(MinCard(ms))
    BY <1>1, <1>9 DEF flat_cap
  <2>2. cp \in Nat
    BY <1>2, <1>4, <2>1, MinCardIs, ShrinkMonotone
  <2>3. Promised("Intersect", cp, NoShape, Contents(ins))
    BY <1>2, <1>3, <1>5, <2>1, IntersectPlan
  <2> QED
    BY <1>6, <1>9, <2>2, <2>3
<1>10. CASE o = "Union"
  <2>1. cp = union_choice(Aggregate(ms), "Flat").cap
    BY <1>1, <1>10 DEF flat_cap
  <2>2. cp \in Nat /\ (Tight(cp) => Fits(cp, TotalCard(Contents(ins))))
    BY <1>2, <1>3, <2>1, UnionPlan
  <2>3. Promised("Union", cp, NoShape, Contents(ins))
    BY <1>5, <2>2, UnionPromise
  <2> QED
    BY <1>6, <1>10, <2>2, <2>3
<1>11. CASE o = "Diff" /\ cp = flat_cap(o, ins)
  <2> DEFINE rhs == \E i \in 2 .. Len(ms) : ms[i].card > 0
  <2>1. cp = diff_cap(ms[1].card, ms[1].cap, rhs)
    BY <1>1, <1>11 DEF flat_cap
  <2>2. ms[1].card = l.card /\ ms[1].cap = stored(l)
    <3>1. ms[1] = Fact(ins[1])
      BY <1>2, <1>4
    <3> QED
      BY <1>7, <3>1 DEF Fact
  <2>3. rhs <=> AnyAfter(Contents(ins))
    <3>1. Len(ms) = k /\ Len(Contents(ins)) = k
      BY <1>2, ContentsIs DEF Describes
    <3>2. ASSUME NEW i \in 2 .. k
          PROVE  ms[i].card = Contents(ins)[i].card
      <4>1. i \in 1 .. k
        BY <1>4
      <4>2. Contents(ins)[i] = ins[i].c /\ ms[i].card = ins[i].c.card
        <5>1. Contents(ins)[i] = ins[i].c /\ ms[i] = Fact(ins[i])
          BY <1>2, <4>1, ContentsIs
        <5> QED
          BY <5>1 DEF Fact
      <4> QED
        BY <4>2
    <3> QED
      BY <3>1, <3>2 DEF AnyAfter
  <2>4. cp = IF rhs THEN shrink_cap(l.card) ELSE stored(l)
    BY <2>1, <2>2 DEF diff_cap
  <2> HIDE DEF rhs
  <2>5. cp \in Nat
    BY <1>8, <2>4, ShrinkMonotone
  <2>6. stored(l) <= cp \/ AnyAfter(Contents(ins))
    BY <1>8, <2>3, <2>4
  <2>7. AnyAfter(Contents(ins)) => shrink_cap(l.card) <= cp
    BY <1>8, <2>3, <2>4, ShrinkMonotone
  <2>8. Promised("Diff", cp, NoShape, Contents(ins))
    BY <1>5, <1>7, <1>8, <2>5, <2>6, <2>7, DiffPlan
  <2> QED
    BY <1>6, <1>11, <2>5, <2>8
<1>12. CASE o # "Union" /\ cp = BITMAP_BYTES
  <2>1. cp \in Nat /\ ~ Tight(cp)
    BY <1>12, Sizes DEF Tight
  <2>2. shrink_cap(l.card) <= cp
    BY <1>8, <1>12, ShrinkMonotone
  <2>3. Promised("Diff", cp, NoShape, Contents(ins))
    BY <1>5, <1>7, <1>8, <1>12, <2>1, <2>2, DiffPlan
  <2>4. Promised("Intersect", cp, NoShape, Contents(ins))
    BY <1>5, <2>1 DEF Promised
  <2> QED
    BY <1>6, <1>12, <2>1, <2>3, <2>4
<1> QED
  BY <1>9, <1>10, <1>11, <1>12

\* A tree's plan, from shapes.
LEMMA TreePlan ==
  ASSUME NEW k, NEW ins, Given(ins, k), NEW o \in {"Union", "Intersect", "Diff"},
         NEW sh, sh = shape_of(o, ins)
  PROVE  IsPlan(o, sh.cap, sh) /\ Promised(o, sh.cap, sh, Contents(ins))
<1>1. PICK ms : ms = Each(Guess, ins)
  OBVIOUS
<1>2. Describes(ms, k) /\ \A i \in 1 .. k : ms[i] = ins[i].s
  BY <1>1, GuessesAre
<1>3. \A i \in 1 .. k : ins[i].c.card <= ms[i].card
  BY <1>2, GivenIs
<1>4. k \in Nat /\ k >= 1 /\ 1 \in 1 .. k
  BY DEF Given
<1>5. ASSUME IsShape(sh)
      PROVE  IsPlan(o, sh.cap, sh)
  BY <1>5 DEF IsPlan, IsShape
<1>6. CASE o = "Intersect"
  <2>1. sh = intersect_shape(ms)
    BY <1>1, <1>6 DEF shape_of
  <2>2. IsShape(sh) /\ sh.card = MinCard(ms) /\ sh.cap = shrink_cap(MinCard(ms))
    BY <1>2, <1>4, <2>1, IntersectShapeIs
  <2>3. Promised("Intersect", sh.cap, sh, Contents(ins))
    BY <1>2, <1>3, <2>2, IntersectPlan
  <2> QED
    BY <1>5, <1>6, <2>2, <2>3
<1>7. CASE o = "Union"
  <2>1. sh = union_shape(ms)
    BY <1>1, <1>7 DEF shape_of
  <2>2. PICK cp : cp = union_choice(Aggregate(ms), "Interior").cap
    OBVIOUS
  <2>3. /\ cp \in Nat
        /\ TotalCard(Contents(ins)) <= Aggregate(ms).sum_card
        /\ Tight(cp) => Fits(cp, TotalCard(Contents(ins)))
    BY <1>2, <1>3, <2>2, UnionPlan
  <2>4. IsShape(sh) /\ sh.card = Aggregate(ms).sum_card /\ sh.cap = cp
    BY <1>2, <1>4, <2>1, <2>2, <2>3, UnionShapeIs
  <2>5. Promised("Union", sh.cap, sh, Contents(ins))
    BY <2>3, <2>4, UnionPromise
  <2> QED
    BY <1>5, <1>7, <2>4, <2>5
<1>8. CASE o = "Diff"
  <2>1. sh = diff_shape(ms)
    BY <1>1, <1>8 DEF shape_of
  <2>2. ms = [i \in 1 .. k |-> ms[i]]
    BY <1>1 DEF Each, Guess, Given
  <2>3. PICK l : l = ins[1]
    OBVIOUS
  <2>4. /\ l.c.card \in Nat /\ stored(l.c) \in Nat /\ l.s.card \in Nat /\ l.s.cap \in Nat
        /\ l.c.card <= l.s.card
        /\ l.c.card > 0 => stored(l.c) <= l.s.cap
        /\ l.s.cap < BITMAP_BYTES => AsBuilt(l.c.card, l.c.runs)
    BY <1>4, <2>3, GivenIs
  <2>5. ms[1] = l.s
    BY <1>2, <1>4, <2>3
  <2>6. /\ IsShape(sh) /\ sh.card = l.s.card /\ l.s.cap <= sh.cap
        /\ (\E i \in 2 .. k : ms[i].card > 0) => shrink_cap(l.s.card) <= sh.cap
    BY <1>2, <1>4, <2>1, <2>2, <2>5, DiffShapeIs
  <2>7. sh.cap \in Nat /\ sh.card \in Nat
    BY <2>6 DEF IsShape
  <2>8. l.c.card > 0 => stored(l.c) <= sh.cap
    BY <2>4, <2>6, <2>7
  <2>9. ASSUME AnyAfter(Contents(ins))
        PROVE  shrink_cap(l.c.card) <= sh.cap
    <3>1. PICK i \in 2 .. k : Contents(ins)[i].card > 0
      BY <2>9, ContentsIs DEF AnyAfter
    <3>2. i \in 1 .. k /\ Contents(ins)[i] = ins[i].c
      <4>1. i \in 1 .. k
        BY <1>4
      <4> QED
        BY <4>1, ContentsIs
    <3>3. ins[i].c.card \in Nat /\ ms[i].card \in Nat /\ ins[i].c.card <= ms[i].card
      BY <1>2, <1>3, <3>2, GivenIs DEF Describes
    <3>4. ms[i].card > 0
      BY <3>1, <3>2, <3>3
    <3>5. shrink_cap(l.s.card) <= sh.cap
      BY <2>6, <3>4
    <3>6. shrink_cap(l.c.card) \in Nat /\ shrink_cap(l.c.card) <= shrink_cap(l.s.card)
          /\ shrink_cap(l.s.card) \in Nat
      BY <2>4, ShrinkMonotone
    <3> QED
      BY <2>7, <3>5, <3>6
  <2>10. Tight(sh.cap) => AsBuilt(l.c.card, l.c.runs)
    BY <2>4, <2>6, <2>7, Sizes DEF Tight
  <2>11. Promised("Diff", sh.cap, sh, Contents(ins))
    BY <2>3, <2>4, <2>6, <2>7, <2>8, <2>9, <2>10, DiffPlan
  <2> QED
    BY <1>5, <1>8, <2>6, <2>11
<1> QED
  BY <1>6, <1>7, <1>8


LEMMA PromotesMonotone ==
  ASSUME NEW i \in Nat, NEW j \in Nat, i <= j, NEW x \in Nat, NEW y \in Nat, x <= y,
         union_promotes_interior(i, x)
  PROVE  union_promotes_interior(j, y)
<1>1. i >= 4 /\ x * (i - 3) > 1000
  BY DEF union_promotes_interior
<1>2. PICK a \in Nat, b \in Nat : a = i - 3 /\ b = j - 3 /\ a <= b
  BY <1>1
<1>3. x * a <= y * a /\ x * a \in Nat /\ y * a \in Nat
  BY <1>2
<1>4. y * a <= y * b /\ y * b \in Nat
  BY <1>2
<1>5. y * b > 1000
  BY <1>1, <1>2, <1>3, <1>4
<1> QED
  BY <1>1, <1>2, <1>5 DEF union_promotes_interior

\* A union planned again from what its operands turned out to be gets no more
\* than it was predicted, when that was less than a bitmap.
LEMMA ObservedNoLarger ==
  ASSUME NEW k \in Nat, NEW ms, Describes(ms, k), NEW obs, Describes(obs, k),
         \A i \in 1 .. k :
           /\ obs[i].card <= ms[i].card
           /\ obs[i].card > 0 => obs[i].cap <= ms[i].cap
           /\ obs[i].card = 0 \/ ms[i].cap < BITMAP_BYTES => AsBuilt(obs[i].card, obs[i].runs)
           /\ obs[i].card > 0 /\ obs[i].typ = CT_BITMAP /\ ms[i].cap < BITMAP_BYTES =>
                ms[i].typ = CT_BITMAP,
         union_choice(Aggregate(ms), "Interior").cap < BITMAP_BYTES
  PROVE  union_choice(Aggregate(obs), "Interior").cap <= union_choice(Aggregate(ms), "Interior").cap
<1> DEFINE f == "Interior"
           ocards == [i \in 1 .. k |-> obs[i].card]
           oruns == [i \in 1 .. k |-> obs[i].runs]
           mcards == [i \in 1 .. k |-> ms[i].card]
<1>1. \A i \in 1 .. k : /\ obs[i].card \in Nat /\ obs[i].runs \in Nat /\ obs[i].cap \in Nat
                        /\ ms[i].card \in Nat /\ ms[i].runs \in Nat /\ ms[i].cap \in Nat
  BY DEF Describes
<1>2. PICK w : /\ w = Aggregate(ms) /\ w \in UnionKey
               /\ w.n = Cardinality(present(ms)) /\ w.sum_card = Total(mcards, k)
               /\ w.any_bitmap <=> \E i \in present(ms) : ms[i].typ = CT_BITMAP
               /\ \A i \in present(ms) : ms[i].cap <= w.max_single
               /\ present(ms) \in SUBSET (1 .. k) /\ IsFiniteSet(present(ms))
  BY AggregateIs
<1>3. PICK g : /\ g = Aggregate(obs) /\ g \in UnionKey
               /\ g.n = Cardinality(present(obs)) /\ g.sum_card = Total(ocards, k)
               /\ g.total_runs = Total(oruns, k)
               /\ g.any_bitmap <=> \E i \in present(obs) : obs[i].typ = CT_BITMAP
               /\ \A b \in Nat : (\A i \in present(obs) : obs[i].cap <= b) => g.max_single <= b
               /\ present(obs) \in SUBSET (1 .. k)
  BY AggregateIs
<1>4. /\ w.n \in Nat /\ w.sum_card \in Nat /\ w.total_runs \in Nat /\ w.max_single \in Nat
      /\ g.n \in Nat /\ g.sum_card \in Nat /\ g.total_runs \in Nat /\ g.max_single \in Nat
  BY <1>2, <1>3 DEF UnionKey
<1>5. ~ needs_bitmap(w, f) /\ union_choice(w, f).cap = array_cap(w)
  BY <1>2, Sizes DEF union_choice
<1>6. /\ ~ w.any_bitmap /\ w.sum_card <= 4096
      /\ ~ union_promotes_interior(w.n, w.sum_card)
  BY <1>4, <1>5, Sizes DEF needs_bitmap, UNION_DENSE_CARD, promotes
<1>7. /\ array_cap(w) \in Nat /\ w.max_single <= array_cap(w) /\ 2 * w.sum_card <= array_cap(w)
      /\ 2 <= array_cap(w)
  BY <1>4 DEF array_cap, Larger, run_bytes
<1>8. w.max_single < BITMAP_BYTES
  BY <1>2, <1>4, <1>5, <1>7, Sizes
<1>9. ASSUME NEW i \in present(obs)
      PROVE  /\ i \in present(ms) /\ i \in 1 .. k /\ obs[i].card > 0
             /\ ms[i].cap <= w.max_single /\ ms[i].cap < BITMAP_BYTES
  <2>1. i \in 1 .. k /\ obs[i].card > 0
    BY <1>3 DEF present
  <2>2. ms[i].card > 0 /\ DOMAIN ms = 1 .. k
    BY <1>1, <2>1 DEF Describes
  <2>3. i \in present(ms)
    BY <2>1, <2>2 DEF present
  <2>4. ms[i].cap <= w.max_single /\ ms[i].cap \in Nat
    BY <1>1, <1>2, <2>1, <2>3
  <2> QED
    BY <1>4, <1>8, <2>1, <2>3, <2>4, Sizes
<1>10. ~ g.any_bitmap
  <2>1. ASSUME NEW i \in present(obs), obs[i].typ = CT_BITMAP
        PROVE  FALSE
    <3>1. i \in present(ms) /\ ms[i].typ = CT_BITMAP
      BY <1>9, <2>1
    <3> QED
      BY <1>2, <1>6, <3>1
  <2> QED
    BY <1>3, <2>1
<1>11. g.n <= w.n
  <2>1. present(obs) \subseteq present(ms)
    BY <1>9
  <2> QED
    BY <1>2, <1>3, <2>1, FS_Subset
<1>12. \A i \in 1 .. k : ocards[i] \in Nat /\ mcards[i] \in Nat /\ ocards[i] <= mcards[i]
                         /\ oruns[i] \in Nat
  BY <1>1
<1>13. ASSUME NEW i \in 1 .. k
       PROVE  AsBuilt(ocards[i], oruns[i])
  <2>1. CASE obs[i].card = 0
    BY <2>1
  <2>2. CASE obs[i].card # 0
    <3>1. i \in present(obs)
      BY <1>1, <2>2 DEF present, Describes
    <3> QED
      BY <1>9, <3>1
  <2> QED
    BY <2>1, <2>2
<1> HIDE DEF ocards, mcards, oruns, f
<1>14. g.sum_card <= w.sum_card
  BY <1>2, <1>3, <1>12, TotalLeq
<1>15. AsBuilt(g.sum_card, g.total_runs)
  <2>1. AsBuilt(Total(ocards, k), Total(oruns, k))
    BY <1>12, <1>13, TotalAsBuilt
  <2> QED
    BY <1>3, <2>1
<1>16. g.total_runs = 0 \/ 2 * g.total_runs + 1 <= g.sum_card
  BY <1>15 DEF AsBuilt
<1>17. ~ union_promotes_interior(g.n, g.sum_card)
  BY <1>4, <1>6, <1>11, <1>14, PromotesMonotone
<1>18. ~ needs_bitmap(g, "Interior")
  <2>1. g.total_runs <= 2047 /\ g.sum_card <= 4096
    BY <1>4, <1>6, <1>14, <1>16
  <2> QED
    BY <1>4, <1>10, <1>17, <2>1, Sizes DEF needs_bitmap, promotes, UNION_DENSE_CARD
<1>19. g.max_single <= w.max_single
  <2>1. \A i \in present(obs) : obs[i].cap <= w.max_single
    <3>1. ASSUME NEW i \in present(obs)
          PROVE  obs[i].cap <= w.max_single
      <4>1. obs[i].cap <= ms[i].cap /\ ms[i].cap <= w.max_single
            /\ obs[i].cap \in Nat /\ ms[i].cap \in Nat
        BY <1>1, <1>9
      <4> QED
        BY <1>4, <4>1
    <3> QED
      BY <3>1
  <2> QED
    BY <1>3, <1>4, <2>1
<1>20. array_cap(g) <= array_cap(w)
  <2>1. array_cap(g) \in {2 * g.sum_card, 2 + g.total_runs * 4, g.max_single}
    BY <1>4 DEF array_cap, Larger, run_bytes
  <2> QED
    BY <1>4, <1>7, <1>14, <1>16, <1>19, <2>1
<1>21. union_choice(g, "Interior").cap = array_cap(g)
  BY <1>18 DEF union_choice
<1> QED
  BY <1>2, <1>3, <1>5, <1>20, <1>21 DEF f

\* plan_union_observed.
LEMMA ObservedPlan ==
  ASSUME NEW k, NEW ins, Given(ins, k), NEW sh, sh = shape_of("Union", ins),
         NEW cp, cp = observed_cap(ins)
  PROVE  IsPlan("Union", cp, sh) /\ Promised("Union", cp, sh, Contents(ins))
<1> DEFINE td == Contents(ins)
<1>1. PICK ms : ms = Each(Guess, ins)
  OBVIOUS
<1>2. Describes(ms, k) /\ \A i \in 1 .. k : ms[i] = ins[i].s
  BY <1>1, GuessesAre
<1>3. k \in Nat /\ k >= 1 /\ DOMAIN ins = 1 .. k
  BY DEF Given
<1>4. PICK obs : obs = [i \in 1 .. k |-> IF ins[i].leaf THEN ins[i].s ELSE Fact(ins[i])]
  OBVIOUS
<1>5. PICK g : g = Aggregate(obs)
  OBVIOUS
<1>6. cp = IF g.n = 0 THEN 0 ELSE union_choice(g, "Interior").cap
  BY <1>3, <1>4, <1>5 DEF observed_cap, Guess
<1>7. ASSUME NEW i \in 1 .. k
      PROVE  /\ obs[i].card \in Nat /\ obs[i].runs \in Nat /\ obs[i].cap \in Nat
             /\ ins[i].c.card <= obs[i].card /\ obs[i].card <= ms[i].card
             /\ obs[i].card > 0 => obs[i].cap <= ms[i].cap
             /\ obs[i].card = 0 \/ ms[i].cap < BITMAP_BYTES => AsBuilt(obs[i].card, obs[i].runs)
             /\ obs[i].card > 0 /\ obs[i].typ = CT_BITMAP /\ ms[i].cap < BITMAP_BYTES =>
                  ms[i].typ = CT_BITMAP
  <2>1. PICK x : x = ins[i]
    OBVIOUS
  <2>2. ms[i] = x.s
    BY <1>2, <2>1
  <2>3. /\ x.c.card \in Nat /\ x.c.runs \in Nat /\ stored(x.c) \in Nat
        /\ x.s.card \in Nat /\ x.s.cap \in Nat /\ x.s.runs \in Nat
        /\ x.c.card <= x.s.card
        /\ x.c.card > 0 => stored(x.c) <= x.s.cap
        /\ x.s.cap < BITMAP_BYTES => AsBuilt(x.c.card, x.c.runs)
        /\ x.leaf => AsBuilt(x.s.card, x.s.runs)
        /\ x.c.typ = CT_BITMAP => stored(x.c) = BITMAP_BYTES
        /\ x.c.card = 0 => x.c.runs = 0
    BY <2>1, GivenIs
  <2>4. CASE x.leaf
    <3>1. obs[i] = x.s
      BY <1>4, <2>1, <2>4
    <3> QED
      BY <2>1, <2>2, <2>3, <2>4, <3>1
  <2>5. CASE ~ x.leaf
    <3>1. obs[i] = Fact(x)
      BY <1>4, <2>1, <2>5
    <3>2. /\ obs[i].card = x.c.card /\ obs[i].runs = x.c.runs /\ obs[i].cap = stored(x.c)
          /\ obs[i].typ = x.c.typ
      BY <3>1 DEF Fact
    <3>3. obs[i].card = 0 => AsBuilt(obs[i].card, obs[i].runs)
      BY <2>3, <3>2 DEF AsBuilt
    <3>4. obs[i].card > 0 /\ obs[i].typ = CT_BITMAP => ~ (ms[i].cap < BITMAP_BYTES)
      BY <2>2, <2>3, <3>2, Sizes
    <3> QED
      BY <2>1, <2>2, <2>3, <3>2, <3>3, <3>4
  <2> QED
    BY <2>4, <2>5
<1>8. Describes(obs, k)
  <2>1. obs = [i \in 1 .. k |-> obs[i]] /\ DOMAIN obs = 1 .. k
    BY <1>4
  <2>2. Len(obs) = k
    BY <1>3, <2>1, LenOf
  <2> QED
    BY <1>7, <2>1, <2>2 DEF Describes
<1>9. IsPlan("Union", sh.cap, sh) /\ Promised("Union", sh.cap, sh, td)
  BY TreePlan
<1>10. IsShape(sh) /\ (sh.card > 0 => TotalCard(td) <= sh.card)
  BY <1>9 DEF IsPlan, Promised
<1>11. /\ union_choice(g, "Interior").cap \in Nat
       /\ Tight(union_choice(g, "Interior").cap) =>
            Fits(union_choice(g, "Interior").cap, TotalCard(td))
  BY <1>5, <1>7, <1>8, UnionPlan
<1>12. ASSUME g.n = 0
       PROVE  TotalCard(td) = 0
  <2> DEFINE cards == [i \in 1 .. k |-> ins[i].c.card]
  <2>1. Cardinality(present(obs)) = 0 /\ IsFiniteSet(present(obs))
    BY <1>3, <1>5, <1>8, <1>12, AggregateIs
  <2>2. present(obs) = {}
    BY <2>1, FS_EmptySet
  <2>3. \A i \in 1 .. k : cards[i] = 0
    <3>1. ASSUME NEW i \in 1 .. k
          PROVE  ins[i].c.card = 0
      <4>1. i \notin present(obs) /\ i \in DOMAIN obs
        BY <1>4, <2>2
      <4>2. ~ (obs[i].card > 0) /\ obs[i].card \in Nat
        BY <1>7, <4>1 DEF present
      <4>3. ins[i].c.card \in Nat /\ ins[i].c.card <= obs[i].card
        BY <1>7, GivenIs
      <4> QED
        BY <4>2, <4>3
    <3> QED
      BY <3>1
  <2>4. TotalCard(td) = Total(cards, k)
    BY ContentsIs
  <2> HIDE DEF cards
  <2> QED
    BY <1>3, <2>3, <2>4, TotalZero
<1>13. cp \in Nat /\ (Tight(cp) => Fits(cp, TotalCard(td)))
  <2>1. CASE g.n = 0
    BY <1>6, <1>12, <2>1, Sizes DEF Fits
  <2>2. CASE g.n # 0
    BY <1>6, <1>11, <2>2
  <2> QED
    BY <2>1, <2>2
<1>14. cp <= sh.cap \/ sh.cap >= BITMAP_BYTES
  <2>1. PICK c : c = union_choice(Aggregate(ms), "Interior").cap
    OBVIOUS
  <2>2. sh = union_shape(ms)
    BY <1>1 DEF shape_of
  <2>3. c \in Nat
    <3>1. \A i \in 1 .. k : ins[i].c.card <= ms[i].card
      BY <1>2, GivenIs
    <3> QED
      BY <1>2, <2>1, <3>1, UnionPlan
  <2>4. sh.cap = c
    BY <1>2, <1>3, <2>1, <2>2, <2>3, UnionShapeIs
  <2>5. CASE c < BITMAP_BYTES
    <3>1. union_choice(g, "Interior").cap <= c
      BY <1>2, <1>3, <1>5, <1>7, <1>8, <2>1, <2>5, ObservedNoLarger
    <3> QED
      BY <1>6, <2>3, <2>4, <3>1
  <2>6. CASE ~ (c < BITMAP_BYTES)
    BY <2>3, <2>4, <2>6, Sizes
  <2> QED
    BY <2>5, <2>6
<1> HIDE DEF td
<1>15. IsPlan("Union", cp, sh)
  BY <1>10, <1>13, <1>14 DEF IsPlan
<1>16. Promised("Union", cp, sh, td)
  BY <1>10, <1>13 DEF Promised
<1> QED
  BY <1>15, <1>16 DEF td


----------------------------------------------------------------------------
\* Folding the next container.

\* An outcome that leaves the accumulator as it should be, and wrote within bounds.
Good(o, cp, sh, f, x, td) ==
  /\ Started(o, cp, sh, f, x.acc, x.n, td)
  /\ \A w \in x.wrote : w[1] <= w[2]

LEMMA AccIs ==
  ASSUME NEW typ \in {UNSEEDED, CT_ARRAY, CT_BITMAP, CT_RUN, CT_INLINE},
         NEW card, card = CARD_LAZY \/ (card \in Nat /\ card <= KEYSPACE),
         NEW r \in Nat, r <= MAX_RUNS, NEW at \in {"source", "slot", "scratch"}
  PROVE  /\ Acc(typ, card, r, at) \in Accumulators
         /\ Acc(typ, card, r, at).typ = typ /\ Acc(typ, card, r, at).card = card
         /\ Acc(typ, card, r, at).runs = r /\ Acc(typ, card, r, at).at = at
BY Sizes DEF Acc, Accumulators

LEMMA StartedIs ==
  ASSUME NEW o, NEW cp, NEW sh, NEW f, NEW a, NEW m, NEW td,
         Started(o, cp, sh, f, a, m, td)
  PROVE  /\ a \in Accumulators /\ m \in Nat /\ m <= KEYSPACE /\ td \in Seq(Containers)
         /\ a.runs \in Nat /\ a.runs <= MAX_RUNS
         /\ Counted(a, m) /\ RunsOf(a, m) /\ Held(o, cp, f, a, m, td) /\ Bounded(o, sh, m, td)
         /\ a.card # CARD_LAZY => a.card = m
         /\ a.typ # CT_BITMAP => a.card = m
         /\ a.card = 0 => m = 0
BY Sizes DEF Started, Accumulators, Counted

LEMMA StartedWith ==
  ASSUME NEW o, NEW cp, NEW sh, NEW f, NEW a \in Accumulators, NEW m \in Nat, m <= KEYSPACE,
         NEW td \in Seq(Containers),
         a.card = m \/ (a.typ = CT_BITMAP /\ a.card = CARD_LAZY),
         a.typ = CT_RUN /\ m > 0 => a.runs > 0,
         Held(o, cp, f, a, m, td), Bounded(o, sh, m, td)
  PROVE  Started(o, cp, sh, f, a, m, td)
BY Sizes DEF Started, Counted, RunsOf

\* The next container and what is left.
LEMMA NextIs ==
  ASSUME NEW td \in Seq(Containers), td # << >>
  PROVE  /\ Head(td) \in Containers
         /\ Head(td).card \in Nat /\ Head(td).card <= KEYSPACE
         /\ Head(td).runs \in Nat /\ Head(td).runs <= MAX_RUNS
         /\ Head(td).typ \in {UNSEEDED, CT_ARRAY, CT_BITMAP, CT_RUN, CT_INLINE}
         /\ Head(td).typ = UNSEEDED <=> Head(td).card = 0
         /\ Head(td).typ = CT_RUN <=> Head(td).runs > 0
         /\ Head(td).typ \in {CT_ARRAY, CT_INLINE} => Head(td).card <= ARRAY_MAX_SIZE
         /\ Tail(td) \in Seq(Containers)
         /\ TotalCard(Tail(td)) \in Nat /\ TotalCard(td) = Head(td).card + TotalCard(Tail(td))
         /\ Splits(Tail(td)) \in Nat /\ Splits(td) = splits_into(Head(td)) + Splits(Tail(td))
         /\ NonePresent(td) => Head(td).card = 0 /\ NonePresent(Tail(td))
         /\ AllPresent(td) => Head(td).card > 0 /\ AllPresent(Tail(td))
<1>1. PICK p : p = Head(td)
  OBVIOUS
<1>2. PICK rest : rest = Tail(td)
  OBVIOUS
<1>3. /\ rest \in Seq(Containers) /\ Len(rest) = Len(td) - 1 /\ Len(td) >= 1
      /\ p = td[1] /\ p \in Containers
      /\ \A k \in 1 .. Len(td) - 1 : rest[k] = td[k + 1]
      /\ TotalCard(td) = p.card + TotalCard(rest)
      /\ Splits(td) = splits_into(p) + Splits(rest)
  BY <1>1, <1>2, TailIs
<1>4. TotalCard(rest) \in Nat /\ Splits(rest) \in Nat /\ Len(td) \in Nat
  BY <1>3, SeqFacts
<1>5. /\ p.card \in Nat /\ p.card <= KEYSPACE /\ p.runs \in Nat /\ p.runs <= MAX_RUNS
      /\ p.typ \in {UNSEEDED, CT_ARRAY, CT_BITMAP, CT_RUN, CT_INLINE}
      /\ p.typ = UNSEEDED <=> p.card = 0
      /\ p.typ = CT_RUN <=> p.runs > 0
      /\ p.typ \in {CT_ARRAY, CT_INLINE} => p.card <= ARRAY_MAX_SIZE
  BY <1>3, StoredIs
<1>6. 1 \in 1 .. Len(td) /\ \A k \in 1 .. Len(rest) : k + 1 \in 1 .. Len(td) /\ rest[k] = td[k + 1]
  BY <1>3, <1>4
<1>7. NonePresent(td) => p.card = 0 /\ NonePresent(rest)
  BY <1>3, <1>6 DEF NonePresent
<1>8. AllPresent(td) => p.card > 0 /\ AllPresent(rest)
  BY <1>3, <1>6 DEF AllPresent
<1> QED
  BY <1>1, <1>2, <1>3, <1>4, <1>5, <1>7, <1>8

\* An operation's result stays within what was predicted.
LEMMA StaysBounded ==
  ASSUME NEW o \in {"Union", "Intersect", "Diff"}, NEW sh, IsShape(sh),
         NEW m \in Nat, m <= KEYSPACE, NEW td \in Seq(Containers), td # << >>,
         Bounded(o, sh, m, td), NEW c \in Counts(o, m, Head(td).card)
  PROVE  /\ c \in Nat /\ c <= KEYSPACE /\ Bounded(o, sh, c, Tail(td))
         /\ o = "Union" => m <= c /\ c + TotalCard(Tail(td)) <= m + TotalCard(td)
         /\ o # "Union" => c <= m
<1>1. PICK p : p = Head(td) /\ p.card \in Nat /\ p.card <= KEYSPACE
  BY NextIs
<1>2. PICK t : t = TotalCard(Tail(td)) /\ t \in Nat /\ TotalCard(td) = p.card + t
  BY <1>1, NextIs
<1>3. /\ c \in Nat /\ c <= KEYSPACE
      /\ o = "Union" => m <= c /\ c <= m + p.card
      /\ o # "Union" => c <= m
  BY <1>1, CountsAre
<1>4. sh.card \in Nat
  BY DEF IsShape
<1>5. o = "Union" => m <= c /\ c + t <= m + TotalCard(td)
  BY <1>1, <1>2, <1>3
<1>6. sh.card > 0 => /\ m <= sh.card
                     /\ o = "Union" => m + TotalCard(td) <= sh.card
  BY DEF Bounded
<1>7. sh.card > 0 => /\ c <= sh.card
                     /\ o = "Union" => c + t <= sh.card
  BY <1>1, <1>2, <1>3, <1>4, <1>5, <1>6
<1>8. Bounded(o, sh, c, Tail(td))
  BY <1>2, <1>7 DEF Bounded
<1> QED
  BY <1>2, <1>3, <1>5, <1>8

LEMMA SkipBounded ==
  ASSUME NEW o, NEW sh, NEW m \in Nat, NEW td \in Seq(Containers), td # << >>,
         Head(td).card = 0, Bounded(o, sh, m, td)
  PROVE  Bounded(o, sh, m, Tail(td)) /\ TotalCard(Tail(td)) = TotalCard(td)
<1>1. PICK t : t = TotalCard(Tail(td)) /\ t \in Nat /\ TotalCard(td) = Head(td).card + t
  BY NextIs
<1>2. TotalCard(td) = t
  BY <1>1
<1> QED
  BY <1>1, <1>2 DEF Bounded

\* A fold into a bitmap, in a slot that is one.
LEMMA BitmapFolded ==
  ASSUME IsPlan(op, cap, shape), ~ Tight(cap),
         NEW m \in Nat, m <= KEYSPACE, NEW td \in Seq(Containers), td # << >>,
         Bounded(op, shape, m, td), NEW counted \in BOOLEAN,
         NEW x \in bitmap_fold(m, Head(td), counted)
  PROVE  /\ x.acc \in Accumulators /\ x.acc.typ = CT_BITMAP /\ x.n \in Nat /\ x.n <= KEYSPACE
         /\ x.acc.card = x.n \/ x.acc.card = CARD_LAZY
         /\ Bounded(op, shape, x.n, Tail(td))
         /\ \A w \in x.wrote : w[1] <= w[2]
<1>1. PICK c \in Counts(op, m, Head(td).card) :
        x = Out(Acc(CT_BITMAP, IF counted THEN c ELSE CARD_LAZY, 0, "slot"), c, {InSlot(BITMAP_BYTES)})
  BY DEF bitmap_fold
<1>2. c \in Nat /\ c <= KEYSPACE /\ Bounded(op, shape, c, Tail(td))
  BY StaysBounded DEF IsPlan
<1>3. PICK d : d = (IF counted THEN c ELSE CARD_LAZY)
  OBVIOUS
<1>4. x.acc = Acc(CT_BITMAP, d, 0, "slot") /\ x.n = c /\ x.wrote = {<< BITMAP_BYTES, cap >>}
  BY <1>1, <1>3 DEF Out, InSlot
<1>5. x.acc \in Accumulators /\ x.acc.typ = CT_BITMAP /\ x.acc.card = d
  <2>1. d = CARD_LAZY \/ (d \in Nat /\ d <= KEYSPACE)
    BY <1>2, <1>3
  <2>2. 0 <= MAX_RUNS
    BY Sizes
  <2>3. /\ Acc(CT_BITMAP, d, 0, "slot") \in Accumulators
        /\ Acc(CT_BITMAP, d, 0, "slot").typ = CT_BITMAP /\ Acc(CT_BITMAP, d, 0, "slot").card = d
    BY <2>1, <2>2, AccIs
  <2> QED
    BY <1>4, <2>3
<1>6. BITMAP_BYTES <= cap
  BY Sizes DEF IsPlan, Tight
<1>7. \A w \in x.wrote : w[1] <= w[2]
  BY <1>4, <1>6
<1> QED
  BY <1>2, <1>3, <1>4, <1>5, <1>7

\* A run accumulator split by, or merged with, one more partner.
LEMMA RunSplit ==
  ASSUME IsPlan(op, cap, shape), ~ Tight(cap),
         NEW m \in Nat, m <= KEYSPACE, NEW td \in Seq(Containers), td # << >>,
         Bounded(op, shape, m, td), NEW r \in Nat, NEW b \in Nat, 1 <= b, b <= MAX_RUNS,
         Fragments(op, r, Head(td)) = b,
         NEW x \in run_split(r, m, Head(td), b)
  PROVE  /\ x.acc \in Accumulators /\ x.acc.typ = CT_RUN /\ x.n \in Nat /\ x.n <= KEYSPACE
         /\ x.acc.card = x.n /\ x.acc.runs \in Nat /\ x.acc.runs <= MAX_RUNS
         /\ x.n > 0 => x.acc.runs > 0
         /\ op = "Union" => m <= x.n
         /\ run_bytes(x.acc.runs) <= cap
         /\ Bounded(op, shape, x.n, Tail(td))
         /\ \A w \in x.wrote : w[1] <= w[2]
<1>1. PICK c \in Counts(op, m, Head(td).card) :
        x \in { Out(Acc(CT_RUN, c, q, "slot"), c,
                    {InSlot(run_bytes(b)), << run_bytes(q), run_bytes(b) >>}) :
                  q \in RunCounts(c, b) }
  BY DEF run_split
<1>2. PICK q \in RunCounts(c, b) :
        x = Out(Acc(CT_RUN, c, q, "slot"), c, {InSlot(run_bytes(b)), << run_bytes(q), run_bytes(b) >>})
  BY <1>1
<1>3. /\ c \in Nat /\ c <= KEYSPACE /\ Bounded(op, shape, c, Tail(td))
      /\ op = "Union" => m <= c
  BY StaysBounded DEF IsPlan
<1>4. q \in Nat /\ q <= b /\ (c > 0 => q >= 1)
  BY <1>3, RunCountsAre
<1>5. /\ x.acc = Acc(CT_RUN, c, q, "slot") /\ x.n = c
      /\ x.wrote = {<< run_bytes(b), cap >>, << run_bytes(q), run_bytes(b) >>}
  BY <1>2 DEF Out, InSlot
<1>6. /\ x.acc \in Accumulators /\ x.acc.typ = CT_RUN /\ x.acc.card = c /\ x.acc.runs = q
      /\ q <= MAX_RUNS
  <2>1. q <= MAX_RUNS
    BY <1>4, Sizes
  <2> QED
    BY <1>3, <1>4, <1>5, <2>1, AccIs
<1>7. run_bytes(b) <= cap /\ run_bytes(q) <= run_bytes(b) /\ run_bytes(q) <= cap
  <2>1. cap \in Nat /\ 8192 <= cap
    BY Sizes DEF IsPlan, Tight
  <2> QED
    BY <1>4, <2>1, Sizes DEF run_bytes
<1>8. \A w \in x.wrote : w[1] <= w[2]
  BY <1>5, <1>7
<1> QED
  BY <1>3, <1>4, <1>5, <1>6, <1>7, <1>8


\* What Held says of each form, spelled out.
LEMMA HeldIs ==
  ASSUME NEW o, NEW cp, NEW f, NEW a, NEW m, NEW td, Held(o, cp, f, a, m, td)
  PROVE  /\ f = "pass" /\ o = "Union" => UnionPassed(cp, a, m, td)
         /\ f = "pass" /\ o = "Diff" => DiffPassed(cp, a, m, td)
         /\ f = "pass" => o \in {"Union", "Diff"}
         /\ f = "array" => ArrayHeld(o, cp, a, m, td)
         /\ f = "run" => RunHeld(o, cp, a, m, td)
         /\ f = "bitmap" => BitmapHeld(cp, a, td)
         /\ f = "verbatim" => Verbatim(o, cp, a, m, td)
BY DEF Held

LEMMA FitsLess ==
  ASSUME NEW cp \in Nat, NEW i \in Nat, NEW j \in Nat, i <= j, Fits(cp, j)
  PROVE  Fits(cp, i) /\ 2 * i <= cp /\ i <= 4096
BY Sizes DEF Fits

\* An array accumulator written back to the slot.
LEMMA ArrayOut ==
  ASSUME NEW c \in Nat, c <= KEYSPACE, NEW at \in {"slot", "scratch"}
  PROVE  /\ Acc(CT_ARRAY, c, 0, at) \in Accumulators
         /\ Acc(CT_ARRAY, c, 0, at).typ = CT_ARRAY /\ Acc(CT_ARRAY, c, 0, at).card = c
         /\ Acc(CT_ARRAY, c, 0, at).runs = 0
<1>1. 0 <= MAX_RUNS
  BY Sizes
<1> QED
  BY <1>1, AccIs

\* Seeding a union from p, in a slot that has room for everything left.
LEMMA UnionSeeded ==
  ASSUME IsPlan(op, cap, shape), NEW p \in Containers, p.card > 0,
         Tight(cap) => Fits(cap, p.card)
  PROVE  LET x == union_seed(p)
         IN  /\ x.acc \in Accumulators /\ x.n = p.card /\ x.acc.card = p.card
             /\ x.acc.typ = CT_RUN => x.acc.runs > 0
             /\ x.acc.typ \in {CT_ARRAY, CT_BITMAP, CT_RUN}
             /\ x.acc.typ = CT_ARRAY <=> Tight(cap)
             /\ \A w \in x.wrote : w[1] <= w[2]
<1>1. /\ p.card \in Nat /\ p.card <= KEYSPACE /\ p.runs \in Nat /\ p.runs <= MAX_RUNS
      /\ p.typ = CT_RUN <=> p.runs > 0
  BY StoredIs
<1>2. cap \in Nat
  BY DEF IsPlan
<1>3. PICK x : x = union_seed(p)
  OBVIOUS
<1>4. CASE Tight(cap)
  <2>1. x = load_array(p)
    BY <1>3, <1>4 DEF union_seed, Tight
  <2>2. x.acc = Acc(CT_ARRAY, p.card, 0, "slot") /\ x.n = p.card /\ x.wrote = {<< 2 * p.card, cap >>}
    BY <2>1 DEF load_array, Out, InSlot
  <2>3. x.acc \in Accumulators /\ x.acc.typ = CT_ARRAY /\ x.acc.card = p.card
    BY <1>1, <2>2, ArrayOut
  <2>4. 2 * p.card <= cap
    BY <1>4 DEF Fits
  <2>5. \A w \in x.wrote : w[1] <= w[2]
    BY <2>2, <2>4
  <2> QED
    BY <1>3, <1>4, <2>2, <2>3, <2>5, Sizes
<1>5. CASE ~ Tight(cap) /\ p.typ = CT_RUN
  <2>1. x = copy_runs(p)
    BY <1>3, <1>5 DEF union_seed, Tight
  <2>2. /\ x.acc = Acc(CT_RUN, p.card, p.runs, "slot") /\ x.n = p.card
        /\ x.wrote = {<< run_bytes(p.runs), cap >>}
    BY <1>5, <2>1 DEF copy_runs, Seeded, Out, InSlot
  <2>3. /\ x.acc \in Accumulators /\ x.acc.typ = CT_RUN /\ x.acc.card = p.card
        /\ x.acc.runs = p.runs
    BY <1>1, <2>2, AccIs
  <2>4. run_bytes(p.runs) <= cap
    BY <1>1, <1>2, <1>5, Sizes DEF run_bytes, Tight
  <2>5. \A w \in x.wrote : w[1] <= w[2]
    BY <2>2, <2>4
  <2> QED
    BY <1>1, <1>3, <1>5, <2>2, <2>3, <2>5, Sizes
<1>6. CASE ~ Tight(cap) /\ p.typ # CT_RUN
  <2>1. x = load_bitmap(p)
    BY <1>3, <1>6 DEF union_seed, Tight
  <2>2. /\ x.acc = Acc(CT_BITMAP, p.card, 0, "slot") /\ x.n = p.card
        /\ x.wrote = {<< BITMAP_BYTES, cap >>}
    BY <2>1 DEF load_bitmap, Out, InSlot
  <2>3. x.acc \in Accumulators /\ x.acc.typ = CT_BITMAP /\ x.acc.card = p.card
    <3>1. 0 <= MAX_RUNS
      BY Sizes
    <3>2. /\ Acc(CT_BITMAP, p.card, 0, "slot") \in Accumulators
          /\ Acc(CT_BITMAP, p.card, 0, "slot").typ = CT_BITMAP
          /\ Acc(CT_BITMAP, p.card, 0, "slot").card = p.card
      BY <1>1, <3>1, AccIs
    <3> QED
      BY <2>2, <3>2
  <2>4. BITMAP_BYTES <= cap
    BY <1>2, <1>6, Sizes DEF Tight
  <2>5. \A w \in x.wrote : w[1] <= w[2]
    BY <2>2, <2>4
  <2> QED
    BY <1>3, <1>6, <2>2, <2>3, <2>5, Sizes
<1> QED
  BY <1>4, <1>5, <1>6

\* union_apply.
LEMMA UnionApplied ==
  ASSUME IsPlan(op, cap, shape), op = "Union", NEW a, NEW m, NEW td,
         Started(op, cap, shape, "pass", a, m, td), td # << >>, NEW is_last \in BOOLEAN,
         NEW x \in union_apply(a, m, Head(td), is_last)
  PROVE  Good(op, cap, shape, "pass", x, Tail(td))
<1>1. PICK p : p = Head(td)
  OBVIOUS
<1>2. PICK t : t = TotalCard(Tail(td))
  OBVIOUS
<1>3. /\ a \in Accumulators /\ m \in Nat /\ m <= KEYSPACE /\ td \in Seq(Containers)
      /\ a.runs \in Nat /\ a.runs <= MAX_RUNS
      /\ Counted(a, m) /\ RunsOf(a, m) /\ Bounded(op, shape, m, td)
      /\ a.typ # CT_BITMAP => a.card = m
      /\ UnionPassed(cap, a, m, td)
  BY StartedIs, HeldIs
<1>4. /\ p \in Containers /\ p.card \in Nat /\ p.card <= KEYSPACE
      /\ p.runs \in Nat /\ p.runs <= MAX_RUNS
      /\ p.typ = CT_RUN <=> p.runs > 0
      /\ Tail(td) \in Seq(Containers)
      /\ t \in Nat /\ TotalCard(td) = p.card + t
  BY <1>1, <1>2, <1>3, NextIs
<1>5. cap \in Nat /\ op \in {"Union", "Intersect", "Diff"} /\ IsShape(shape)
  BY DEF IsPlan
<1>6. ASSUME NEW b, NEW c \in Nat, c <= KEYSPACE, Bounded(op, shape, c, Tail(td)),
             b \in Accumulators, b.card = c \/ (b.typ = CT_BITMAP /\ b.card = CARD_LAZY),
             b.typ = CT_RUN /\ c > 0 => b.runs > 0,
             UnionPassed(cap, b, c, Tail(td)),
             x.acc = b, x.n = c, \A w \in x.wrote : w[1] <= w[2]
      PROVE  Good(op, cap, shape, "pass", x, Tail(td))
  <2>1. Held(op, cap, "pass", b, c, Tail(td))
    BY <1>6 DEF Held
  <2>2. Started(op, cap, shape, "pass", b, c, Tail(td))
    BY <1>4, <1>6, <2>1, StartedWith
  <2> QED
    BY <1>6, <2>2 DEF Good
<1>7. CASE p.card = 0
  <2>1. x.acc = a /\ x.n = m /\ x.wrote = {}
    BY <1>1, <1>7 DEF union_apply, Out
  <2>2. Bounded(op, shape, m, Tail(td)) /\ TotalCard(Tail(td)) = TotalCard(td)
    BY <1>1, <1>3, <1>7, SkipBounded
  <2>3. UnionPassed(cap, a, m, Tail(td))
    BY <1>3, <2>2 DEF UnionPassed
  <2>4. a.card = m \/ (a.typ = CT_BITMAP /\ a.card = CARD_LAZY)
    BY <1>3 DEF Counted
  <2>5. a.typ = CT_RUN /\ m > 0 => a.runs > 0
    BY <1>3 DEF RunsOf
  <2> QED
    BY <1>3, <1>6, <2>1, <2>2, <2>3, <2>4, <2>5
<1>8. CASE p.card # 0 /\ a.typ = UNSEEDED
  <2>1. x = union_seed(p)
    BY <1>1, <1>8 DEF union_apply
  <2>2. m = 0
    BY <1>3, <1>8 DEF UnionPassed
  <2>3. Tight(cap) => Fits(cap, p.card + t)
    BY <1>3, <1>4, <2>2 DEF UnionPassed
  <2>4. Tight(cap) => Fits(cap, p.card)
    BY <1>4, <1>5, <2>3, FitsLess
  <2>5. /\ x.acc \in Accumulators /\ x.n = p.card /\ x.acc.card = p.card
        /\ x.acc.typ = CT_RUN => x.acc.runs > 0
        /\ x.acc.typ \in {CT_ARRAY, CT_BITMAP, CT_RUN}
        /\ x.acc.typ = CT_ARRAY <=> Tight(cap)
        /\ \A w \in x.wrote : w[1] <= w[2]
    BY <1>4, <1>8, <2>1, <2>4, UnionSeeded
  <2>6. UnionPassed(cap, x.acc, p.card, Tail(td))
    BY <1>2, <1>4, <1>8, <2>3, <2>5, Sizes DEF UnionPassed
  <2>7. Bounded(op, shape, p.card, Tail(td))
    <3>1. shape.card > 0 => 0 + TotalCard(td) <= shape.card
      BY <1>3, <2>2 DEF Bounded
    <3>2. shape.card \in Nat
      BY <1>5 DEF IsShape
    <3> QED
      BY <1>2, <1>4, <3>1, <3>2 DEF Bounded
  <2> QED
    BY <1>4, <1>6, <2>5, <2>6, <2>7
<1>9. CASE p.card # 0 /\ a.typ = CT_ARRAY /\ a.card + p.card <= ARRAY_MAX_SIZE
  <2>1. a.typ # UNSEEDED
    BY <1>9, Sizes
  <2>2. x \in { Out(Acc(CT_ARRAY, c, 0, "slot"), c, {InSlot(2 * c)} \cup staged(p, SCRATCH_BYTES)) :
                  c \in Counts(op, m, p.card) }
    BY <1>1, <1>9, <2>1 DEF union_apply
  <2>3. PICK c \in Counts(op, m, p.card) :
          x = Out(Acc(CT_ARRAY, c, 0, "slot"), c, {InSlot(2 * c)} \cup staged(p, SCRATCH_BYTES))
    BY <2>2
  <2>4. /\ c \in Nat /\ c <= KEYSPACE /\ Bounded(op, shape, c, Tail(td))
        /\ c + t <= m + TotalCard(td)
    BY <1>1, <1>2, <1>3, <1>5, StaysBounded
  <2>5. /\ x.acc = Acc(CT_ARRAY, c, 0, "slot") /\ x.n = c
        /\ x.wrote = {<< 2 * c, cap >>} \cup staged(p, SCRATCH_BYTES)
    BY <2>3 DEF Out, InSlot
  <2>6. x.acc \in Accumulators /\ x.acc.typ = CT_ARRAY /\ x.acc.card = c
    BY <2>4, <2>5, ArrayOut
  <2>7. Tight(cap) /\ Fits(cap, m + TotalCard(td))
    BY <1>3, <1>9 DEF UnionPassed
  <2>8. m + TotalCard(td) \in Nat
    BY <1>3, <1>4
  <2>9. Fits(cap, c + t) /\ Fits(cap, c)
    BY <1>4, <1>5, <2>4, <2>7, <2>8, FitsLess
  <2>10. 2 * p.card <= SCRATCH_BYTES
    BY <1>3, <1>4, <1>9, Sizes
  <2>11. \A w \in x.wrote : w[1] <= w[2]
    BY <2>5, <2>9, <2>10 DEF staged, Fits
  <2>12. UnionPassed(cap, x.acc, c, Tail(td))
    BY <1>2, <2>6, <2>7, <2>9, Sizes DEF UnionPassed
  <2> QED
    BY <1>6, <2>4, <2>5, <2>6, <2>11, <2>12, Sizes
<1>10. CASE p.card # 0 /\ a.typ = CT_RUN /\ p.typ = CT_RUN /\ a.runs + p.runs <= MAX_RUNS
  <2>1. x \in run_split(a.runs, m, p, a.runs + p.runs)
    BY <1>1, <1>10, Sizes DEF union_apply
  <2>2. PICK b \in Nat : b = a.runs + p.runs /\ 1 <= b /\ b <= MAX_RUNS
    BY <1>3, <1>4, <1>10
  <2>3. Fragments(op, a.runs, p) = b
    BY <2>2 DEF Fragments
  <2>4. ~ Tight(cap) /\ m > 0
    BY <1>3, <1>10, Sizes DEF UnionPassed
  <2>5. /\ x.acc \in Accumulators /\ x.acc.typ = CT_RUN /\ x.n \in Nat /\ x.n <= KEYSPACE
        /\ x.acc.card = x.n /\ x.acc.runs \in Nat
        /\ x.n > 0 => x.acc.runs > 0
        /\ m <= x.n
        /\ Bounded(op, shape, x.n, Tail(td))
        /\ \A w \in x.wrote : w[1] <= w[2]
    BY <1>1, <1>3, <2>1, <2>2, <2>3, <2>4, RunSplit
  <2>6. x.n > 0
    BY <1>3, <2>4, <2>5
  <2>7. UnionPassed(cap, x.acc, x.n, Tail(td))
    BY <2>4, <2>5, <2>6, Sizes DEF UnionPassed
  <2> QED
    BY <1>6, <2>5, <2>7
<1>11. CASE /\ p.card # 0 /\ a.typ # UNSEEDED
            /\ ~ (a.typ = CT_ARRAY /\ a.card + p.card <= ARRAY_MAX_SIZE)
            /\ ~ (a.typ = CT_RUN /\ p.typ = CT_RUN /\ a.runs + p.runs <= MAX_RUNS)
  <2>1. x \in bitmap_fold(m, p, is_last)
    BY <1>1, <1>11 DEF union_apply
  <2>2. ~ Tight(cap)
    <3>1. ASSUME Tight(cap) PROVE FALSE
      <4>1. a.typ = CT_ARRAY /\ Fits(cap, m + (p.card + t))
        BY <1>3, <1>4, <1>11, <3>1 DEF UnionPassed
      <4>2. a.card = m
        BY <1>3, <4>1, Sizes
      <4> QED
        BY <1>3, <1>4, <1>11, <4>1, <4>2, Sizes DEF Fits
    <3> QED
      BY <3>1
  <2>3. /\ x.acc \in Accumulators /\ x.acc.typ = CT_BITMAP /\ x.n \in Nat /\ x.n <= KEYSPACE
        /\ x.acc.card = x.n \/ x.acc.card = CARD_LAZY
        /\ Bounded(op, shape, x.n, Tail(td))
        /\ \A w \in x.wrote : w[1] <= w[2]
    BY <1>1, <1>3, <2>1, <2>2, BitmapFolded
  <2>4. UnionPassed(cap, x.acc, x.n, Tail(td))
    BY <2>2, <2>3, Sizes DEF UnionPassed
  <2> QED
    BY <1>6, <2>3, <2>4, Sizes
<1> QED
  BY <1>7, <1>8, <1>9, <1>10, <1>11


\* diff_apply, over a partner present at the key.
LEMMA DiffApplied ==
  ASSUME IsPlan(op, cap, shape), op = "Diff", NEW a, NEW m, NEW td,
         Started(op, cap, shape, "pass", a, m, td), td # << >>, Head(td).card # 0,
         NEW is_last \in BOOLEAN, NEW x \in diff_apply(a, m, Head(td), is_last)
  PROVE  Good(op, cap, shape, "pass", x, Tail(td))
<1>1. PICK p : p = Head(td)
  OBVIOUS
<1>2. /\ a \in Accumulators /\ m \in Nat /\ m <= KEYSPACE /\ td \in Seq(Containers)
      /\ a.runs \in Nat /\ a.runs <= MAX_RUNS
      /\ Bounded(op, shape, m, td)
      /\ DiffPassed(cap, a, m, td)
  BY StartedIs, HeldIs
<1>3. /\ p \in Containers /\ p.card \in Nat /\ p.card <= KEYSPACE /\ p.card > 0
      /\ p.runs \in Nat /\ p.runs <= MAX_RUNS
      /\ p.typ = CT_RUN <=> p.runs > 0
      /\ p.typ \in {CT_ARRAY, CT_INLINE} => p.card <= ARRAY_MAX_SIZE
      /\ Tail(td) \in Seq(Containers)
  BY <1>1, <1>2, NextIs
<1>4. cap \in Nat /\ op \in {"Union", "Intersect", "Diff"} /\ IsShape(shape)
  BY DEF IsPlan
<1>5. ~ NonePresent(td)
  BY <1>1, <1>2, <1>3, NextIs
<1>6. ASSUME NEW b, NEW c \in Nat, c <= KEYSPACE, Bounded(op, shape, c, Tail(td)),
             b \in Accumulators, b.card = c \/ (b.typ = CT_BITMAP /\ b.card = CARD_LAZY),
             b.typ = CT_RUN /\ c > 0 => b.runs > 0,
             DiffPassed(cap, b, c, Tail(td)),
             x.acc = b, x.n = c, \A w \in x.wrote : w[1] <= w[2]
      PROVE  Good(op, cap, shape, "pass", x, Tail(td))
  <2>1. Held(op, cap, "pass", b, c, Tail(td))
    BY <1>6 DEF Held
  <2>2. Started(op, cap, shape, "pass", b, c, Tail(td))
    BY <1>3, <1>6, <2>1, StartedWith
  <2> QED
    BY <1>6, <2>2 DEF Good
<1>7. CASE a.typ = CT_ARRAY
  <2>1. PICK c \in Counts(op, m, p.card) :
          x = Out(Acc(CT_ARRAY, c, 0, "slot"), c,
                  IF p.typ \in {CT_ARRAY, CT_INLINE}
                  THEN {InSlot(2 * c)} \cup staged(p, SCRATCH_BYTES) ELSE {})
    BY <1>1, <1>7 DEF diff_apply
  <2>2. c \in Nat /\ c <= KEYSPACE /\ Bounded(op, shape, c, Tail(td)) /\ c <= m
    BY <1>1, <1>2, <1>4, StaysBounded
  <2>3. /\ x.acc = Acc(CT_ARRAY, c, 0, "slot") /\ x.n = c
        /\ x.wrote = IF p.typ \in {CT_ARRAY, CT_INLINE}
                     THEN {<< 2 * c, cap >>} \cup staged(p, SCRATCH_BYTES) ELSE {}
    BY <2>1 DEF Out, InSlot
  <2>4. x.acc \in Accumulators /\ x.acc.typ = CT_ARRAY /\ x.acc.card = c
    BY <2>2, <2>3, ArrayOut
  <2>5. Fits(cap, m)
    BY <1>2, <1>7 DEF DiffPassed
  <2>6. Fits(cap, c) /\ 2 * c <= cap
    BY <1>2, <1>4, <2>2, <2>5, FitsLess
  <2>7. p.typ \in {CT_ARRAY, CT_INLINE} => 2 * p.card <= SCRATCH_BYTES
    BY <1>3, Sizes
  <2>8. \A w \in x.wrote : w[1] <= w[2]
    BY <2>3, <2>6, <2>7 DEF staged
  <2>9. DiffPassed(cap, x.acc, c, Tail(td))
    BY <2>4, <2>6, Sizes DEF DiffPassed
  <2> QED
    BY <1>6, <2>2, <2>3, <2>4, <2>8, <2>9, Sizes
<1>8. CASE a.typ = CT_RUN /\ splits(a, p)
  <2>1. x \in run_split(a.runs, m, p, a.runs + diff_extra(p))
    BY <1>1, <1>8, Sizes DEF diff_apply
  <2>2. PICK b \in Nat : b = a.runs + diff_extra(p) /\ 1 <= b /\ b <= MAX_RUNS
    BY <1>2, <1>3, <1>8 DEF splits, diff_extra
  <2>3. Fragments(op, a.runs, p) = b
    BY <2>2 DEF Fragments, diff_extra
  <2>4. ~ Tight(cap)
    BY <1>2, <1>5, <1>8 DEF DiffPassed
  <2>5. /\ x.acc \in Accumulators /\ x.acc.typ = CT_RUN /\ x.n \in Nat /\ x.n <= KEYSPACE
        /\ x.acc.card = x.n /\ x.acc.runs \in Nat
        /\ x.n > 0 => x.acc.runs > 0
        /\ run_bytes(x.acc.runs) <= cap
        /\ Bounded(op, shape, x.n, Tail(td))
        /\ \A w \in x.wrote : w[1] <= w[2]
    BY <1>1, <1>2, <2>1, <2>2, <2>3, <2>4, RunSplit
  <2>6. DiffPassed(cap, x.acc, x.n, Tail(td))
    BY <2>4, <2>5, Sizes DEF DiffPassed
  <2> QED
    BY <1>6, <2>5, <2>6
<1>9. CASE a.typ # CT_ARRAY /\ ~ (a.typ = CT_RUN /\ splits(a, p))
  <2>1. x \in bitmap_fold(m, p, is_last)
    BY <1>1, <1>9 DEF diff_apply
  <2>2. ~ Tight(cap)
    BY <1>2, <1>5, <1>9 DEF DiffPassed
  <2>3. /\ x.acc \in Accumulators /\ x.acc.typ = CT_BITMAP /\ x.n \in Nat /\ x.n <= KEYSPACE
        /\ x.acc.card = x.n \/ x.acc.card = CARD_LAZY
        /\ Bounded(op, shape, x.n, Tail(td))
        /\ \A w \in x.wrote : w[1] <= w[2]
    BY <1>1, <1>2, <2>1, <2>2, BitmapFolded
  <2>4. DiffPassed(cap, x.acc, x.n, Tail(td))
    BY <2>2, <2>3, Sizes DEF DiffPassed
  <2> QED
    BY <1>6, <2>3, <2>4, Sizes
<1> QED
  BY <1>7, <1>8, <1>9

\* array_fold (ArrayAcc).
LEMMA ArrayFolded ==
  ASSUME IsPlan(op, cap, shape), NEW a, NEW m, NEW td,
         Started(op, cap, shape, "array", a, m, td), td # << >>,
         NEW x \in array_fold(a, m, Head(td))
  PROVE  Good(op, cap, shape, "array", x, Tail(td))
<1>1. PICK p : p = Head(td)
  OBVIOUS
<1>2. PICK t : t = TotalCard(Tail(td))
  OBVIOUS
<1>3. /\ a \in Accumulators /\ m \in Nat /\ m <= KEYSPACE /\ td \in Seq(Containers)
      /\ Bounded(op, shape, m, td)
      /\ ArrayHeld(op, cap, a, m, td)
  BY StartedIs, HeldIs
<1>4. /\ p \in Containers /\ p.card \in Nat /\ p.card <= KEYSPACE
      /\ p.typ \in {CT_ARRAY, CT_INLINE} => p.card <= ARRAY_MAX_SIZE
      /\ Tail(td) \in Seq(Containers)
      /\ t \in Nat /\ TotalCard(td) = p.card + t
      /\ AllPresent(td) => AllPresent(Tail(td))
  BY <1>1, <1>2, <1>3, NextIs
<1>5. cap \in Nat /\ op \in {"Union", "Intersect", "Diff"} /\ IsShape(shape)
  BY DEF IsPlan
<1>6. PICK c \in Counts(op, m, p.card), to \in {"slot", "scratch"} :
        /\ x.acc = Acc(CT_ARRAY, c, 0, to) /\ x.n = c
        /\ \A w \in x.wrote :
             \/ w = << 2 * m, cap >>
             \/ w = Room(to, 2 * c)
             \/ /\ w = << 2 * p.card, BITMAP_BYTES >>
                /\ op = "Union" \/ p.typ \in {CT_ARRAY, CT_INLINE}
  <2>1. CASE a.at = "source" /\ a.typ = CT_ARRAY /\ p.typ = CT_ARRAY
    <3>1. PICK c \in Counts(op, m, p.card) :
            x = Out(Acc(CT_ARRAY, c, 0, "slot"), c, {InSlot(2 * c)})
      BY <1>1, <2>1 DEF array_fold
    <3>2. x.acc = Acc(CT_ARRAY, c, 0, "slot") /\ x.n = c /\ x.wrote = {InSlot(2 * c)}
      BY <3>1 DEF Out
    <3>3. Room("slot", 2 * c) = InSlot(2 * c)
      BY DEF Room
    <3> QED
      BY <3>2, <3>3
  <2>2. CASE ~ (a.at = "source" /\ a.typ = CT_ARRAY /\ p.typ = CT_ARRAY)
    <3> DEFINE from   == IF a.at = "source" THEN "slot" ELSE a.at
               loaded == IF a.at = "source" THEN {InSlot(2 * m)} ELSE {}
               merges == op = "Union" \/ p.typ \in {CT_ARRAY, CT_INLINE}
               to     == IF merges THEN Other(from) ELSE from
    <3>1. PICK c \in Counts(op, m, p.card) :
            x = Out(Acc(CT_ARRAY, c, 0, to), c,
                    loaded \cup (IF merges THEN {Room(to, 2 * c)} \cup staged(p, BITMAP_BYTES)
                                 ELSE {}))
      BY <1>1, <2>2 DEF array_fold
    <3>2. to \in {"slot", "scratch"}
      <4>1. a.at \in {"source", "slot", "scratch"}
        BY <1>3 DEF Accumulators
      <4> QED
        BY <4>1 DEF Other
    <3>3. /\ x.acc = Acc(CT_ARRAY, c, 0, to) /\ x.n = c
          /\ x.wrote = loaded \cup (IF merges THEN {Room(to, 2 * c)} \cup staged(p, BITMAP_BYTES)
                                    ELSE {})
      BY <3>1 DEF Out
    <3>4. /\ \A w \in loaded : w = << 2 * m, cap >>
          /\ \A w \in staged(p, BITMAP_BYTES) : w = << 2 * p.card, BITMAP_BYTES >>
      BY DEF InSlot, staged
    <3> HIDE DEF from, loaded, to
    <3> QED
      BY <3>2, <3>3, <3>4
  <2> QED
    BY <2>1, <2>2
<1>7. /\ c \in Nat /\ c <= KEYSPACE /\ Bounded(op, shape, c, Tail(td))
      /\ op = "Union" => c + t <= m + TotalCard(td)
      /\ op # "Union" => c <= m
  BY <1>1, <1>2, <1>3, <1>5, StaysBounded
<1>8. Fits(cap, m) /\ (op = "Union" => Fits(cap, m + TotalCard(td))) /\ AllPresent(Tail(td))
  BY <1>3, <1>4 DEF ArrayHeld
<1>9. 2 * m <= cap
  BY <1>8 DEF Fits
<1>10. /\ Fits(cap, c) /\ 2 * c <= cap /\ c <= 4096
       /\ op = "Union" => Fits(cap, c + t) /\ p.card <= 4096
  <2>1. CASE op = "Union"
    <3>1. m + TotalCard(td) \in Nat /\ Fits(cap, m + TotalCard(td))
      BY <1>3, <1>4, <1>8, <2>1
    <3>2. c + t <= m + TotalCard(td) /\ c <= m + TotalCard(td) /\ p.card <= m + TotalCard(td)
      BY <1>3, <1>4, <1>7, <2>1
    <3> QED
      BY <1>4, <1>5, <1>7, <3>1, <3>2, FitsLess
  <2>2. CASE op # "Union"
    BY <1>3, <1>5, <1>7, <1>8, <2>2, FitsLess
  <2> QED
    BY <2>1, <2>2
<1>11. x.acc \in Accumulators /\ x.acc.card = c /\ x.acc.typ = CT_ARRAY
  BY <1>6, <1>7, ArrayOut
<1>12. \A w \in x.wrote : w[1] <= w[2]
  <2>1. Room(to, 2 * c)[1] <= Room(to, 2 * c)[2]
    BY <1>7, <1>10, Sizes DEF Room, InSlot, InScratch
  <2>2. op = "Union" \/ p.typ \in {CT_ARRAY, CT_INLINE} => 2 * p.card <= BITMAP_BYTES
    BY <1>4, <1>10, Sizes
  <2> QED
    BY <1>6, <1>9, <2>1, <2>2
<1>13. ArrayHeld(op, cap, x.acc, c, Tail(td))
  BY <1>2, <1>8, <1>10, <1>11 DEF ArrayHeld
<1>14. Held(op, cap, "array", x.acc, c, Tail(td))
  BY <1>13 DEF Held
<1>15. PICK b : b = x.acc
  OBVIOUS
<1>16. b.card = c /\ b.typ # CT_RUN
  BY <1>11, <1>15, Sizes
<1>17. Started(op, cap, shape, "array", b, c, Tail(td))
  <2>1. b \in Accumulators /\ Held(op, cap, "array", b, c, Tail(td))
    BY <1>11, <1>14, <1>15
  <2>2. b.card = c \/ (b.typ = CT_BITMAP /\ b.card = CARD_LAZY)
    BY <1>16
  <2>3. b.typ = CT_RUN /\ c > 0 => b.runs > 0
    BY <1>16
  <2> QED
    BY <1>4, <1>7, <2>1, <2>2, <2>3, StartedWith
<1> QED
  BY <1>6, <1>12, <1>15, <1>17 DEF Good

\* native_fold (run_fold, run_fold_diff), while there is something to fold.
LEMMA NativeFolded ==
  ASSUME IsPlan(op, cap, shape), NEW a, NEW m, NEW td,
         Started(op, cap, shape, "run", a, m, td), td # << >>, a.card # 0,
         NEW x \in native_fold(a, m, Head(td))
  PROVE  Good(op, cap, shape, "run", x, Tail(td))
<1>1. PICK p : p = Head(td)
  OBVIOUS
<1>2. PICK t : t = Splits(Tail(td))
  OBVIOUS
<1>3. /\ a \in Accumulators /\ m \in Nat /\ m <= KEYSPACE /\ td \in Seq(Containers)
      /\ a.runs \in Nat /\ a.runs <= MAX_RUNS /\ RunsOf(a, m)
      /\ Bounded(op, shape, m, td)
      /\ RunHeld(op, cap, a, m, td)
  BY StartedIs, HeldIs
<1>4. /\ p \in Containers /\ p.card \in Nat /\ p.card <= KEYSPACE
      /\ p.runs \in Nat /\ p.runs <= MAX_RUNS
      /\ p.typ = CT_RUN <=> p.runs > 0
      /\ Tail(td) \in Seq(Containers)
      /\ t \in Nat /\ Splits(td) = splits_into(p) + t
      /\ AllPresent(td) => p.card > 0 /\ AllPresent(Tail(td))
  BY <1>1, <1>2, <1>3, NextIs
<1>5. cap \in Nat /\ op \in {"Union", "Intersect", "Diff"} /\ IsShape(shape)
  BY DEF IsPlan
<1>6. /\ ~ Tight(cap) /\ a.typ = CT_RUN /\ a.card = m
      /\ a.runs + (splits_into(p) + t) <= MAX_RUNS
      /\ p.card > 0 /\ AllPresent(Tail(td))
  BY <1>3, <1>4 DEF RunHeld
<1>7. a.runs > 0
  BY <1>3, <1>6 DEF RunsOf
<1>8. p.typ \in (IF op = "Diff" THEN {CT_RUN, CT_ARRAY} ELSE {CT_RUN})
  <2>1. 1 \in 1 .. Len(td) /\ td[1] = p
    BY <1>1, <1>3, TailIs
  <2> QED
    BY <1>3, <2>1 DEF RunHeld
<1>9. \A i \in 1 .. Len(Tail(td)) :
        Tail(td)[i].typ \in (IF op = "Diff" THEN {CT_RUN, CT_ARRAY} ELSE {CT_RUN})
  <2>1. ASSUME NEW i \in 1 .. Len(Tail(td))
        PROVE  i + 1 \in 1 .. Len(td) /\ Tail(td)[i] = td[i + 1]
    BY <1>3, TailIs
  <2> QED
    BY <1>3, <2>1 DEF RunHeld
<1>10. PICK b \in Nat : /\ b = Fragments(op, a.runs, p) /\ 1 <= b
                        /\ b + t <= MAX_RUNS
  <2>1. splits_into(p) \in Nat /\ (p.typ = CT_RUN => splits_into(p) = p.runs)
        /\ (p.typ = CT_ARRAY => splits_into(p) = p.card)
    BY <1>4, Sizes DEF splits_into
  <2>2. CASE op = "Union"
    <3>1. Fragments(op, a.runs, p) = a.runs + p.runs /\ splits_into(p) = p.runs
      BY <1>8, <2>1, <2>2 DEF Fragments
    <3> QED
      BY <1>3, <1>4, <1>6, <1>7, <3>1
  <2>3. CASE op = "Intersect"
    <3>1. Fragments(op, a.runs, p) = a.runs + p.runs - 1 /\ splits_into(p) = p.runs /\ p.runs > 0
      BY <1>4, <1>8, <2>1, <2>3 DEF Fragments
    <3> QED
      BY <1>3, <1>4, <1>6, <1>7, <3>1, Sizes
  <2>4. CASE op = "Diff"
    <3>1. Fragments(op, a.runs, p) = a.runs + splits_into(p)
      BY <1>8, <2>1, <2>4, Sizes DEF Fragments
    <3> QED
      BY <1>3, <1>4, <1>6, <1>7, <2>1, <3>1
  <2> QED
    BY <1>5, <2>2, <2>3, <2>4
<1>11. PICK c \in Counts(op, m, p.card) :
         x \in { Out(Acc(CT_RUN, c, r, "scratch"), c, {InScratch(4 * r)}) : r \in RunCounts(c, b) }
  BY <1>1, <1>10 DEF native_fold
<1>12. PICK r \in RunCounts(c, b) :
         x = Out(Acc(CT_RUN, c, r, "scratch"), c, {InScratch(4 * r)})
  BY <1>11
<1>13. c \in Nat /\ c <= KEYSPACE /\ Bounded(op, shape, c, Tail(td))
  BY <1>1, <1>3, <1>5, StaysBounded
<1>14. r \in Nat /\ r <= b /\ (c > 0 => r >= 1)
  BY <1>10, <1>13, RunCountsAre
<1>15. r <= MAX_RUNS /\ 4 * r <= BITMAP_BYTES /\ r + t <= MAX_RUNS
  BY <1>4, <1>10, <1>14, Sizes
<1>16. x.acc = Acc(CT_RUN, c, r, "scratch") /\ x.n = c /\ x.wrote = {<< 4 * r, BITMAP_BYTES >>}
  BY <1>12 DEF Out, InScratch
<1>17. x.acc \in Accumulators /\ x.acc.typ = CT_RUN /\ x.acc.card = c /\ x.acc.runs = r
  BY <1>13, <1>14, <1>15, <1>16, AccIs
<1>18. \A w \in x.wrote : w[1] <= w[2]
  BY <1>15, <1>16
<1>19. RunHeld(op, cap, x.acc, c, Tail(td))
  BY <1>2, <1>6, <1>9, <1>15, <1>17 DEF RunHeld
<1>20. Held(op, cap, "run", x.acc, c, Tail(td))
  BY <1>19 DEF Held
<1>21. PICK e : e = x.acc
  OBVIOUS
<1>22. Started(op, cap, shape, "run", e, c, Tail(td))
  <2>1. e \in Accumulators /\ Held(op, cap, "run", e, c, Tail(td))
    BY <1>17, <1>20, <1>21
  <2>2. e.card = c \/ (e.typ = CT_BITMAP /\ e.card = CARD_LAZY)
    BY <1>17, <1>21
  <2>3. e.typ = CT_RUN /\ c > 0 => e.runs > 0
    BY <1>13, <1>14, <1>17, <1>21
  <2> QED
    BY <1>4, <1>13, <2>1, <2>2, <2>3, StartedWith
<1> QED
  BY <1>16, <1>18, <1>21, <1>22 DEF Good

LEMMA BitmapStepped ==
  ASSUME IsPlan(op, cap, shape), NEW a, NEW m, NEW td,
         Started(op, cap, shape, "bitmap", a, m, td), td # << >>,
         NEW counted \in BOOLEAN, NEW x \in bitmap_fold(m, Head(td), counted)
  PROVE  Good(op, cap, shape, "bitmap", x, Tail(td))
<1>1. /\ m \in Nat /\ m <= KEYSPACE /\ td \in Seq(Containers)
      /\ Bounded(op, shape, m, td) /\ BitmapHeld(cap, a, td)
  BY StartedIs, HeldIs
<1>2. ~ Tight(cap) /\ AllPresent(td)
  BY <1>1 DEF BitmapHeld
<1>3. AllPresent(Tail(td)) /\ Tail(td) \in Seq(Containers)
  BY <1>1, <1>2, NextIs
<1>4. /\ x.acc \in Accumulators /\ x.acc.typ = CT_BITMAP /\ x.n \in Nat /\ x.n <= KEYSPACE
      /\ x.acc.card = x.n \/ x.acc.card = CARD_LAZY
      /\ Bounded(op, shape, x.n, Tail(td))
      /\ \A w \in x.wrote : w[1] <= w[2]
  BY <1>1, <1>2, BitmapFolded
<1>5. Held(op, cap, "bitmap", x.acc, x.n, Tail(td))
  BY <1>2, <1>3, <1>4 DEF Held, BitmapHeld
<1>6. PICK b : b = x.acc
  OBVIOUS
<1>7. PICK c : c = x.n
  OBVIOUS
<1>8. Started(op, cap, shape, "bitmap", b, c, Tail(td))
  <2>1. b \in Accumulators /\ c \in Nat /\ c <= KEYSPACE /\ Bounded(op, shape, c, Tail(td))
    BY <1>4, <1>6, <1>7
  <2>2. Held(op, cap, "bitmap", b, c, Tail(td))
    BY <1>5, <1>6, <1>7
  <2>3. b.card = c \/ (b.typ = CT_BITMAP /\ b.card = CARD_LAZY)
    BY <1>4, <1>6, <1>7
  <2>4. b.typ = CT_RUN /\ c > 0 => b.runs > 0
    <3>1. b.typ # CT_RUN
      BY <1>4, <1>6, Sizes
    <3> QED
      BY <3>1
  <2> QED
    BY <1>3, <2>1, <2>2, <2>3, <2>4, StartedWith
<1> QED
  BY <1>4, <1>6, <1>7, <1>8 DEF Good



\* A subtrahend passed by: the key is not in it, or nothing is left of it.
LEMMA Skipped ==
  ASSUME NEW cp, NEW sh, NEW a, NEW m, NEW td,
         Started("Diff", cp, sh, "pass", a, m, td), td # << >>
  PROVE  Started("Diff", cp, sh, "pass", a, m, Tail(td))
<1>1. /\ a \in Accumulators /\ m \in Nat /\ m <= KEYSPACE /\ td \in Seq(Containers)
      /\ Counted(a, m) /\ RunsOf(a, m) /\ Bounded("Diff", sh, m, td)
      /\ DiffPassed(cp, a, m, td)
  BY StartedIs, HeldIs
<1>2. Tail(td) \in Seq(Containers) /\ (NonePresent(td) => NonePresent(Tail(td)))
  BY <1>1, NextIs
<1>3. DiffPassed(cp, a, m, Tail(td)) /\ Bounded("Diff", sh, m, Tail(td))
  BY <1>1, <1>2 DEF DiffPassed, Bounded
<1>4. Held("Diff", cp, "pass", a, m, Tail(td))
  BY <1>3 DEF Held
<1>5. a.card = m \/ (a.typ = CT_BITMAP /\ a.card = CARD_LAZY)
  BY <1>1 DEF Counted
<1>6. a.typ = CT_RUN /\ m > 0 => a.runs > 0
  BY <1>1 DEF RunsOf
<1> QED
  BY <1>1, <1>2, <1>3, <1>4, <1>5, <1>6, StartedWith

\* Seeding a difference from its left side alone: a slot with no room for its
\* stored form has room for the array of its values.
LEMMA DiffSeededAlone ==
  ASSUME IsPlan(op, cap, shape), NEW td \in Seq(Containers), td # << >>,
         Promised("Diff", cap, shape, td), NEW l, l = td[1], l.card > 0
  PROVE  Good("Diff", cap, shape, "pass", diff_seed_alone(l), Tail(td))
<1>1. /\ l \in Containers /\ Tail(td) \in Seq(Containers) /\ Len(td) >= 1
      /\ Len(Tail(td)) = Len(td) - 1
      /\ \A k \in 1 .. Len(td) - 1 : Tail(td)[k] = td[k + 1]
  BY TailIs
<1>2. /\ l.card \in Nat /\ l.card <= KEYSPACE /\ l.runs \in Nat /\ l.runs <= MAX_RUNS
      /\ l.typ \in {CT_ARRAY, CT_BITMAP, CT_RUN, CT_INLINE}
      /\ l.typ = CT_RUN <=> l.runs > 0
      /\ l.typ \in {CT_ARRAY, CT_INLINE} => l.card <= ARRAY_MAX_SIZE
      /\ l.typ = CT_BITMAP => stored(l) = BITMAP_BYTES
      /\ l.typ = CT_RUN => stored(l) = run_bytes(l.runs)
      /\ l.typ \in {CT_ARRAY, CT_INLINE} => stored(l) = 2 * l.card
      /\ stored(l) <= BITMAP_BYTES /\ stored(l) \in Nat
  BY <1>1, StoredIs
<1>3. /\ stored(l) <= cap \/ AnyAfter(td)
      /\ AnyAfter(td) => shrink_cap(l.card) <= cap
      /\ Tight(cap) => AsBuilt(l.card, l.runs)
      /\ shape.card > 0 => l.card <= shape.card
  BY DEF Promised
<1>4. cap \in Nat
  BY DEF IsPlan
<1>5. Bounded("Diff", shape, l.card, Tail(td))
  BY <1>3 DEF Bounded
<1>6. ~ seeds_array(l) => stored(l) <= cap /\ (Tight(cap) => ~ AnyAfter(td))
  BY <1>2, <1>3, <1>4, Sizes DEF seeds_array, shrink_cap, Tight
<1>7. seeds_array(l) => l.card <= ARRAY_MAX_SIZE /\ 2 * l.card <= cap
  BY <1>2, <1>3, <1>4, Sizes DEF seeds_array, shrink_cap
<1>8. ~ AnyAfter(td) => NonePresent(Tail(td))
  <2>1. ASSUME ~ AnyAfter(td), NEW k \in 1 .. Len(Tail(td))
        PROVE  Tail(td)[k].card = 0
    <3>1. k + 1 \in 2 .. Len(td) /\ k \in 1 .. Len(td) - 1 /\ k + 1 \in 1 .. Len(td)
      BY <1>1, <2>1, SeqFacts
    <3>2. ~ (td[k + 1].card > 0) /\ td[k + 1].card \in Nat
      BY <2>1, <3>1, SeqFacts DEF AnyAfter
    <3> QED
      BY <1>1, <3>1, <3>2
  <2> QED
    BY <2>1 DEF NonePresent
<1>9. ASSUME NEW b \in Accumulators, b.card = l.card,
             b.typ = CT_RUN => b.runs > 0, DiffPassed(cap, b, l.card, Tail(td)), NEW x,
             x.acc = b, x.n = l.card, \A w \in x.wrote : w[1] <= w[2]
      PROVE  Good("Diff", cap, shape, "pass", x, Tail(td))
  <2>1. Held("Diff", cap, "pass", b, l.card, Tail(td))
    BY <1>9 DEF Held
  <2>2. PICK c \in Nat : c = l.card /\ c <= KEYSPACE
    BY <1>2
  <2>3. b.card = c \/ (b.typ = CT_BITMAP /\ b.card = CARD_LAZY)
    BY <1>9, <2>2
  <2>4. b.typ = CT_RUN /\ c > 0 => b.runs > 0
    BY <1>9
  <2>5. Started("Diff", cap, shape, "pass", b, c, Tail(td))
    BY <1>1, <1>5, <1>9, <2>1, <2>2, <2>3, <2>4, StartedWith
  <2> QED
    BY <1>9, <2>2, <2>5 DEF Good
<1>10. PICK x : x = diff_seed_alone(l)
  OBVIOUS
<1>11. PICK c \in Nat : c = l.card /\ c <= KEYSPACE
  BY <1>2
<1>12. CASE seeds_array(l)
  <2>1. x = load_array(l)
    BY <1>10, <1>12 DEF diff_seed_alone
  <2>2. x.acc = Acc(CT_ARRAY, c, 0, "slot") /\ x.n = c /\ x.wrote = {<< 2 * c, cap >>}
    BY <1>11, <2>1 DEF load_array, Out, InSlot
  <2>3. PICK b : b = x.acc /\ b \in Accumulators /\ b.typ = CT_ARRAY /\ b.card = c
    BY <1>11, <2>2, ArrayOut
  <2>4. b.typ # CT_RUN
    BY <2>3, Sizes
  <2>5. DiffPassed(cap, b, l.card, Tail(td))
    BY <1>7, <1>12, <2>3, Sizes DEF DiffPassed, Fits
  <2>6. \A w \in x.wrote : w[1] <= w[2]
    BY <1>7, <1>11, <1>12, <2>2
  <2> QED
    BY <1>9, <1>10, <1>11, <2>2, <2>3, <2>4, <2>5, <2>6
<1>13. CASE ~ seeds_array(l) /\ l.typ = CT_RUN
  <2>1. x = copy_runs(l)
    BY <1>10, <1>13 DEF diff_seed_alone
  <2>2. /\ x.acc = Acc(CT_RUN, c, l.runs, "slot") /\ x.n = c
        /\ x.wrote = {<< run_bytes(l.runs), cap >>}
    BY <1>11, <1>13, <2>1 DEF copy_runs, Seeded, Out, InSlot
  <2>3. PICK b : b = x.acc /\ b \in Accumulators /\ b.typ = CT_RUN /\ b.card = c /\ b.runs = l.runs
    BY <1>2, <1>11, <2>2, AccIs
  <2>4. run_bytes(l.runs) <= cap
    BY <1>2, <1>6, <1>13
  <2>5. DiffPassed(cap, b, l.card, Tail(td))
    BY <1>3, <1>6, <1>8, <1>13, <2>3, <2>4, Sizes DEF DiffPassed
  <2>6. \A w \in x.wrote : w[1] <= w[2]
    BY <2>2, <2>4
  <2>7. b.runs > 0
    BY <1>2, <1>13, <2>3
  <2> QED
    BY <1>9, <1>10, <1>11, <2>2, <2>3, <2>5, <2>6, <2>7
<1>14. CASE ~ seeds_array(l) /\ l.typ # CT_RUN
  <2>1. x = load_bitmap(l)
    BY <1>10, <1>14 DEF diff_seed_alone
  <2>2. x.acc = Acc(CT_BITMAP, c, 0, "slot") /\ x.n = c /\ x.wrote = {<< BITMAP_BYTES, cap >>}
    BY <1>11, <2>1 DEF load_bitmap, Out, InSlot
  <2>3. PICK b : b = x.acc /\ b \in Accumulators /\ b.typ = CT_BITMAP /\ b.card = c
    <3>1. 0 <= MAX_RUNS
      BY Sizes
    <3> QED
      BY <1>11, <2>2, <3>1, AccIs
  <2>4. l.typ = CT_BITMAP
    BY <1>2, <1>14 DEF seeds_array
  <2>5. BITMAP_BYTES <= cap /\ ~ Tight(cap)
    BY <1>2, <1>4, <1>6, <1>14, <2>4, Sizes DEF Tight
  <2>6. DiffPassed(cap, b, l.card, Tail(td))
    BY <2>3, <2>5, Sizes DEF DiffPassed
  <2>7. \A w \in x.wrote : w[1] <= w[2]
    BY <2>2, <2>5
  <2>8. b.typ # CT_RUN
    BY <2>3, Sizes
  <2> QED
    BY <1>9, <1>10, <1>11, <2>2, <2>3, <2>6, <2>7, <2>8
<1> QED
  BY <1>10, <1>12, <1>13, <1>14

\* diff_seed: the left side, with the first subtrahend folded in.
LEMMA DiffSeeded ==
  ASSUME IsPlan(op, cap, shape), op = "Diff", NEW td \in Seq(Containers), td # << >>,
         Promised("Diff", cap, shape, td), td[1].card > 0,
         NEW p, p = (IF Len(td) > 1 THEN td[2] ELSE Absent),
         NEW x \in diff_seed(td[1], p, Len(td) = 2)
  PROVE  Good("Diff", cap, shape, "pass", x, SubSeq(td, 3, Len(td)))
<1>1. PICK l : l = td[1]
  OBVIOUS
<1>2. PICK s : s = diff_seed_alone(l)
  OBVIOUS
<1>3. PICK rest : rest = Tail(td)
  OBVIOUS
<1>4. /\ l \in Containers /\ rest \in Seq(Containers) /\ Len(td) >= 1
      /\ Len(td) \in Nat /\ Len(rest) = Len(td) - 1
      /\ \A k \in 1 .. Len(td) - 1 : rest[k] = td[k + 1]
  BY <1>1, <1>3, TailIs, SeqFacts
<1>5. Good("Diff", cap, shape, "pass", s, rest)
  BY <1>1, <1>2, <1>3, DiffSeededAlone
<1>6. Started("Diff", cap, shape, "pass", s.acc, s.n, rest) /\ \A w \in s.wrote : w[1] <= w[2]
  BY <1>5 DEF Good
<1>7. /\ Len(td) = 1 => SubSeq(td, 3, Len(td)) = rest
      /\ Len(td) > 1 => /\ rest # << >> /\ Head(rest) = p
                        /\ SubSeq(td, 3, Len(td)) = Tail(rest)
  <2>1. CASE Len(td) = 1
    <3>1. Len(rest) = 0 /\ rest = << >>
      BY <1>4, <2>1
    <3>2. SubSeq(td, 3, Len(td)) = << >>
      BY <2>1
    <3> QED
      BY <2>1, <3>1, <3>2
  <2>2. CASE Len(td) > 1
    <3>1. rest # << >> /\ Head(rest) = rest[1]
      BY <1>4, <2>2
    <3>2. rest[1] = td[2] /\ p = td[2]
      BY <1>4, <2>2
    <3>3. PICK u : u = Tail(rest)
      OBVIOUS
    <3>4. u \in Seq(Containers) /\ Len(u) = Len(td) - 2 /\ \A k \in 1 .. Len(u) : u[k] = td[k + 2]
      BY <1>4, <3>1, <3>3, TailIs
    <3>5. PICK v : v = SubSeq(td, 3, Len(td))
      OBVIOUS
    <3>6. v \in Seq(Containers) /\ Len(v) = Len(td) - 2 /\ \A k \in 1 .. Len(v) : v[k] = td[k + 2]
      BY <1>4, <2>2, <3>5, SubSeqProperties
    <3>7. u = v
      <4>1. Len(u) = Len(v) /\ \A k \in 1 .. Len(u) : u[k] = v[k]
        BY <3>4, <3>6
      <4> QED
        BY <3>4, <3>6, <4>1, SeqEqual
    <3> QED
      BY SMTT(60), <2>2, <3>1, <3>2, <3>3, <3>5, <3>7
  <2> QED
    BY <1>4, <2>1, <2>2
<1>8. CASE p.card = 0
  <2>1. x = s
    BY <1>1, <1>2, <1>8 DEF diff_seed
  <2>2. CASE Len(td) = 1
    BY <1>6, <1>7, <2>1, <2>2 DEF Good
  <2>3. CASE Len(td) > 1
    <3>1. Started("Diff", cap, shape, "pass", s.acc, s.n, Tail(rest))
      BY <1>6, <1>7, <2>3, Skipped
    <3> QED
      BY <1>6, <1>7, <2>1, <2>3, <3>1 DEF Good
  <2> QED
    BY <1>4, <2>2, <2>3
<1>9. ASSUME p.card # 0, NEW z, NEW last \in BOOLEAN, z \in diff_apply(s.acc, s.n, p, last)
      PROVE  Good("Diff", cap, shape, "pass", z, SubSeq(td, 3, Len(td)))
  <2>1. Len(td) > 1
    BY <1>4, <1>9, AbsentIs
  <2>2. Good(op, cap, shape, "pass", z, Tail(rest))
    BY <1>6, <1>7, <1>9, <2>1, DiffApplied
  <2> QED
    BY <1>7, <2>1, <2>2
<1>10. CASE p.card # 0 /\ l.typ = CT_ARRAY /\ p.typ = CT_ARRAY
  <2>1. x \in { Out(Acc(CT_ARRAY, c, 0, "slot"), c, {InSlot(2 * c)}) : c \in Counts(op, l.card, p.card) }
    BY <1>1, <1>10 DEF diff_seed
  <2>2. l.card <= ARRAY_MAX_SIZE
    BY <1>4, <1>10, StoredIs
  <2>3. s.acc.typ = CT_ARRAY /\ s.n = l.card
    BY <1>2, <1>10, <2>2 DEF diff_seed_alone, seeds_array, load_array, Out, Acc
  <2>4. PICK c \in Counts(op, l.card, p.card) : x = Out(Acc(CT_ARRAY, c, 0, "slot"), c, {InSlot(2 * c)})
    BY <2>1
  <2>5. x \in diff_apply(s.acc, s.n, p, TRUE)
    <3>1. {InSlot(2 * c)} = {InSlot(2 * c)} \cup staged(p, SCRATCH_BYTES)
      BY <1>10 DEF staged
    <3>2. x = Out(Acc(CT_ARRAY, c, 0, "slot"), c,
                  IF p.typ \in {CT_ARRAY, CT_INLINE}
                  THEN {InSlot(2 * c)} \cup staged(p, SCRATCH_BYTES) ELSE {})
      BY <1>10, <2>4, <3>1
    <3> HIDE <3>1
    <3> QED
      BY <2>3, <2>4, <3>2 DEF diff_apply
  <2> QED
    BY <1>9, <1>10, <2>5
<1>11. CASE /\ p.card # 0 /\ ~ (l.typ = CT_ARRAY /\ p.typ = CT_ARRAY)
            /\ l.typ = CT_BITMAP /\ p.typ = CT_BITMAP /\ l.card > ARRAY_MAX_SIZE
  <2>1. x \in bitmap_fold(l.card, p, TRUE)
    BY <1>1, <1>11 DEF diff_seed
  <2>2. ~ seeds_array(l) /\ l.typ # CT_RUN
    BY <1>4, <1>11, StoredIs, Sizes DEF seeds_array
  <2>3. s.acc.typ = CT_BITMAP /\ s.n = l.card
    BY <1>2, <1>11, <2>2 DEF diff_seed_alone, load_bitmap, Out, Acc
  <2>4. s.acc.typ # CT_ARRAY /\ s.acc.typ # CT_RUN
    BY <2>3, Sizes
  <2>5. x \in diff_apply(s.acc, s.n, p, TRUE)
    BY <2>1, <2>3, <2>4 DEF diff_apply
  <2> QED
    BY <1>9, <1>11, <2>5
<1>12. CASE /\ p.card # 0 /\ ~ (l.typ = CT_ARRAY /\ p.typ = CT_ARRAY)
            /\ ~ (l.typ = CT_BITMAP /\ p.typ = CT_BITMAP /\ l.card > ARRAY_MAX_SIZE)
  <2>1. PICK last \in BOOLEAN : last = (Len(td) = 2)
    BY <1>4
  <2>2. x \in { [z EXCEPT !.wrote = @ \cup s.wrote] : z \in diff_apply(s.acc, s.n, p, last) }
    BY <1>1, <1>2, <1>12, <2>1 DEF diff_seed
  <2>3. PICK z \in diff_apply(s.acc, s.n, p, last) : x = [z EXCEPT !.wrote = @ \cup s.wrote]
    BY <2>2
  <2>4. \E za, zn, zw : z = Out(za, zn, zw)
    <3>1. CASE s.acc.typ = CT_ARRAY
      <4>1. PICK c \in Counts(op, s.n, p.card) :
              z = Out(Acc(CT_ARRAY, c, 0, "slot"), c,
                      IF p.typ \in {CT_ARRAY, CT_INLINE}
                      THEN {InSlot(2 * c)} \cup staged(p, SCRATCH_BYTES) ELSE {})
        BY <2>3, <3>1 DEF diff_apply
      <4> QED
        BY <4>1
    <3>2. CASE s.acc.typ # CT_ARRAY /\ s.acc.typ = CT_RUN /\ splits(s.acc, p)
      <4>1. z \in run_split(s.acc.runs, s.n, p, s.acc.runs + diff_extra(p))
        BY <3>2 DEF diff_apply
      <4> QED
        <5>1. PICK b : b = s.acc.runs + diff_extra(p)
          OBVIOUS
        <5>2. PICK i : i = s.acc.runs
          OBVIOUS
        <5>3. PICK j : j = s.n
          OBVIOUS
        <5>4. z \in run_split(i, j, p, b)
          BY <4>1, <5>1, <5>2, <5>3
        <5>5. PICK c \in Counts(op, j, p.card) :
                z \in { Out(Acc(CT_RUN, c, q, "slot"), c,
                            {InSlot(run_bytes(b)), << run_bytes(q), run_bytes(b) >>}) :
                          q \in RunCounts(c, Fragments(op, i, p)) }
          BY <5>4 DEF run_split
        <5> QED
          BY <5>5
    <3>3. CASE s.acc.typ # CT_ARRAY /\ ~ (s.acc.typ = CT_RUN /\ splits(s.acc, p))
      <4>1. z \in bitmap_fold(s.n, p, last)
        BY <3>3 DEF diff_apply
      <4> QED
        BY <4>1 DEF bitmap_fold
    <3> QED
      BY <3>1, <3>2, <3>3
  <2>5. x.acc = z.acc /\ x.n = z.n /\ x.wrote = z.wrote \cup s.wrote
    BY <2>3, <2>4 DEF Out
  <2>6. Good("Diff", cap, shape, "pass", z, SubSeq(td, 3, Len(td)))
    BY <1>9, <1>12
  <2> QED
    BY <1>6, <2>5, <2>6 DEF Good
<1> QED
  BY <1>8, <1>10, <1>11, <1>12


----------------------------------------------------------------------------
\* Starting a key-major fold.

\* The containers present at the key, as the fold finds them.
Gathered(td, cs) ==
  /\ cs \in Seq(Containers) /\ cs # << >> /\ AllPresent(cs)
  /\ TotalCard(cs) = TotalCard(td)
  /\ \A j \in 1 .. Len(td) : td[j].card > 0 => \E i \in 1 .. Len(cs) : cs[i] = td[j]

LEMMA GatheredIs ==
  ASSUME NEW o \in {"Union", "Intersect", "Diff"}, NEW td \in Seq(Containers), td # << >>,
         Reaches(o, td)
  PROVE  /\ Gathered(td, Present(td))
         /\ o = "Diff" => /\ Present(td)[1] = td[1]
                          /\ Len(Present(td)) >= 2 <=> AnyAfter(td)
<1>1. PICK cs : cs = Present(td)
  OBVIOUS
<1>2. PresentUpto(td, Len(td), cs) /\ TotalCard(cs) = TotalCard(td)
  BY <1>1, PresentIs
<1>3. /\ cs \in Seq(Containers)
      /\ \A i \in 1 .. Len(cs) : cs[i].card > 0
      /\ \A j \in 1 .. Len(td) : td[j].card > 0 => \E i \in 1 .. Len(cs) : cs[i] = td[j]
      /\ td[1].card > 0 /\ Len(td) >= 1 =>
           /\ Len(cs) >= 1 /\ cs[1] = td[1]
           /\ Len(cs) >= 2 <=> \E j \in 2 .. Len(td) : td[j].card > 0
  BY <1>2 DEF PresentUpto
<1>4. Len(td) \in Nat /\ Len(td) >= 1 /\ DOMAIN td = 1 .. Len(td) /\ 1 \in 1 .. Len(td)
  BY SeqFacts, TailIs
<1>5. \E j \in 1 .. Len(td) : td[j].card > 0
  BY <1>4 DEF Reaches
<1>6. cs # << >>
  <2>1. PICK i : i \in 1 .. Len(cs)
    BY <1>3, <1>5
  <2> QED
    BY <2>1
<1>7. Gathered(td, cs)
  BY <1>2, <1>3, <1>6 DEF Gathered, AllPresent
<1>8. o = "Diff" => td[1].card > 0
  BY DEF Reaches
<1> QED
  BY <1>1, <1>3, <1>4, <1>7, <1>8 DEF AnyAfter

LEMMA MinPresent ==
  ASSUME NEW cs \in Seq(Containers), cs # << >>
  PROVE  /\ MinCard(cs) \in Nat
         /\ \A k \in 1 .. Len(cs) : MinCard(cs) <= cs[k].card
         /\ \E k \in 1 .. Len(cs) : cs[k].card = MinCard(cs)
<1>1. /\ Len(cs) \in Nat /\ Len(cs) >= 1 /\ DOMAIN cs = 1 .. Len(cs)
      /\ \A k \in 1 .. Len(cs) : cs[k].card \in Nat
  BY SeqFacts, TailIs
<1>2. PICK S : S = {cs[k].card : k \in DOMAIN cs}
  OBVIOUS
<1>3. S \in SUBSET Nat /\ S # {}
  <2>1. cs[1].card \in S
    BY <1>1, <1>2
  <2> QED
    BY <1>1, <1>2, <2>1
<1>4. Least(S) \in S /\ \A y \in S : Least(S) <= y
  BY <1>3, LeastIs
<1>5. MinCard(cs) = Least(S)
  BY <1>2 DEF MinCard
<1> QED
  BY <1>1, <1>2, <1>3, <1>4, <1>5

LEMMA RunsSplit ==
  ASSUME NEW cs \in Seq(Containers), AllRuns(cs)
  PROVE  Splits(cs) = TotalRuns(cs)
<1>1. Len(cs) \in Nat /\ DOMAIN cs = 1 .. Len(cs)
  BY SeqFacts
<1>2. PICK u : u = Each(LAMBDA m : m.runs, cs)
  OBVIOUS
<1>3. PICK v : v = Each(splits_into, cs)
  OBVIOUS
<1>4. \A k \in 1 .. Len(cs) : u[k] = v[k]
  <2>1. CT_RUN # CT_ARRAY
    BY Sizes
  <2>2. ASSUME NEW k \in 1 .. Len(cs)
        PROVE  u[k] = v[k]
    <3>1. cs[k].typ # CT_ARRAY
      BY <1>1, <2>1 DEF AllRuns
    <3>2. u[k] = cs[k].runs
      BY <1>1, <1>2 DEF Each
    <3>3. v[k] = splits_into(cs[k])
      BY <1>1, <1>3 DEF Each
    <3> QED
      BY <3>1, <3>2, <3>3 DEF splits_into
  <2> QED
    BY <2>2
<1>5. Total(u, Len(cs)) = Total(v, Len(cs))
  BY <1>1, <1>4, TotalFacts
<1> QED
  BY <1>2, <1>3, <1>5 DEF Splits, TotalRuns

\* What the form f owes to the plan when the fold starts from c with rest left.
KeyChoice(f, c, rest) ==
  /\ f \in {"array", "run", "bitmap", "verbatim"}
  /\ Bounded(op, shape, c.card, rest)
  /\ f = "array" => /\ Fits(cap, c.card)
                    /\ op = "Union" => Fits(cap, c.card + TotalCard(rest))
  /\ f = "run" =>
       /\ ~ Tight(cap) /\ c.typ = CT_RUN
       /\ c.runs + Splits(rest) <= MAX_RUNS
       /\ \A k \in 1 .. Len(rest) :
            rest[k].typ \in (IF op = "Diff" THEN {CT_RUN, CT_ARRAY} ELSE {CT_RUN})
  /\ f = "bitmap" => ~ Tight(cap)
  /\ f = "verbatim" => /\ op = "Diff" /\ rest = << >> /\ stored(c) <= cap
                       /\ Tight(cap) => AsBuilt(c.card, c.runs)

\* A fold that keeps runs starts from runs and finds no more than its plan counted.
LEMMA RunsLeft ==
  ASSUME NEW cs \in Seq(Containers), NEW i \in 1 .. Len(cs), AllRuns(cs),
         TotalRuns(cs) <= MAX_RUNS
  PROVE  /\ cs[i].typ = CT_RUN
         /\ cs[i].runs + Splits(RemoveAt(cs, i)) <= MAX_RUNS
         /\ \A k \in 1 .. Len(RemoveAt(cs, i)) : RemoveAt(cs, i)[k].typ = CT_RUN
<1>1. PICK rest : rest = RemoveAt(cs, i)
  OBVIOUS
<1>2. /\ rest \in Seq(Containers)
      /\ \A k \in DOMAIN rest : \E j \in DOMAIN cs : rest[k] = cs[j]
      /\ Splits(cs) = splits_into(cs[i]) + Splits(rest)
  BY <1>1, RemovedIs
<1>3. DOMAIN cs = 1 .. Len(cs) /\ DOMAIN rest = 1 .. Len(rest)
  BY <1>2, SeqFacts
<1>4. cs[i].typ = CT_RUN /\ \A k \in 1 .. Len(rest) : rest[k].typ = CT_RUN
  BY <1>2, <1>3 DEF AllRuns
<1>5. CT_RUN # CT_ARRAY
  BY Sizes
<1>6. splits_into(cs[i]) = cs[i].runs
  BY <1>4, <1>5 DEF splits_into
<1>7. Splits(cs) = TotalRuns(cs)
  BY RunsSplit
<1>8. cs[i].runs + Splits(rest) <= MAX_RUNS
  BY <1>2, <1>6, <1>7
<1> QED
  BY <1>1, <1>4, <1>8

LEMMA KeyUnion ==
  ASSUME IsPlan(op, cap, shape), op = "Union", NEW td \in Seq(Containers),
         Promised(op, cap, shape, td), NEW cs, Gathered(td, cs),
         NEW f, f = key_form(cs), NEW i, i = key_seed(cs, f)
  PROVE  i \in 1 .. Len(cs) /\ KeyChoice(f, cs[i], RemoveAt(cs, i))
<1>1. /\ cs \in Seq(Containers) /\ cs # << >> /\ TotalCard(cs) = TotalCard(td)
  BY DEF Gathered
<1>2. Len(cs) \in Nat /\ Len(cs) >= 1 /\ DOMAIN cs = 1 .. Len(cs)
  BY <1>1, SeqFacts, TailIs
<1>3. cap \in Nat
  BY DEF IsPlan
<1>4. i \in 1 .. Len(cs)
  <2>1. CASE f = "bitmap" /\ (\E j \in DOMAIN cs : cs[j].typ = CT_BITMAP)
    <3>1. PICK S : S = {j \in DOMAIN cs : cs[j].typ = CT_BITMAP}
      OBVIOUS
    <3>2. S \in SUBSET Nat /\ S # {} /\ S \subseteq 1 .. Len(cs)
      BY <1>2, <2>1, <3>1
    <3>3. i = Least(S)
      BY <2>1, <3>1 DEF key_seed
    <3> QED
      BY <3>2, <3>3, LeastIs
  <2>2. CASE ~ (f = "bitmap" /\ (\E j \in DOMAIN cs : cs[j].typ = CT_BITMAP))
    <3>1. i = 1
      BY <2>2 DEF key_seed
    <3> QED
      BY <1>2, <3>1
  <2> QED
    BY <2>1, <2>2
<1>5. PICK c : c = cs[i]
  OBVIOUS
<1>6. PICK rest : rest = RemoveAt(cs, i)
  OBVIOUS
<1>7. /\ rest \in Seq(Containers) /\ c \in Containers
      /\ TotalCard(cs) = c.card + TotalCard(rest)
  BY <1>1, <1>4, <1>5, <1>6, RemovedIs, SeqFacts
<1>8. c.card \in Nat /\ TotalCard(rest) \in Nat
  BY <1>7, SeqFacts, StoredIs
<1>9. /\ Tight(cap) => Fits(cap, c.card + TotalCard(rest))
      /\ shape.card > 0 => c.card + TotalCard(rest) <= shape.card
  BY <1>1, <1>7 DEF Promised
<1>10. Bounded(op, shape, c.card, rest)
  BY <1>8, <1>9 DEF Bounded, IsPlan, IsShape
<1>11. Tight(cap) => Fits(cap, c.card)
  <2>1. c.card + TotalCard(rest) \in Nat /\ c.card <= c.card + TotalCard(rest)
    BY <1>8
  <2> QED
    BY <1>3, <1>8, <1>9, <2>1, FitsLess
<1>12. f = IF Tight(cap) THEN "array"
           ELSE IF AllRuns(cs) /\ TotalRuns(cs) <= MAX_RUNS THEN "run" ELSE "bitmap"
  BY DEF key_form, Tight
<1>13. f = "run" => /\ c.typ = CT_RUN /\ c.runs + Splits(rest) <= MAX_RUNS
                    /\ \A k \in 1 .. Len(rest) : rest[k].typ = CT_RUN
  BY <1>1, <1>4, <1>5, <1>6, <1>12, RunsLeft
<1>14. KeyChoice(f, c, rest)
  BY <1>9, <1>10, <1>11, <1>12, <1>13 DEF KeyChoice
<1> QED
  BY <1>4, <1>5, <1>6, <1>14

LEMMA KeyIntersect ==
  ASSUME IsPlan(op, cap, shape), op = "Intersect", NEW td \in Seq(Containers),
         Promised(op, cap, shape, td), Reaches(op, td), NEW cs, Gathered(td, cs),
         NEW f, f = key_form(cs), NEW i, i = key_seed(cs, f)
  PROVE  i \in 1 .. Len(cs) /\ KeyChoice(f, cs[i], RemoveAt(cs, i))
<1>1. cs \in Seq(Containers) /\ cs # << >>
  BY DEF Gathered
<1>2. /\ Len(cs) \in Nat /\ Len(cs) >= 1 /\ DOMAIN cs = 1 .. Len(cs)
      /\ \A k \in 1 .. Len(cs) : cs[k].card \in Nat
  BY <1>1, SeqFacts, TailIs
<1>3. cap \in Nat /\ IsShape(shape)
  BY DEF IsPlan
<1>4. PICK low \in Nat : /\ low = MinCard(cs)
                         /\ \A k \in 1 .. Len(cs) : low <= cs[k].card
                         /\ \E k \in 1 .. Len(cs) : cs[k].card = low
  BY <1>1, MinPresent
<1>5. i \in 1 .. Len(cs) /\ cs[i].card = low
  <2>1. PICK S : S = {j \in DOMAIN cs : cs[j].card = MinCard(cs)}
    OBVIOUS
  <2>2. S \in SUBSET Nat /\ S # {} /\ \A j \in S : j \in 1 .. Len(cs) /\ cs[j].card = low
    BY <1>2, <1>4, <2>1
  <2>3. i = Least(S)
    BY <2>1 DEF key_seed
  <2> QED
    BY <2>2, <2>3, LeastIs
<1>6. PICK c : c = cs[i]
  OBVIOUS
<1>7. PICK rest : rest = RemoveAt(cs, i)
  OBVIOUS
<1>8. \A j \in 1 .. Len(td) : td[j].card \in Nat /\ low <= td[j].card
  <2>1. ASSUME NEW j \in 1 .. Len(td)
        PROVE  td[j].card \in Nat /\ low <= td[j].card
    <3>1. DOMAIN td = 1 .. Len(td) /\ td[j].card \in Nat
      BY SeqFacts
    <3>2. td[j].card > 0
      BY <3>1 DEF Reaches
    <3>3. PICK k \in 1 .. Len(cs) : cs[k] = td[j]
      BY <3>2 DEF Gathered
    <3> QED
      BY <1>4, <3>1, <3>3
  <2> QED
    BY <2>1
<1>9. Bounded(op, shape, low, rest)
  BY <1>3, <1>8 DEF Promised, Bounded, IsShape
<1>10. Tight(cap) => Fits(cap, low)
  <2>1. ASSUME Tight(cap) PROVE Fits(cap, low)
    <3>1. PICK j \in 1 .. Len(td) : Fits(cap, td[j].card)
      BY <2>1 DEF Promised
    <3> QED
      BY <1>3, <1>8, <3>1, FitsLess
  <2> QED
    BY <2>1
<1>11. low <= ARRAY_MAX_SIZE => Fits(cap, low)
  BY <1>3, <1>10, Sizes DEF Fits, Tight
<1>12. low > ARRAY_MAX_SIZE => ~ Tight(cap)
  BY <1>10, Sizes DEF Fits
<1>13. f = IF low <= ARRAY_MAX_SIZE THEN "array"
           ELSE IF AllRuns(cs) /\ TotalRuns(cs) <= MAX_RUNS THEN "run" ELSE "bitmap"
  BY <1>4 DEF key_form
<1>14. f = "run" => /\ c.typ = CT_RUN /\ c.runs + Splits(rest) <= MAX_RUNS
                    /\ \A k \in 1 .. Len(rest) : rest[k].typ = CT_RUN
  BY <1>1, <1>5, <1>6, <1>7, <1>13, RunsLeft
<1>15. f = "array" => Fits(cap, low)
  BY <1>11, <1>13
<1>16. f \in {"run", "bitmap"} => ~ Tight(cap)
  BY <1>12, <1>13, Sizes
<1>17. f \in {"array", "run", "bitmap"}
  BY <1>13
<1>18. KeyChoice(f, c, rest)
  BY <1>5, <1>6, <1>9, <1>14, <1>15, <1>16, <1>17 DEF KeyChoice
<1> QED
  BY <1>5, <1>6, <1>7, <1>18

LEMMA KeyDiff ==
  ASSUME IsPlan(op, cap, shape), op = "Diff", NEW td \in Seq(Containers),
         Promised(op, cap, shape, td), NEW cs, Gathered(td, cs),
         cs[1] = td[1], Len(cs) >= 2 <=> AnyAfter(td),
         NEW f, f = key_form(cs), NEW i, i = key_seed(cs, f)
  PROVE  i \in 1 .. Len(cs) /\ KeyChoice(f, cs[i], RemoveAt(cs, i))
<1>1. cs \in Seq(Containers) /\ cs # << >> /\ AllPresent(cs)
  BY DEF Gathered
<1>2. Len(cs) \in Nat /\ Len(cs) >= 1 /\ DOMAIN cs = 1 .. Len(cs) /\ 1 \in 1 .. Len(cs)
  BY <1>1, SeqFacts, TailIs
<1>3. cap \in Nat /\ IsShape(shape)
  BY DEF IsPlan
<1>4. i = 1
  BY DEF key_seed
<1>5. PICK c : c = cs[1]
  OBVIOUS
<1>6. PICK rest : rest = RemoveAt(cs, 1)
  OBVIOUS
<1>7. /\ c \in Containers /\ c.card > 0 /\ c.card \in Nat /\ c.card <= KEYSPACE
      /\ c.runs \in Nat /\ stored(c) \in Nat
  BY <1>1, <1>2, <1>5, SeqFacts, StoredIs DEF AllPresent
<1>8. /\ stored(c) <= cap \/ AnyAfter(td)
      /\ AnyAfter(td) => shrink_cap(c.card) <= cap
      /\ Tight(cap) => AsBuilt(c.card, c.runs)
      /\ shape.card > 0 => c.card <= shape.card
  BY <1>5, <1>7 DEF Promised
<1>9. Bounded(op, shape, c.card, rest)
  BY <1>8 DEF Bounded
<1>10. rest = Tail(cs)
  <2>1. PICK u : u = Tail(cs)
    OBVIOUS
  <2>2. u \in Seq(Containers) /\ Len(u) = Len(cs) - 1 /\ \A k \in 1 .. Len(cs) - 1 : u[k] = cs[k + 1]
    BY <1>1, <2>1, TailIs
  <2>3. /\ rest \in Seq(Containers) /\ Len(rest) = Len(cs) - 1
        /\ \A k \in 1 .. Len(cs) - 1 : rest[k] = IF k < 1 THEN cs[k] ELSE cs[k + 1]
    BY <1>1, <1>2, <1>6, RemovedIs
  <2>4. ASSUME NEW k \in 1 .. Len(u)
        PROVE  u[k] = rest[k]
    <3>1. k \in 1 .. Len(cs) - 1 /\ ~ (k < 1)
      BY <2>2
    <3>2. u[k] = cs[k + 1] /\ rest[k] = cs[k + 1]
      BY <2>2, <2>3, <3>1
    <3> QED
      BY <3>2
  <2>5. u = rest
    BY <2>2, <2>3, <2>4, SeqEqual
  <2> QED
    BY <2>1, <2>5
<1>11. f = IF Len(cs) = 1 THEN "verbatim"
           ELSE IF c.card <= ARRAY_MAX_SIZE THEN "array"
           ELSE IF c.typ = CT_RUN /\ Splittable(cs) /\ diff_run_bound(cs) <= MAX_RUNS
           THEN "run" ELSE "bitmap"
  BY <1>5 DEF key_form
<1>12. CASE Len(cs) = 1
  <2>1. f = "verbatim" /\ ~ AnyAfter(td)
    BY <1>11, <1>12
  <2>2. rest = << >>
    <3>1. Tail(cs) \in Seq(Containers) /\ Len(Tail(cs)) = 0
      BY <1>1, <1>12, TailIs
    <3> QED
      BY <1>10, <3>1
  <2>3. stored(c) <= cap /\ (Tight(cap) => AsBuilt(c.card, c.runs))
    BY <1>8, <2>1
  <2>4. KeyChoice(f, c, rest)
    BY <1>9, <2>1, <2>2, <2>3 DEF KeyChoice
  <2> QED
    BY <1>2, <1>4, <1>5, <1>6, <2>4
<1>13. CASE Len(cs) # 1
  <2>1. AnyAfter(td) /\ shrink_cap(c.card) <= cap
    BY <1>2, <1>8, <1>13
  <2>2. c.card <= ARRAY_MAX_SIZE => Fits(cap, c.card)
    BY <1>3, <1>7, <2>1, Sizes DEF shrink_cap, Fits
  <2>3. c.card > ARRAY_MAX_SIZE => ~ Tight(cap)
    BY <1>3, <1>7, <2>1, Sizes DEF shrink_cap, Tight
  <2>4. ~ (c.card <= ARRAY_MAX_SIZE) => c.card > ARRAY_MAX_SIZE
    BY <1>7, Sizes
  <2>5. f \in {"array", "run", "bitmap"} /\ f # "verbatim"
    BY <1>11, <1>13
  <2>6. /\ f = "array" => Fits(cap, c.card)
        /\ f # "array" => ~ Tight(cap)
        /\ f = "run" => c.typ = CT_RUN /\ Splittable(cs) /\ diff_run_bound(cs) <= MAX_RUNS
    BY <1>11, <1>13, <2>2, <2>3, <2>4
  <2>7. f = "run" => /\ c.runs + Splits(rest) <= MAX_RUNS
                     /\ \A k \in 1 .. Len(rest) : rest[k].typ \in {CT_RUN, CT_ARRAY}
    <3>1. /\ Len(Tail(cs)) = Len(cs) - 1
          /\ \A k \in 1 .. Len(cs) - 1 : Tail(cs)[k] = cs[k + 1]
      BY <1>1, TailIs
    <3>2. diff_run_bound(cs) = c.runs + Splits(rest)
      BY <1>5, <1>10, <3>1 DEF diff_run_bound, Splits
    <3>3. ASSUME Splittable(cs), NEW k \in 1 .. Len(rest)
          PROVE  rest[k].typ \in {CT_RUN, CT_ARRAY}
      <4>1. k \in 1 .. Len(cs) - 1 /\ k + 1 \in 2 .. Len(cs) /\ k + 1 \in 1 .. Len(cs)
        BY <1>2, <1>10, <3>1
      <4>2. cs[k + 1].card > 0 /\ rest[k] = cs[k + 1]
        BY <1>1, <1>10, <3>1, <4>1 DEF AllPresent
      <4> QED
        BY <3>3, <4>1, <4>2 DEF Splittable
    <3> QED
      BY <2>6, <3>2, <3>3
  <2>8. KeyChoice(f, c, rest)
    BY <1>9, <2>5, <2>6, <2>7 DEF KeyChoice
  <2> QED
    BY <1>2, <1>4, <1>5, <1>6, <2>8
<1> QED
  BY <1>12, <1>13

\* A key-major fold starts from a container that is present, in a form its
\* slot has room for.
LEMMA KeyStarted ==
  ASSUME IsPlan(op, cap, shape), NEW td \in Seq(Containers), td # << >>,
         Promised(op, cap, shape, td), Reaches(op, td),
         NEW cs, cs = Present(td), NEW f, f = key_form(cs), NEW i, i = key_seed(cs, f)
  PROVE  /\ i \in 1 .. Len(cs) /\ f \in {"array", "run", "bitmap", "verbatim"}
         /\ f = "bitmap" => /\ Started(op, cap, shape, f, load_bitmap(cs[i]).acc, cs[i].card,
                                       RemoveAt(cs, i))
                            /\ \A w \in load_bitmap(cs[i]).wrote : w[1] <= w[2]
         /\ f # "bitmap" => Started(op, cap, shape, f, Seeded(cs[i], "source"), cs[i].card,
                                    RemoveAt(cs, i))
<1>1. op \in {"Union", "Intersect", "Diff"} /\ cap \in Nat
  BY DEF IsPlan
<1>2. /\ Gathered(td, cs)
      /\ op = "Diff" => /\ cs[1] = td[1]
                        /\ Len(cs) >= 2 <=> AnyAfter(td)
  BY <1>1, GatheredIs
<1>3. i \in 1 .. Len(cs) /\ KeyChoice(f, cs[i], RemoveAt(cs, i))
  <2>1. CASE op = "Union"
    BY <1>2, <2>1, KeyUnion
  <2>2. CASE op = "Intersect"
    BY <1>2, <2>2, KeyIntersect
  <2>3. CASE op = "Diff"
    BY <1>2, <2>3, KeyDiff
  <2> QED
    BY <1>1, <2>1, <2>2, <2>3
<1>4. PICK c : c = cs[i]
  OBVIOUS
<1>5. PICK rest : rest = RemoveAt(cs, i)
  OBVIOUS
<1>6. cs \in Seq(Containers) /\ AllPresent(cs)
  BY <1>2 DEF Gathered
<1>7. /\ rest \in Seq(Containers)
      /\ \A k \in DOMAIN rest : \E j \in DOMAIN cs : rest[k] = cs[j]
      /\ c \in Containers /\ c.card > 0
  <2>1. i \in 1 .. Len(cs)
    BY <1>3
  <2>2. c \in Containers /\ c.card > 0
    BY <1>4, <1>6, <2>1, SeqFacts DEF AllPresent
  <2> QED
    BY <1>5, <1>6, <2>1, <2>2, RemovedIs
<1>8. AllPresent(rest)
  <2>1. DOMAIN rest = 1 .. Len(rest) /\ DOMAIN cs = 1 .. Len(cs)
    BY <1>6, <1>7, SeqFacts
  <2> QED
    BY <1>6, <1>7, <2>1 DEF AllPresent
<1>9. /\ c.card \in Nat /\ c.card <= KEYSPACE /\ c.runs \in Nat /\ c.runs <= MAX_RUNS
      /\ c.typ \in {UNSEEDED, CT_ARRAY, CT_BITMAP, CT_RUN, CT_INLINE}
      /\ c.typ = CT_RUN <=> c.runs > 0
      /\ c = [typ |-> c.typ, card |-> c.card, runs |-> c.runs]
  BY <1>7, StoredIs DEF Containers
<1>10. /\ f \in {"array", "run", "bitmap", "verbatim"}
       /\ Bounded(op, shape, c.card, rest)
  BY <1>3, <1>4, <1>5 DEF KeyChoice
<1>11. CASE f = "bitmap"
  <2>1. ~ Tight(cap)
    BY <1>3, <1>11 DEF KeyChoice
  <2>2. PICK b : b = load_bitmap(c).acc
    OBVIOUS
  <2>3. /\ b = Acc(CT_BITMAP, c.card, 0, "slot")
        /\ load_bitmap(c).wrote = {<< BITMAP_BYTES, cap >>}
    BY <2>2 DEF load_bitmap, Out, InSlot
  <2>4. b \in Accumulators /\ b.typ = CT_BITMAP /\ b.card = c.card
    <3>1. 0 <= MAX_RUNS
      BY Sizes
    <3> QED
      BY <1>9, <2>3, <3>1, AccIs
  <2>5. BITMAP_BYTES <= cap
    BY <1>1, <2>1, Sizes DEF Tight
  <2>6. \A w \in load_bitmap(c).wrote : w[1] <= w[2]
    BY <2>3, <2>5
  <2>7. Held(op, cap, f, b, c.card, rest)
    BY <1>8, <1>11, <2>1, <2>4 DEF Held, BitmapHeld
  <2>8. b.typ # CT_RUN
    BY <2>4, Sizes
  <2>9. Started(op, cap, shape, f, b, c.card, rest)
    <3>1. PICK m \in Nat : m = c.card /\ m <= KEYSPACE
      BY <1>9
    <3>2. b.card = m \/ (b.typ = CT_BITMAP /\ b.card = CARD_LAZY)
      BY <2>4, <3>1
    <3>3. b.typ = CT_RUN /\ m > 0 => b.runs > 0
      BY <2>8
    <3>4. Held(op, cap, f, b, m, rest) /\ Bounded(op, shape, m, rest)
      BY <1>10, <2>7, <3>1
    <3>5. Started(op, cap, shape, f, b, m, rest)
      BY <1>7, <2>4, <3>1, <3>2, <3>3, <3>4, StartedWith
    <3> QED
      BY <3>1, <3>5
  <2> QED
    BY <1>3, <1>4, <1>5, <1>11, <2>2, <2>6, <2>9
<1>12. CASE f # "bitmap"
  <2>1. PICK b : b = Seeded(c, "source")
    OBVIOUS
  <2>2. /\ b \in Accumulators /\ b.typ = c.typ /\ b.card = c.card /\ b.runs = c.runs
    BY <1>9, <2>1, AccIs DEF Seeded
  <2>3. ASSUME f = "array" PROVE Held(op, cap, f, b, c.card, rest)
    <3>1. ArrayHeld(op, cap, b, c.card, rest)
      BY <1>3, <1>4, <1>5, <1>8, <2>2, <2>3 DEF KeyChoice, ArrayHeld
    <3> QED
      BY <2>3, <3>1 DEF Held
  <2>4. ASSUME f = "run" PROVE Held(op, cap, f, b, c.card, rest)
    <3>1. RunHeld(op, cap, b, c.card, rest)
      BY <1>3, <1>4, <1>5, <1>8, <2>2, <2>4 DEF KeyChoice, RunHeld
    <3> QED
      BY <2>4, <3>1 DEF Held
  <2>5. ASSUME f = "verbatim" PROVE Held(op, cap, f, b, c.card, rest)
    <3>1. /\ op = "Diff" /\ rest = << >> /\ stored(c) <= cap
          /\ Tight(cap) => AsBuilt(c.card, c.runs)
      BY <1>3, <1>4, <1>5, <2>5 DEF KeyChoice
    <3>2. stored(b) = stored(c)
      BY <2>2 DEF stored
    <3>3. [typ |-> b.typ, card |-> c.card, runs |-> b.runs] \in Containers
      BY <1>7, <1>9, <2>2
    <3>4. Verbatim(op, cap, b, c.card, rest)
      BY <1>7, <2>2, <3>1, <3>2, <3>3 DEF Verbatim
    <3> QED
      BY <2>5, <3>4 DEF Held
  <2>6. Held(op, cap, f, b, c.card, rest)
    BY <1>10, <1>12, <2>3, <2>4, <2>5
  <2>7. Started(op, cap, shape, f, b, c.card, rest)
    <3>1. PICK m \in Nat : m = c.card /\ m <= KEYSPACE
      BY <1>9
    <3>2. b.card = m \/ (b.typ = CT_BITMAP /\ b.card = CARD_LAZY)
      BY <2>2, <3>1
    <3>3. b.typ = CT_RUN /\ m > 0 => b.runs > 0
      BY <1>9, <2>2
    <3>4. Held(op, cap, f, b, m, rest) /\ Bounded(op, shape, m, rest)
      BY <1>10, <2>6, <3>1
    <3>5. Started(op, cap, shape, f, b, m, rest)
      BY <1>7, <2>2, <3>1, <3>2, <3>3, <3>4, StartedWith
    <3> QED
      BY <3>1, <3>5
  <2> QED
    BY <1>3, <1>4, <1>5, <1>10, <1>12, <2>1, <2>7
<1> QED
  BY <1>11, <1>12


----------------------------------------------------------------------------
\* The steps.

\* A fold that goes on under the same plan.
LEMMA Kept ==
  ASSUME FoldInv, phase = "fold", UNCHANGED << phase, op, major, cap, shape, result >>,
         form' \in {"pass", "array", "run", "bitmap", "verbatim"},
         Started(op, cap, shape, form', acc', n', todo'),
         \A w \in wrote' : w[1] <= w[2]
  PROVE  IInv'
<1>1. /\ IsPlan(op, cap, shape) /\ major \in {"partner", "key"}
      /\ op = "Intersect" => major = "key"
      /\ result = NoOperand
  BY DEF FoldInv
<1>2. todo' \in Seq(Containers)
  BY StartedIs
<1>3. FoldInv'
  BY <1>1, <1>2 DEF FoldInv
<1>4. IdleInv'
  BY DEF IdleInv
<1>5. WritesFit'
  BY DEF WritesFit
<1> QED
  BY <1>3, <1>4, <1>5 DEF IInv

LEMMA UnionStarted ==
  ASSUME IsPlan("Union", cap, shape), NEW td \in Seq(Containers),
         Promised("Union", cap, shape, td)
  PROVE  Started("Union", cap, shape, "pass", NoAcc, 0, td)
<1>1. TotalCard(td) \in Nat
  BY SeqFacts
<1>2. PICK t : t = TotalCard(td) /\ t \in Nat /\ 0 + t = t
  BY <1>1
<1>3. /\ Tight(cap) => Fits(cap, 0 + t)
      /\ shape.card > 0 => 0 + t <= shape.card
  BY <1>2 DEF Promised
<1>4. NoAcc \in Accumulators /\ NoAcc.typ = UNSEEDED /\ NoAcc.card = 0
  <2>1. /\ 0 <= MAX_RUNS /\ 0 <= KEYSPACE
    BY Sizes
  <2> QED
    BY <2>1, AccIs DEF NoAcc
<1>5. UNSEEDED # CT_RUN /\ UNSEEDED # CT_ARRAY
  BY Sizes
<1>6. UnionPassed(cap, NoAcc, 0, td)
  BY <1>2, <1>3, <1>4, <1>5 DEF UnionPassed
<1>7. Held("Union", cap, "pass", NoAcc, 0, td)
  BY <1>6 DEF Held
<1>8. Bounded("Union", shape, 0, td)
  BY <1>2, <1>3 DEF Bounded, IsPlan, IsShape
<1>9. 0 <= KEYSPACE
  BY Sizes
<1>10. NoAcc.typ # CT_RUN
  BY <1>4, <1>5
<1>11. PICK a : a = NoAcc
  OBVIOUS
<1>12. Started("Union", cap, shape, "pass", a, 0, td)
  <2>1. a.card = 0 \/ (a.typ = CT_BITMAP /\ a.card = CARD_LAZY)
    BY <1>4, <1>11
  <2>2. a.typ = CT_RUN /\ 0 > 0 => a.runs > 0
    BY <1>10, <1>11
  <2> QED
    BY <1>4, <1>7, <1>8, <1>9, <1>11, <2>1, <2>2, StartedWith
<1> QED
  BY <1>11, <1>12

LEMMA StartFoldKeeps ==
  ASSUME IInv, StartFold
  PROVE  IInv'
<1>1. /\ phase = "fold" /\ form = "none" /\ acc = NoAcc /\ todo # << >>
      /\ UNCHANGED << phase, op, major, cap, shape, result >>
  BY DEF StartFold
<1>2. FoldInv /\ WritesFit
  BY DEF IInv
<1>3. /\ IsPlan(op, cap, shape) /\ major \in {"partner", "key"}
      /\ op = "Intersect" => major = "key"
      /\ todo \in Seq(Containers) /\ n = 0
      /\ Promised(op, cap, shape, todo)
      /\ result = NoOperand
  BY <1>1, <1>2 DEF FoldInv
<1>4. op \in {"Union", "Intersect", "Diff"}
  BY <1>3 DEF IsPlan
<1>5. CASE ~ Reaches(op, todo)
  <2>1. todo' = << >> /\ form' = form /\ acc' = acc /\ n' = n /\ wrote' = wrote
    BY <1>5 DEF StartFold
  <2>2. FoldInv'
    BY <1>1, <1>3, <2>1 DEF FoldInv
  <2>3. IdleInv'
    BY <1>1 DEF IdleInv
  <2>4. WritesFit'
    BY <1>2, <2>1 DEF WritesFit
  <2> QED
    BY <1>1, <2>2, <2>3, <2>4 DEF IInv
<1>6. CASE Reaches(op, todo) /\ major = "partner" /\ op = "Union"
  <2>1. form' = "pass" /\ todo' = todo /\ acc' = NoAcc /\ n' = 0 /\ wrote' = wrote
    BY <1>1, <1>3, <1>6 DEF StartFold
  <2>2. Started("Union", cap, shape, "pass", NoAcc, 0, todo)
    BY <1>3, <1>6, UnionStarted
  <2>3. \A w \in wrote' : w[1] <= w[2]
    BY <1>2, <2>1 DEF WritesFit
  <2> QED
    BY <1>1, <1>2, <1>6, <2>1, <2>2, <2>3, Kept
<1>7. CASE Reaches(op, todo) /\ major = "partner" /\ op = "Diff"
  <2>1. PICK p : p = (IF Len(todo) > 1 THEN todo[2] ELSE Absent)
    OBVIOUS
  <2>2. PICK x \in diff_seed(todo[1], p, Len(todo) = 2) :
          /\ form' = "pass" /\ acc' = x.acc /\ n' = x.n /\ wrote' = x.wrote
          /\ todo' = SubSeq(todo, 3, Len(todo))
    BY <1>7, <2>1 DEF StartFold
  <2>3. todo[1].card > 0
    BY <1>7 DEF Reaches
  <2>4. Good("Diff", cap, shape, "pass", x, SubSeq(todo, 3, Len(todo)))
    BY <1>1, <1>3, <1>7, <2>1, <2>2, <2>3, DiffSeeded
  <2>5. /\ Started(op, cap, shape, form', acc', n', todo')
        /\ \A w \in wrote' : w[1] <= w[2]
    BY <1>7, <2>2, <2>4 DEF Good
  <2> QED
    BY <1>1, <1>2, <2>2, <2>5, Kept
<1>8. CASE Reaches(op, todo) /\ major = "key"
  <2>1. PICK cs : cs = Present(todo)
    OBVIOUS
  <2>2. PICK f : f = key_form(cs)
    OBVIOUS
  <2>3. PICK i : i = key_seed(cs, f)
    OBVIOUS
  <2>4. /\ form' = f /\ todo' = RemoveAt(cs, i) /\ n' = cs[i].card
        /\ IF f = "bitmap"
           THEN acc' = load_bitmap(cs[i]).acc /\ wrote' = load_bitmap(cs[i]).wrote
           ELSE acc' = Seeded(cs[i], "source") /\ wrote' = {}
    BY <1>8, <2>1, <2>2, <2>3 DEF StartFold
  <2>5. /\ f \in {"array", "run", "bitmap", "verbatim"}
        /\ f = "bitmap" => /\ Started(op, cap, shape, f, load_bitmap(cs[i]).acc, cs[i].card,
                                      RemoveAt(cs, i))
                           /\ \A w \in load_bitmap(cs[i]).wrote : w[1] <= w[2]
        /\ f # "bitmap" => Started(op, cap, shape, f, Seeded(cs[i], "source"), cs[i].card,
                                   RemoveAt(cs, i))
    BY <1>1, <1>3, <1>8, <2>1, <2>2, <2>3, KeyStarted
  <2>6. /\ Started(op, cap, shape, form', acc', n', todo')
        /\ \A w \in wrote' : w[1] <= w[2]
    BY <2>4, <2>5
  <2> QED
    BY <1>1, <1>2, <2>4, <2>5, <2>6, Kept
<1> QED
  BY <1>3, <1>4, <1>5, <1>6, <1>7, <1>8

\* A step of a fold that has started.
LEMMA FoldingIs ==
  ASSUME IInv, NEW f \in {"pass", "array", "run", "bitmap"}, Folding(f)
  PROVE  /\ phase = "fold" /\ form = f /\ todo # << >> /\ FoldInv
         /\ IsPlan(op, cap, shape)
         /\ Started(op, cap, shape, f, acc, n, todo)
         /\ f \in {"array", "run"} => acc.card # 0
<1>1. phase = "fold" /\ form = f /\ todo # << >> /\ ~ Stopped
  BY DEF Folding
<1> QED
  BY <1>1 DEF IInv, FoldInv, Stopped

LEMMA Applied ==
  ASSUME IInv, NEW f \in {"pass", "array", "run", "bitmap"}, Folding(f), NEW outs, Apply(outs),
         \A x \in outs : Good(op, cap, shape, f, x, Tail(todo))
  PROVE  IInv'
<1>1. phase = "fold" /\ form = f /\ FoldInv
  BY FoldingIs
<1>2. PICK x \in outs : acc' = x.acc /\ n' = x.n /\ wrote' = x.wrote
  BY DEF Apply
<1>3. /\ todo' = Tail(todo) /\ form' = form
      /\ UNCHANGED << phase, op, major, cap, shape, result >>
  BY DEF Apply
<1>4. Good(op, cap, shape, f, x, Tail(todo))
  BY <1>2
<1>5. /\ Started(op, cap, shape, form', acc', n', todo')
      /\ \A w \in wrote' : w[1] <= w[2]
  BY <1>1, <1>2, <1>3, <1>4 DEF Good
<1> QED
  BY <1>1, <1>3, <1>5, Kept

LEMMA UnionPassKeeps ==
  ASSUME IInv, UnionPass
  PROVE  IInv'
<1>1. Folding("pass") /\ op = "Union"
  BY DEF UnionPass
<1>2. PICK last \in BOOLEAN : last = (Len(todo) = 1)
  OBVIOUS
<1>3. Apply(union_apply(acc, n, Head(todo), last))
  BY <1>2 DEF UnionPass
<1>4. /\ todo # << >> /\ IsPlan(op, cap, shape)
      /\ Started(op, cap, shape, "pass", acc, n, todo)
  BY <1>1, FoldingIs
<1>5. \A x \in union_apply(acc, n, Head(todo), last) : Good(op, cap, shape, "pass", x, Tail(todo))
  BY <1>1, <1>4, UnionApplied
<1> QED
  BY <1>1, <1>3, <1>5, Applied

LEMMA DiffPassKeeps ==
  ASSUME IInv, DiffPass
  PROVE  IInv'
<1>1. Folding("pass") /\ op = "Diff"
  BY DEF DiffPass
<1>2. PICK last \in BOOLEAN : last = (Len(todo) = 1)
  OBVIOUS
<1>3. /\ todo # << >> /\ IsPlan(op, cap, shape)
      /\ Started(op, cap, shape, "pass", acc, n, todo)
  BY <1>1, FoldingIs
<1>4. CASE Head(todo).card = 0 \/ acc.card = 0
  <2>1. Apply({Out(acc, n, {})})
    BY <1>4 DEF DiffPass
  <2>2. Started("Diff", cap, shape, "pass", acc, n, Tail(todo))
    BY <1>1, <1>3, Skipped
  <2>3. \A x \in {Out(acc, n, {})} : Good(op, cap, shape, "pass", x, Tail(todo))
    BY <1>1, <2>2 DEF Good, Out
  <2> QED
    BY <1>1, <2>1, <2>3, Applied
<1>5. CASE ~ (Head(todo).card = 0 \/ acc.card = 0)
  <2>1. Apply(diff_apply(acc, n, Head(todo), last))
    BY <1>2, <1>5 DEF DiffPass
  <2>2. \A x \in diff_apply(acc, n, Head(todo), last) : Good(op, cap, shape, "pass", x, Tail(todo))
    BY <1>1, <1>3, <1>5, DiffApplied
  <2> QED
    BY <1>1, <2>1, <2>2, Applied
<1> QED
  BY <1>4, <1>5

LEMMA ArrayFoldKeeps ==
  ASSUME IInv, ArrayFold
  PROVE  IInv'
<1>1. Folding("array") /\ Apply(array_fold(acc, n, Head(todo)))
  BY DEF ArrayFold
<1>2. /\ todo # << >> /\ IsPlan(op, cap, shape)
      /\ Started(op, cap, shape, "array", acc, n, todo)
  BY <1>1, FoldingIs
<1>3. \A x \in array_fold(acc, n, Head(todo)) : Good(op, cap, shape, "array", x, Tail(todo))
  BY <1>2, ArrayFolded
<1> QED
  BY <1>1, <1>3, Applied

LEMMA NativeFoldKeeps ==
  ASSUME IInv, NativeFold
  PROVE  IInv'
<1>1. Folding("run") /\ Apply(native_fold(acc, n, Head(todo)))
  BY DEF NativeFold
<1>2. /\ todo # << >> /\ IsPlan(op, cap, shape) /\ acc.card # 0
      /\ Started(op, cap, shape, "run", acc, n, todo)
  BY <1>1, FoldingIs
<1>3. \A x \in native_fold(acc, n, Head(todo)) : Good(op, cap, shape, "run", x, Tail(todo))
  BY <1>2, NativeFolded
<1> QED
  BY <1>1, <1>3, Applied

LEMMA BitmapFoldKeeps ==
  ASSUME IInv, BitmapFold
  PROVE  IInv'
<1>1. PICK counted \in BOOLEAN : counted = (op = "Intersect" \/ Len(todo) = 1)
  OBVIOUS
<1>2. Folding("bitmap") /\ Apply(bitmap_fold(n, Head(todo), counted))
  BY <1>1 DEF BitmapFold
<1>3. /\ todo # << >> /\ IsPlan(op, cap, shape)
      /\ Started(op, cap, shape, "bitmap", acc, n, todo)
  BY <1>2, FoldingIs
<1>4. \A x \in bitmap_fold(n, Head(todo), counted) : Good(op, cap, shape, "bitmap", x, Tail(todo))
  BY <1>3, BitmapStepped
<1> QED
  BY <1>2, <1>4, Applied


\* What is recorded of i values in r runs: a container, no larger than the slot
\* it is in, and no larger than an array of its values if the slot is small.
Recorded(typ, i, r) ==
  LET c == [typ |-> typ, card |-> i, runs |-> r]
  IN  /\ c \in Containers /\ typ # CT_INLINE
      /\ stored(c) <= cap /\ (Tight(cap) => AsBuilt(i, r))

LEMMA RecordedBitmap ==
  ASSUME cap \in Nat, ~ Tight(cap), NEW i \in Nat, i > 0, i <= KEYSPACE
  PROVE  Recorded(CT_BITMAP, i, 0)
<1>1. PICK c : c = [typ |-> CT_BITMAP, card |-> i, runs |-> 0]
  OBVIOUS
<1>2. 0 <= MAX_RUNS /\ BITMAP_BYTES <= cap /\ CT_BITMAP # CT_INLINE
  BY Sizes DEF Tight
<1>3. c \in Containers
  BY <1>1, Sizes DEF Containers
<1>4. stored(c) <= cap
  <2>1. stored(c) \in Nat /\ stored(c) <= BITMAP_BYTES
    BY <1>3, StoredIs
  <2> QED
    BY <1>2, <2>1, Sizes
<1> QED
  BY <1>1, <1>2, <1>3, <1>4 DEF Recorded

LEMMA RecordedArray ==
  ASSUME cap \in Nat, NEW i \in Nat, i > 0, Fits(cap, i)
  PROVE  Recorded(CT_ARRAY, i, 0)
<1>1. PICK c : c = [typ |-> CT_ARRAY, card |-> i, runs |-> 0]
  OBVIOUS
<1>2. i <= ARRAY_MAX_SIZE /\ 2 * i <= cap
  BY DEF Fits
<1>3. c \in Containers
  BY <1>1, <1>2, Sizes DEF Containers
<1>4. stored(c) = 2 * i
  BY <1>1, <1>3, StoredIs
<1>5. CT_ARRAY # CT_INLINE /\ AsBuilt(i, 0)
  BY Sizes DEF AsBuilt
<1> QED
  BY <1>1, <1>2, <1>3, <1>4, <1>5 DEF Recorded

LEMMA RecordedRuns ==
  ASSUME cap \in Nat, NEW i \in Nat, i > 0, i <= KEYSPACE, NEW r \in Nat, r > 0, r <= MAX_RUNS,
         run_bytes(r) <= cap, Tight(cap) => AsBuilt(i, r)
  PROVE  Recorded(CT_RUN, i, r)
<1>1. PICK c : c = [typ |-> CT_RUN, card |-> i, runs |-> r]
  OBVIOUS
<1>2. c \in Containers
  BY <1>1, Sizes DEF Containers
<1>3. stored(c) = run_bytes(r)
  BY <1>1, <1>2, StoredIs
<1>4. CT_RUN # CT_INLINE
  BY Sizes
<1> QED
  BY <1>1, <1>2, <1>3, <1>4 DEF Recorded

\* What any started fold records, whatever form it was in.
LEMMA FinalIs ==
  ASSUME IsPlan(op, cap, shape), form # "none", n > 0,
         Started(op, cap, shape, form, acc, n, todo)
  PROVE  Recorded(final_typ(n), n, IF final_typ(n) = CT_RUN THEN acc.runs ELSE 0)
<1>1. /\ acc \in Accumulators /\ n \in Nat /\ n <= KEYSPACE /\ todo \in Seq(Containers)
      /\ acc.runs \in Nat /\ acc.runs <= MAX_RUNS
      /\ RunsOf(acc, n) /\ Held(op, cap, form, acc, n, todo)
  BY StartedIs
<1>2. cap \in Nat
  BY DEF IsPlan
<1>3. /\ CT_RUN # CT_ARRAY /\ CT_RUN # CT_BITMAP /\ CT_ARRAY # CT_BITMAP /\ CT_RUN # CT_INLINE
      /\ CT_INLINE # CT_ARRAY /\ CT_INLINE # CT_BITMAP
      /\ UNSEEDED \notin {CT_ARRAY, CT_BITMAP, CT_RUN, CT_INLINE}
  BY Sizes
<1>4. acc.typ = CT_RUN => acc.runs > 0
  BY <1>1 DEF RunsOf
<1>5. CASE form = "array"
  <2>1. Fits(cap, n)
    BY <1>1, <1>5, HeldIs DEF ArrayHeld
  <2>2. final_typ(n) = CT_ARRAY
    BY <1>5 DEF final_typ
  <2> QED
    BY <1>1, <1>2, <1>3, <2>1, <2>2, RecordedArray
<1>6. CASE form = "run"
  <2>1. ~ Tight(cap) /\ acc.typ = CT_RUN
    BY <1>1, <1>6, HeldIs DEF RunHeld
  <2>2. final_typ(n) = CT_RUN
    BY <1>6, <2>1 DEF final_typ
  <2>3. run_bytes(acc.runs) <= cap
    BY <1>1, <1>2, <2>1, Sizes DEF run_bytes, Tight
  <2> QED
    BY <1>1, <1>2, <1>4, <2>1, <2>2, <2>3, RecordedRuns
<1>7. ASSUME form \in {"pass", "bitmap"}, acc.typ = CT_BITMAP, ~ Tight(cap)
      PROVE  Recorded(final_typ(n), n, IF final_typ(n) = CT_RUN THEN acc.runs ELSE 0)
  <2>1. Recorded(CT_BITMAP, n, 0)
    BY <1>1, <1>2, <1>7, RecordedBitmap
  <2>2. CASE op = "Union"
    <3>1. final_typ(n) = CT_BITMAP
      BY <1>7, <2>2 DEF final_typ
    <3> QED
      BY <1>3, <2>1, <3>1
  <2>3. CASE op # "Union"
    <3>1. final_typ(n) = finish_bitmap(n)
      BY <1>7, <2>3 DEF final_typ
    <3>2. CASE n > ARRAY_MAX_SIZE \div 2
      <4>1. final_typ(n) = CT_BITMAP
        BY <3>1, <3>2 DEF finish_bitmap
      <4> QED
        BY <1>3, <2>1, <4>1
    <3>3. CASE ~ (n > ARRAY_MAX_SIZE \div 2)
      <4>1. final_typ(n) = CT_ARRAY
        BY <1>1, <3>1, <3>3 DEF finish_bitmap
      <4>2. Fits(cap, n)
        BY <1>1, <1>2, <1>7, <3>3, Sizes DEF Fits, Tight
      <4> QED
        BY <1>1, <1>2, <1>3, <4>1, <4>2, RecordedArray
    <3> QED
      BY <3>2, <3>3
  <2> QED
    BY <2>2, <2>3
<1>8. CASE form = "bitmap"
  <2>1. ~ Tight(cap) /\ acc.typ = CT_BITMAP
    BY <1>1, <1>8, HeldIs DEF BitmapHeld
  <2> QED
    BY <1>7, <1>8, <2>1
<1>9. CASE form = "pass" /\ op = "Union"
  <2>1. UnionPassed(cap, acc, n, todo)
    BY <1>1, <1>9, HeldIs
  <2>2. /\ acc.typ \in {CT_ARRAY, CT_BITMAP, CT_RUN}
        /\ Tight(cap) => acc.typ = CT_ARRAY
        /\ acc.typ = CT_ARRAY => Fits(cap, n + TotalCard(todo))
    BY <1>1, <2>1 DEF UnionPassed
  <2>3. CASE acc.typ = CT_BITMAP
    BY <1>3, <1>7, <1>9, <2>2, <2>3
  <2>4. CASE acc.typ = CT_ARRAY
    <3>1. final_typ(n) = CT_ARRAY
      BY <1>9, <2>4 DEF final_typ
    <3>2. PICK t \in Nat : t = TotalCard(todo) /\ n <= n + t
      BY <1>1, SeqFacts
    <3>3. Fits(cap, n)
      <4>1. n + t \in Nat /\ Fits(cap, n + t)
        BY <1>1, <2>2, <2>4, <3>2
      <4> QED
        BY <1>1, <1>2, <3>2, <4>1, FitsLess
    <3> QED
      BY <1>1, <1>2, <1>3, <3>1, <3>3, RecordedArray
  <2>5. CASE acc.typ = CT_RUN
    <3>1. final_typ(n) = CT_RUN
      BY <1>3, <1>9, <2>5 DEF final_typ
    <3>2. ~ Tight(cap)
      BY <1>3, <2>2, <2>5
    <3>3. run_bytes(acc.runs) <= cap
      BY <1>1, <1>2, <3>2, Sizes DEF run_bytes, Tight
    <3> QED
      BY <1>1, <1>2, <1>4, <2>5, <3>1, <3>2, <3>3, RecordedRuns
  <2> QED
    BY <2>2, <2>3, <2>4, <2>5
<1>10. CASE form = "pass" /\ op = "Diff"
  <2>1. DiffPassed(cap, acc, n, todo)
    BY <1>1, <1>10, HeldIs
  <2>2. CASE acc.typ = CT_BITMAP
    <3>1. ~ Tight(cap)
      BY <2>1, <2>2 DEF DiffPassed
    <3> QED
      BY <1>7, <1>10, <2>2, <3>1
  <2>3. CASE acc.typ = CT_ARRAY
    <3>1. final_typ(n) = CT_ARRAY
      BY <1>3, <1>10, <2>3 DEF final_typ
    <3>2. Fits(cap, n)
      BY <2>1, <2>3 DEF DiffPassed
    <3> QED
      BY <1>1, <1>2, <1>3, <3>1, <3>2, RecordedArray
  <2>4. CASE acc.typ = CT_RUN
    <3>1. final_typ(n) = CT_RUN
      BY <1>3, <1>10, <2>4 DEF final_typ
    <3>2. run_bytes(acc.runs) <= cap /\ (Tight(cap) => AsBuilt(n, acc.runs))
      BY <2>1, <2>4 DEF DiffPassed
    <3> QED
      BY <1>1, <1>2, <1>4, <2>4, <3>1, <3>2, RecordedRuns
  <2> QED
    BY <2>1, <2>2, <2>3, <2>4 DEF DiffPassed
<1>11. CASE form = "verbatim"
  <2>1. PICK c : c = [typ |-> acc.typ, card |-> n, runs |-> acc.runs]
    OBVIOUS
  <2>2. /\ c \in Containers /\ acc.card = n
        /\ stored(acc) <= cap
        /\ Tight(cap) => AsBuilt(n, acc.runs)
    BY <1>1, <1>11, <2>1, HeldIs DEF Verbatim
  <2>3. stored(c) = stored(acc)
    BY <2>1, <2>2 DEF stored
  <2>4. /\ acc.typ \in {CT_ARRAY, CT_BITMAP, CT_RUN, CT_INLINE}
        /\ acc.typ \in {CT_ARRAY, CT_INLINE} => n <= ARRAY_MAX_SIZE /\ stored(c) = 2 * n
        /\ acc.typ = CT_RUN => stored(c) = run_bytes(acc.runs)
        /\ acc.typ = CT_BITMAP => stored(c) = BITMAP_BYTES
    BY <1>1, <2>1, <2>2, StoredIs
  <2>5. CASE acc.typ \in {CT_ARRAY, CT_INLINE}
    <3>1. final_typ(n) = CT_ARRAY
      BY <1>3, <1>11, <2>5 DEF final_typ
    <3>2. Fits(cap, n)
      BY <2>2, <2>3, <2>4, <2>5 DEF Fits
    <3> QED
      BY <1>1, <1>2, <1>3, <3>1, <3>2, RecordedArray
  <2>6. CASE acc.typ = CT_BITMAP
    <3>1. final_typ(n) = CT_BITMAP
      BY <1>3, <1>11, <2>6 DEF final_typ
    <3>2. ~ Tight(cap)
      BY <1>2, <2>2, <2>3, <2>4, <2>6, Sizes DEF Tight
    <3>3. Recorded(CT_BITMAP, n, 0)
      BY <1>1, <1>2, <3>2, RecordedBitmap
    <3> QED
      BY <1>3, <3>1, <3>3
  <2>7. CASE acc.typ = CT_RUN
    <3>1. final_typ(n) = CT_RUN
      BY <1>3, <1>11, <2>7 DEF final_typ
    <3>2. run_bytes(acc.runs) <= cap
      BY <2>2, <2>3, <2>4, <2>7
    <3> QED
      BY <1>1, <1>2, <1>4, <2>2, <2>7, <3>1, <3>2, RecordedRuns
  <2> QED
    BY <2>4, <2>5, <2>6, <2>7
<1>12. form \in {"pass", "array", "run", "bitmap", "verbatim"} /\ (form = "pass" => op \in {"Union", "Diff"})
  BY <1>1 DEF Held
<1> QED
  BY <1>5, <1>6, <1>8, <1>9, <1>10, <1>11, <1>12

LEMMA FoldDoneKeeps ==
  ASSUME IInv, FoldDone
  PROVE  IInv'
<1>1. /\ phase = "fold" /\ phase' = "idle" /\ acc' = NoAcc /\ n' = n
  BY DEF FoldDone
<1>2. /\ FoldInv /\ IsPlan(op, cap, shape) /\ result = NoOperand
      /\ form \in {"none", "pass", "array", "run", "bitmap", "verbatim"}
      /\ form = "none" => acc = NoAcc /\ n = 0
      /\ form # "none" => Started(op, cap, shape, form, acc, n, todo)
  BY <1>1 DEF IInv, FoldInv
<1>3. cap \in Nat /\ IsShape(shape) /\ (shape.card > 0 => cap <= shape.cap \/ shape.cap >= BITMAP_BYTES)
  BY <1>2 DEF IsPlan
<1>4. n \in Nat /\ n <= KEYSPACE /\ final_card = n /\ acc.runs \in Nat /\ acc.runs <= MAX_RUNS
  <2>1. CASE form = "none"
    BY <1>2, <2>1, Sizes DEF final_card, NoAcc, Acc
  <2>2. CASE form # "none"
    BY <1>2, <2>2, StartedIs DEF final_card
  <2> QED
    BY <2>1, <2>2
<1>5. PICK typ : typ = final_typ(n)
  OBVIOUS
<1>6. PICK r : r = (IF typ = CT_RUN THEN acc.runs ELSE 0)
  OBVIOUS
<1>7. PICK c : c = (IF n = 0 THEN Absent ELSE [typ |-> typ, card |-> n, runs |-> r])
  OBVIOUS
<1>8. /\ result' = [c |-> c, s |-> shape, leaf |-> FALSE]
      /\ wrote' = (IF n = 0 THEN {} ELSE {InSlot(stored(c))})
                  \cup (IF form = "run" THEN {InSlot(run_bytes(r)), InScratch(4 * r)} ELSE {})
  BY <1>4, <1>5, <1>6, <1>7 DEF FoldDone
<1>9. /\ c \in Containers /\ c.typ # CT_INLINE /\ c.card = n
      /\ n > 0 => stored(c) <= cap
      /\ Tight(cap) => AsBuilt(c.card, c.runs)
      /\ shape.card > 0 => n <= shape.card
  <2>1. CASE n = 0
    <3>1. c = Absent
      BY <1>7, <2>1
    <3>2. UNSEEDED # CT_INLINE
      BY Sizes
    <3> QED
      BY <1>3, <2>1, <3>1, <3>2, AbsentIs DEF AsBuilt, IsShape
  <2>2. CASE n # 0
    <3>1. n > 0 /\ form # "none" /\ Started(op, cap, shape, form, acc, n, todo)
      BY <1>2, <1>4, <2>2
    <3>2. Recorded(typ, n, r)
      BY <1>2, <1>5, <1>6, <3>1, FinalIs
    <3>3. c = [typ |-> typ, card |-> n, runs |-> r]
      BY <1>7, <2>2
    <3>4. Bounded(op, shape, n, todo)
      BY <3>1, StartedIs
    <3> QED
      BY <3>2, <3>3, <3>4 DEF Recorded, Bounded
  <2> QED
    BY <2>1, <2>2
<1>10. shape.card > 0 => Covers(shape, c)
  <2>1. ASSUME shape.card > 0 PROVE Covers(shape, c)
    <3>1. n <= shape.card /\ shape.cap \in Nat
      BY <1>3, <1>9, <2>1 DEF IsShape
    <3>2. stored(c) \in Nat /\ stored(c) <= BITMAP_BYTES
      BY <1>9, StoredIs
    <3>3. c.card > 0 => stored(c) <= shape.cap
      BY <1>3, <1>9, <2>1, <3>1, <3>2, Sizes
    <3>4. shape.cap < BITMAP_BYTES => Tight(cap)
      BY <1>3, <2>1, <3>1, Sizes DEF Tight
    <3> QED
      BY <1>9, <3>1, <3>3, <3>4 DEF Covers
  <2> QED
    BY <2>1
<1>11. WritesFit'
  <2>1. form = "run" => run_bytes(r) <= cap /\ 4 * r <= BITMAP_BYTES
    <3>1. ASSUME form = "run" PROVE ~ Tight(cap)
      <4>1. Started(op, cap, shape, "run", acc, n, todo)
        BY <1>2, <3>1
      <4>2. Held(op, cap, "run", acc, n, todo)
        BY <4>1, StartedIs
      <4> QED
        BY <4>2, HeldIs DEF RunHeld
    <3>2. r \in Nat /\ r <= MAX_RUNS
      BY <1>4, <1>6, Sizes
    <3> QED
      BY <1>3, <3>1, <3>2, Sizes DEF run_bytes, Tight
  <2>2. \A w \in wrote' : w[1] <= w[2]
    BY <1>4, <1>8, <1>9, <2>1 DEF InSlot, InScratch
  <2> QED
    BY <2>2 DEF WritesFit
<1>12. IdleInv'
  BY <1>1, <1>3, <1>4, <1>8, <1>9, <1>10 DEF IdleInv
<1>13. FoldInv'
  BY <1>1 DEF FoldInv
<1> QED
  BY <1>1, <1>11, <1>12, <1>13 DEF IInv

LEMMA ReturnKeeps ==
  ASSUME IInv, Return
  PROVE  IInv'
<1>1. /\ phase = "idle" /\ phase' = "idle" /\ acc' = acc
      /\ result' = NoOperand /\ n' = 0 /\ wrote' = {}
  BY DEF Return
<1>2. acc = NoAcc
  BY <1>1 DEF IInv, IdleInv
<1>3. /\ NoOperand.c = Absent /\ NoOperand.s = NoShape /\ NoOperand.leaf = FALSE
      /\ Absent \in Containers /\ Absent.card = 0 /\ Absent.typ # CT_INLINE
      /\ IsShape(NoShape) /\ ~ (NoShape.card > 0)
  BY AbsentIs, Sizes DEF NoOperand
<1>4. IdleInv'
  BY <1>1, <1>2, <1>3, Sizes DEF IdleInv
<1>5. FoldInv' /\ WritesFit'
  BY <1>1 DEF FoldInv, WritesFit
<1> QED
  BY <1>1, <1>4, <1>5 DEF IInv


\* A fold just planned.
LEMMA Planned ==
  ASSUME NEW k, NEW ins, Given(ins, k), phase' = "fold", form' = "none", acc' = NoAcc, n' = 0,
         wrote' = {}, result' = NoOperand, todo' = Contents(ins), major' \in Majors(op'),
         IsPlan(op', cap', shape'), Promised(op', cap', shape', Contents(ins))
  PROVE  IInv'
<1>1. todo' \in Seq(Containers) /\ Promised(op', cap', shape', todo')
  BY ContentsIs
<1>2. major' \in {"partner", "key"} /\ (op' = "Intersect" => major' = "key")
  BY DEF Majors
<1>3. FoldInv'
  BY <1>1, <1>2 DEF FoldInv
<1>4. IdleInv' /\ WritesFit'
  BY DEF IdleInv, WritesFit
<1> QED
  BY <1>3, <1>4 DEF IInv

LEMMA OperandsAre ==
  ASSUME LeavesAsBuilt, NEW x \in Operands
  PROVE  IsOperand(x) /\ AsBuilt(x.c.card, x.c.runs)
<1>1. CASE x = NoOperand
  BY <1>1, AbsentIs DEF AsBuilt
<1>2. CASE x \in {Leaf(c) : c \in Leaves}
  <2>1. PICK c \in Leaves : x = Leaf(c)
    BY <1>2
  <2>2. c \in Leaves \cup WideLeaves
    OBVIOUS
  <2> QED
    BY <2>1, <2>2, LeafIs
<1> QED
  BY <1>1, <1>2 DEF Operands

LEMMA PlanFlatKeeps ==
  ASSUME LeavesAsBuilt, IInv, PlanFlat
  PROVE  IInv'
<1>1. /\ phase = "idle" /\ result = NoOperand /\ result' = result
      /\ form' = "none" /\ acc' = NoAcc /\ n' = 0 /\ wrote' = {}
  BY DEF PlanFlat
<1>2. PICK o \in {"Intersect", "Union", "Diff"}, k \in 1 .. FlatArity :
        \E ins \in [1 .. k -> Operands], mj \in Majors(o) :
          /\ Reaches(o, Contents(ins))
          /\ \/ Begin(o, mj, flat_cap(o, ins), NoShape)
             \/ o # "Union" /\ mj = "key" /\ Begin(o, mj, BITMAP_BYTES, NoShape)
          /\ todo' = Contents(ins)
  BY DEF PlanFlat
<1>3. PICK ins \in [1 .. k -> Operands], mj \in Majors(o) :
          /\ \/ Begin(o, mj, flat_cap(o, ins), NoShape)
             \/ o # "Union" /\ mj = "key" /\ Begin(o, mj, BITMAP_BYTES, NoShape)
          /\ todo' = Contents(ins)
  BY <1>2
<1>4. k \in Nat /\ k >= 1
  BY KeyFoldAssumption
<1>5. Given(ins, k) /\ \A i \in 1 .. k : AsBuilt(ins[i].c.card, ins[i].c.runs)
  BY <1>4, OperandsAre DEF Given
<1>6. PICK cp : /\ cp = flat_cap(o, ins) \/ (o # "Union" /\ cp = BITMAP_BYTES)
                /\ Begin(o, mj, cp, NoShape)
  BY <1>3
<1>7. phase' = "fold" /\ op' = o /\ major' = mj /\ cap' = cp /\ shape' = NoShape
  BY <1>6 DEF Begin
<1>8. IsPlan(o, cp, NoShape) /\ Promised(o, cp, NoShape, Contents(ins))
  BY <1>5, <1>6, FlatPlan
<1> QED
  BY <1>1, <1>3, <1>5, <1>7, <1>8, Planned

LEMMA PlanTreeKeeps ==
  ASSUME LeavesAsBuilt, IInv, PlanTree
  PROVE  IInv'
<1>1. /\ phase = "idle" /\ result' = NoOperand
      /\ result # NoOperand => result.s.card > 0
      /\ form' = "none" /\ acc' = NoAcc /\ n' = 0 /\ wrote' = {}
  BY DEF PlanTree
<1>2. IsOperand(result)
  <2>1. CASE result = NoOperand
    BY <2>1, AbsentIs
  <2>2. CASE result # NoOperand
    BY <1>1, <2>2 DEF IInv, IdleInv, IsOperand
  <2> QED
    BY <2>1, <2>2
<1>3. PICK o \in {"Intersect", "Union", "Diff"}, k \in (1 .. TreeArity) \cup {WideArity} :
        \E ins \in TreeOperands(k), observed \in BOOLEAN, mj \in Majors(o) :
          /\ Observes(o, observed)
          /\ LET s == shape_of(o, ins)
             IN  Begin(o, mj, IF observed THEN observed_cap(ins) ELSE s.cap, s)
          /\ todo' = Contents(ins)
  BY DEF PlanTree
<1>4. PICK ins \in TreeOperands(k), observed \in BOOLEAN, mj \in Majors(o) :
          /\ Observes(o, observed)
          /\ LET s == shape_of(o, ins)
             IN  Begin(o, mj, IF observed THEN observed_cap(ins) ELSE s.cap, s)
          /\ todo' = Contents(ins)
  BY <1>3
<1>5. k \in Nat /\ k >= 1
  BY KeyFoldAssumption
<1>6. Given(ins, k)
  <2>1. PICK others : /\ others = (IF k <= TreeArity THEN Operands ELSE {Leaf(c) : c \in WideLeaves})
                      /\ ins \in [1 .. k -> others \cup {result}]
    BY <1>4 DEF TreeOperands
  <2>2. \A x \in others : IsOperand(x)
    <3>1. CASE k <= TreeArity
      BY <2>1, <3>1, OperandsAre
    <3>2. CASE ~ (k <= TreeArity)
      <4>1. ASSUME NEW x \in others
            PROVE  IsOperand(x)
        <5>1. PICK c \in WideLeaves : x = Leaf(c)
          BY <2>1, <3>2
        <5>2. c \in Leaves \cup WideLeaves
          OBVIOUS
        <5> QED
          BY <5>1, <5>2, LeafIs
      <4> QED
        BY <4>1
    <3> QED
      BY <3>1, <3>2
  <2>3. ins = [i \in 1 .. k |-> ins[i]] /\ \A i \in 1 .. k : ins[i] \in others \cup {result}
    BY <2>1
  <2> QED
    BY <1>2, <1>5, <2>2, <2>3 DEF Given
<1>7. PICK sh : sh = shape_of(o, ins)
  OBVIOUS
<1>8. PICK cp : cp = IF observed THEN observed_cap(ins) ELSE sh.cap
  OBVIOUS
<1>9. phase' = "fold" /\ op' = o /\ major' = mj /\ cap' = cp /\ shape' = sh
  BY <1>4, <1>7, <1>8 DEF Begin
<1>10. IsPlan(o, cp, sh) /\ Promised(o, cp, sh, Contents(ins))
  <2>1. CASE observed
    <3>1. o = "Union" /\ cp = observed_cap(ins)
      BY <1>4, <1>8, <2>1 DEF Observes
    <3> QED
      BY <1>6, <1>7, <3>1, ObservedPlan
  <2>2. CASE ~ observed
    BY <1>6, <1>7, <1>8, <2>2, TreePlan
  <2> QED
    BY <2>1, <2>2
<1> QED
  BY <1>1, <1>4, <1>6, <1>9, <1>10, Planned

----------------------------------------------------------------------------
\* The theorems.  Each is for leaves as a builder stores them; MCKeyFoldLoose
\* shows that without that the first is false.

\* The strengthening is inductive: every plan makes its promises (FlatPlan,
\* TreePlan, ObservedPlan) and every step of a fold keeps them.
LEMMA Inductive ==
  ASSUME LeavesAsBuilt
  PROVE  Spec => []IInv
<1>1. Init => IInv
  <2>1. SUFFICES ASSUME Init PROVE IInv
    OBVIOUS
  <2>2. /\ phase = "idle" /\ acc = NoAcc /\ n = 0 /\ wrote = {} /\ result = NoOperand
    BY <2>1 DEF Init
  <2>3. /\ NoOperand.c = Absent /\ NoOperand.s = NoShape /\ NoOperand.leaf = FALSE
        /\ Absent \in Containers /\ Absent.card = 0 /\ Absent.typ # CT_INLINE
        /\ IsShape(NoShape) /\ ~ (NoShape.card > 0)
    BY AbsentIs, Sizes DEF NoOperand
  <2>4. IdleInv
    BY <2>2, <2>3, Sizes DEF IdleInv
  <2> QED
    BY <2>2, <2>4 DEF IInv, FoldInv, WritesFit
<1>2. IInv /\ [Next]_vars => IInv'
  <2>1. SUFFICES ASSUME IInv, [Next]_vars PROVE IInv'
    OBVIOUS
  <2>2. CASE UNCHANGED vars
    BY <2>1, <2>2 DEF vars, IInv, FoldInv, IdleInv, WritesFit
  <2>3. CASE PlanFlat
    BY <2>1, <2>3, PlanFlatKeeps
  <2>4. CASE PlanTree
    BY <2>1, <2>4, PlanTreeKeeps
  <2>5. CASE StartFold
    BY <2>1, <2>5, StartFoldKeeps
  <2>6. CASE UnionPass
    BY <2>1, <2>6, UnionPassKeeps
  <2>7. CASE DiffPass
    BY <2>1, <2>7, DiffPassKeeps
  <2>8. CASE ArrayFold
    BY <2>1, <2>8, ArrayFoldKeeps
  <2>9. CASE NativeFold
    BY <2>1, <2>9, NativeFoldKeeps
  <2>10. CASE BitmapFold
    BY <2>1, <2>10, BitmapFoldKeeps
  <2>11. CASE FoldDone
    BY <2>1, <2>11, FoldDoneKeeps
  <2>12. CASE Return
    BY <2>1, <2>12, ReturnKeeps
  <2> QED
    BY <2>1, <2>2, <2>3, <2>4, <2>5, <2>6, <2>7, <2>8, <2>9, <2>10, <2>11, <2>12 DEF Next
<1> QED
  BY <1>1, <1>2, PTL DEF Spec

\* Every region a fold writes lies within its slot or its scratch half
\* (fold_key, union_fold_passes, diff_fold_passes over the slots the flat
\* planners, the tree analyzer and plan_union_observed size): no write of any
\* step, in either order, of any number of operands at any height of a tree, is
\* longer than its room.
THEOREM FoldsFitSlots ==
  ASSUME LeavesAsBuilt
  PROVE  Spec => []WritesFit
<1>1. IInv => WritesFit
  BY DEF IInv
<1> QED
  BY <1>1, Inductive, PTL

\* What record writes in the directory is what the slot holds: the true count
\* even when a bitmap kernel deferred it, an array short enough for the format,
\* a run container with runs.
THEOREM RecordsExact ==
  ASSUME LeavesAsBuilt
  PROVE  Spec => []RecordedExact
<1>1. IInv => RecordedExact
  <2>1. SUFFICES ASSUME IInv PROVE RecordedExact
    OBVIOUS
  <2>2. /\ Absent.typ = UNSEEDED /\ NoOperand.c = Absent
        /\ NoAcc.typ = UNSEEDED /\ NoAcc.card = 0 /\ NoAcc.runs = 0
    BY AbsentIs DEF NoAcc, Acc
  <2>3. 0 \in 0 .. KEYSPACE /\ 0 \in 0 .. MAX_RUNS
    BY Sizes
  <2>4. CASE phase = "idle"
    <3>1. /\ acc = NoAcc /\ n \in 0 .. KEYSPACE
          /\ result.c \in Containers /\ result.c.typ # CT_INLINE /\ result.c.card = n
      BY <2>1, <2>4 DEF IInv, IdleInv
    <3>2. /\ result.c.typ \in {UNSEEDED, CT_ARRAY, CT_BITMAP, CT_RUN}
          /\ result.c.typ = CT_ARRAY => n <= ARRAY_MAX_SIZE
          /\ result.c.runs \in Nat /\ result.c.runs <= MAX_RUNS
          /\ result.c.typ = CT_RUN => result.c.runs > 0
      BY <3>1, StoredIs
    <3>3. result.c.typ = CT_RUN => result.c.runs \in 1 .. MAX_RUNS
      BY <3>2, Sizes
    <3>4. TypeOK
      BY <2>2, <2>3, <2>4, <3>1, <3>2 DEF TypeOK
    <3> QED
      BY <3>1, <3>2, <3>3, <3>4 DEF RecordedExact
  <2>5. CASE phase = "fold"
    <3>1. /\ form = "none" => acc = NoAcc /\ n = 0
          /\ form # "none" => Started(op, cap, shape, form, acc, n, todo)
          /\ result = NoOperand
      BY <2>1, <2>5 DEF IInv, FoldInv
    <3>2. /\ acc.typ \in {UNSEEDED, CT_ARRAY, CT_BITMAP, CT_RUN, CT_INLINE}
          /\ acc.card \in {CARD_LAZY} \cup 0 .. KEYSPACE
          /\ acc.runs \in 0 .. MAX_RUNS
          /\ n \in 0 .. KEYSPACE
      BY <2>2, <2>3, <3>1 DEF Started, Accumulators
    <3>3. result.c.typ = UNSEEDED
      BY <2>2, <3>1
    <3>4. TypeOK
      BY <2>5, <3>2, <3>3 DEF TypeOK
    <3> QED
      BY <2>5, <3>4 DEF RecordedExact
  <2> QED
    BY <2>1, <2>4, <2>5 DEF IInv
<1> QED
  BY <1>1, Inductive, PTL

\* The tree analyzer's induction (shape.rs): what a node produced is within the
\* count and the slot its parent was told, at every height.
THEOREM ShapesCover ==
  ASSUME LeavesAsBuilt
  PROVE  Spec => []ShapeCovers
<1>1. IInv => ShapeCovers
  <2>1. SUFFICES ASSUME IInv PROVE ShapeCovers
    OBVIOUS
  <2>2. CASE phase = "idle"
    BY <2>1, <2>2 DEF IInv, IdleInv, ShapeCovers, Covers
  <2>3. CASE phase = "fold"
    <3>1. result = NoOperand
      BY <2>1, <2>3 DEF IInv, FoldInv
    <3>2. ~ (NoOperand.s.card > 0)
      BY AbsentIs
    <3> QED
      BY <3>1, <3>2 DEF ShapeCovers
  <2> QED
    BY <2>1, <2>2, <2>3 DEF IInv
<1> QED
  BY <1>1, Inductive, PTL

\* The debug assertions of the partner-major passes: union_apply's array merge
\* stays an array, and diff_apply meets a run or bitmap accumulator only in a
\* slot that is a bitmap's.
THEOREM AssertionsHold ==
  ASSUME LeavesAsBuilt
  PROVE  Spec => []PassAssertions
<1>1. IInv => PassAssertions
  <2>1. SUFFICES ASSUME IInv, Folding("pass"), Head(todo).card > 0
                 PROVE  /\ op = "Union" /\ acc.typ = CT_ARRAY =>
                             acc.card + Head(todo).card <= ARRAY_MAX_SIZE
                        /\ op = "Diff" /\ acc.card # 0 /\ acc.typ # CT_ARRAY => cap >= BITMAP_BYTES
    BY DEF PassAssertions
  <2>2. /\ todo # << >> /\ IsPlan(op, cap, shape)
        /\ Started(op, cap, shape, "pass", acc, n, todo)
    BY <2>1, FoldingIs
  <2>3. /\ n \in Nat /\ todo \in Seq(Containers)
        /\ Held(op, cap, "pass", acc, n, todo)
        /\ acc.typ # CT_BITMAP => acc.card = n
    BY <2>2, StartedIs
  <2>4. PICK p : p = Head(todo)
    OBVIOUS
  <2>5. PICK t : t = TotalCard(Tail(todo))
    OBVIOUS
  <2>6. /\ p.card \in Nat /\ p.card > 0 /\ t \in Nat /\ TotalCard(todo) = p.card + t
        /\ ~ NonePresent(todo)
    BY <2>1, <2>2, <2>3, <2>4, <2>5, NextIs
  <2>7. ASSUME op = "Union", acc.typ = CT_ARRAY
        PROVE  acc.card + p.card <= ARRAY_MAX_SIZE
    <3>1. Fits(cap, n + TotalCard(todo))
      BY <2>3, <2>7, HeldIs DEF UnionPassed
    <3>2. acc.card = n
      BY <2>3, <2>7, Sizes
    <3>3. n + (p.card + t) <= ARRAY_MAX_SIZE
      BY <2>6, <3>1 DEF Fits
    <3> QED
      BY <2>3, <2>6, <3>2, <3>3, Sizes
  <2>8. ASSUME op = "Diff", acc.typ # CT_ARRAY
        PROVE  cap >= BITMAP_BYTES
    <3>1. DiffPassed(cap, acc, n, todo)
      BY <2>3, <2>8, HeldIs
    <3>2. ~ Tight(cap)
      BY <2>6, <2>8, <3>1 DEF DiffPassed
    <3>3. cap \in Nat
      BY <2>2 DEF IsPlan
    <3> QED
      BY <3>2, <3>3, Sizes DEF Tight
  <2> QED
    BY <2>4, <2>7, <2>8
<1> QED
  BY <1>1, Inductive, PTL

=============================================================================
