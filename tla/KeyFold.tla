------------------------------ MODULE KeyFold -------------------------------
(***************************************************************************)
(* One output key of one fold: planning its slot, then folding the inputs' *)
(* containers at that key into it, by either fold order (src/ops/kernels), *)
(* and what a tree of such folds does when a node's slot is sized from a   *)
(* prediction of its operands (src/ops/analyze/shape.rs).                  *)
(*                                                                         *)
(* A container's values are abstracted to how many there are and how many  *)
(* runs they form; what an operation makes of two of them is any count set *)
(* algebra allows, taken from the bounds and from Cards.  Sizes are the    *)
(* real ones: `wrote` holds, for the last step, each region written with   *)
(* the room it had.                                                        *)
(***************************************************************************)
EXTENDS Decide, Sequences, FiniteSets, SequencesExt

CONSTANTS
  Leaves,     \* the containers a leaf may have at this key: [typ, card, runs]
  Cards,      \* counts a result may take, besides its exact bounds
  FlatArity,  \* most inputs of a one-shot operation
  TreeArity,  \* most operands of a tree's fold
  WideLeaves, \* the containers a leaf may have under a wide union
  WideArity,  \* operands of a wide union, which ends a tree
  WideHeight, \* folds under a wide union, at most
  MaxHeight   \* folds above one another

KEYSPACE == 65536

\* The state word of a slot no input reached, and the deferred count of a
\* bitmap accumulator (u32::MAX in the source).
UNSEEDED  == 255
CARD_LAZY == -1

SCRATCH_BYTES == 2 * BITMAP_BYTES

Absent    == [typ |-> UNSEEDED, card |-> 0, runs |-> 0]
NoShape   == [typ |-> UNSEEDED, cap |-> 0, card |-> 0, runs |-> 0]
NoOperand == [c |-> Absent, s |-> NoShape, leaf |-> FALSE]

ASSUME KeyFoldAssumption ==
  /\ Leaves \cup WideLeaves \subseteq
       [typ : {CT_ARRAY, CT_BITMAP, CT_RUN, CT_INLINE}, card : 1 .. KEYSPACE, runs : 0 .. MAX_RUNS]
  /\ \A c \in Leaves \cup WideLeaves :
       /\ c.typ = CT_ARRAY => c.card <= ARRAY_MAX_SIZE
       /\ IF c.typ = CT_RUN
          THEN c.runs >= 1 /\ c.runs <= c.card /\ c.runs + c.card <= KEYSPACE + 1
          ELSE c.runs = 0
  /\ Cards \subseteq 1 .. KEYSPACE
  /\ FlatArity \in Nat /\ TreeArity \in Nat /\ MaxHeight \in Nat
  /\ WideArity \in Nat /\ WideArity > TreeArity /\ WideHeight \in Nat

\* Runs as a builder stores them, no larger than an array would be, and no inline
\* group longer than an array.  Neither is enforced: an operation's result is a
\* leaf too and may have more runs, and a block of more values is stored inline
\* where that makes the whole smaller.
LeavesAsBuilt ==
  \A c \in Leaves \cup WideLeaves :
    /\ c.typ = CT_INLINE => c.card <= ARRAY_MAX_SIZE
    /\ c.typ = CT_RUN => run_bytes(c.runs) <= 2 * c.card

VARIABLES
  phase,   \* idle, fold
  op,      \* Intersect, Union, Diff
  major,   \* partner or key: the order of the fold
  form,    \* key-major: the accumulator form the kernel chose
  cap,     \* the slot's capacity
  shape,   \* what the analyzer predicts of the result; NoShape for a flat plan
  acc,     \* the accumulator: [typ, card, runs, at]
  n,       \* how many values it really holds
  todo,    \* containers still to fold, in order
  wrote,   \* the last step's writes: <<bytes, room>>
  height,  \* folds under the result
  result   \* the last fold's result as an operand: [c, s, leaf]

vars == << phase, op, major, form, cap, shape, acc, n, todo, wrote, height, result >>

----------------------------------------------------------------------------
\* What the set operations can make of a and b values.
Between(lo, hi) == {lo, hi} \cup {c \in Cards : lo < c /\ c < hi}

Smaller(a, b) == IF a <= b THEN a ELSE b

Counts(o, a, b) ==
  CASE o = "Union"     -> Between(Larger(a, b), Smaller(a + b, KEYSPACE))
    [] o = "Intersect" -> Between(Larger(0, a + b - KEYSPACE), Smaller(a, b))
    [] o = "Diff"      -> Between(Larger(0, a - b), Smaller(a, KEYSPACE - b))

\* The most runs an operation can make of r runs and the container p: a merge
\* keeps every run apart, a subtrahend splits one at each of its runs or points.
Fragments(o, r, p) ==
  CASE o = "Union"     -> r + p.runs
    [] o = "Intersect" -> r + p.runs - 1
    [] o = "Diff"      -> r + (IF p.typ = CT_RUN THEN p.runs ELSE p.card)

\* How many runs card values can form, when at most bound are possible.
RunCounts(card, bound) ==
  IF card = 0 THEN {0}
  ELSE {1, Smaller(bound, Smaller(card, KEYSPACE + 1 - card))}

----------------------------------------------------------------------------
\* Planning.  ins is the sequence of operands; one without a container at the
\* key has card 0.
stored(c) == stored_bytes(c.typ, c.card, c.runs)

Leaf(c) == [ c    |-> c,
             s    |-> [ typ  |-> IF c.typ = CT_INLINE THEN CT_ARRAY ELSE c.typ,
                        cap  |-> stored(c), card |-> c.card, runs |-> c.runs ],
             leaf |-> TRUE ]

Operands == {Leaf(c) : c \in Leaves} \cup {NoOperand}

\* What a union's planner knows of one operand: its container, or a prediction.
Fact(o)  == [typ |-> o.c.typ, cap |-> stored(o.c), card |-> o.c.card, runs |-> o.c.runs]
\* Mutant: the bytes the predicted type takes, not the slot proven for it.
Guess_typ(o) == [o.s EXCEPT !.cap = stored_bytes(o.s.typ, o.s.card, o.s.runs)]
Guess(o) == o.s

\* c[1] + ... + c[m].
Total(c, m) ==
  LET upto[k \in 0 .. m] == IF k = 0 THEN 0 ELSE upto[k - 1] + c[k]
  IN  upto[m]

Each(f(_), ins) == [i \in DOMAIN ins |-> f(ins[i])]

TotalCard(ms) == Total(Each(LAMBDA m : m.card, ms), Len(ms))
TotalRuns(ms) == Total(Each(LAMBDA m : m.runs, ms), Len(ms))

Least(S)    == CHOOSE x \in S : \A y \in S : x <= y
Greatest(S) == CHOOSE x \in S : \A y \in S : y <= x

\* The inputs that have a container at the key.
present(ms) == {i \in DOMAIN ms : ms[i].card > 0}

\* The aggregate over the inputs present at the key.
Aggregate(ms) ==
  [ n          |-> Cardinality(present(ms)),
    sum_card   |-> TotalCard(ms),
    total_runs |-> TotalRuns(ms),
    any_bitmap |-> \E i \in present(ms) : ms[i].typ = CT_BITMAP,
    all_run    |-> \A i \in present(ms) : ms[i].typ = CT_RUN,
    max_single |-> Greatest({0} \cup {ms[i].cap : i \in present(ms)}) ]

MinCard(ms) == Least({ms[i].card : i \in DOMAIN ms})

\* The three flat planners: the slot's capacity, from live containers.
flat_cap(o, ins) ==
  LET ms == Each(Fact, ins)
  IN  CASE o = "Intersect" -> shrink_cap(MinCard(ms))
        [] o = "Union"     -> union_choice(Aggregate(ms), "Flat").cap
        [] o = "Diff"      -> diff_cap(ms[1].card, ms[1].cap,
                                       \E i \in 2 .. Len(ms) : ms[i].card > 0)

\* The tree analyzer: the result's [typ, cap, card, runs], from shapes.
intersect_shape(ms) ==
  LET c == intersect_choice(MinCard(ms),
                            \A i \in DOMAIN ms : ms[i].typ = CT_RUN,
                            Aggregate(ms).total_runs)
  IN  [typ |-> c.typ, cap |-> c.cap, card |-> MinCard(ms), runs |-> c.runs]

\* Mutant: the largest operand bounds a union.
union_shape_max(ms) ==
  LET k == Aggregate(ms)
      c == union_choice(k, "Interior")
  IN  [typ |-> c.typ, cap |-> c.cap, runs |-> c.runs,
       card |-> Greatest({ms[i].card : i \in DOMAIN ms})]

union_shape(ms) ==
  LET k == Aggregate(ms)
      c == union_choice(k, "Interior")
  IN  [typ |-> c.typ, cap |-> c.cap, card |-> k.sum_card, runs |-> c.runs]

splits_into(m) == IF m.typ = CT_ARRAY THEN m.card ELSE m.runs

\* Each array point and each run boundary can add one fragment.
diff_run_bound(ms) ==
  ms[1].runs + Total(Each(splits_into, Tail(ms)), Len(ms) - 1)

Splittable(ms) ==
  \A i \in 2 .. Len(ms) : ms[i].card > 0 => ms[i].typ \in {CT_RUN, CT_ARRAY}

diff_shape(ms) ==
  LET c == diff_choice(ms[1], \E i \in 2 .. Len(ms) : ms[i].card > 0,
                       Splittable(ms), diff_run_bound(ms))
  IN  [typ |-> c.typ, cap |-> c.cap, card |-> ms[1].card, runs |-> c.runs]

shape_of(o, ins) ==
  LET ms == Each(Guess, ins)
  IN  CASE o = "Intersect" -> intersect_shape(ms)
        [] o = "Union"     -> union_shape(ms)
        [] o = "Diff"      -> diff_shape(ms)

\* plan_union_observed: leaves as analysis left them, intermediates as the
\* stack holds them.
observed_cap(ins) ==
  LET k == Aggregate([i \in DOMAIN ins |-> IF ins[i].leaf THEN Guess(ins[i]) ELSE Fact(ins[i])])
  IN  IF k.n = 0 THEN 0 ELSE union_choice(k, "Interior").cap

\* The operands reach the key: by their shapes for a plan, by their
\* containers for a fold.
Reaches(o, ms) ==
  CASE o = "Intersect" -> \A i \in DOMAIN ms : ms[i].card > 0
    [] o = "Union"     -> \E i \in DOMAIN ms : ms[i].card > 0
    [] o = "Diff"      -> ms[1].card > 0

----------------------------------------------------------------------------
\* Kernel steps.  Each is the set of its outcomes [acc, n, wrote].
Acc(typ, card, runs, at) == [typ |-> typ, card |-> card, runs |-> runs, at |-> at]

Out(a, m, w) == [acc |-> a, n |-> m, wrote |-> w]

NoAcc == Acc(UNSEEDED, 0, 0, "slot")

Seeded(c, at) == Acc(c.typ, c.card, c.runs, at)

InSlot(bytes)    == << bytes, cap >>
InScratch(bytes) == << bytes, BITMAP_BYTES >>
Room(at, bytes)  == IF at = "slot" THEN InSlot(bytes) ELSE InScratch(bytes)

Other(at) == IF at = "slot" THEN "scratch" ELSE "slot"

\* A partner that is not an array is written out sorted before a merge.
staged(p, room) == IF p.typ = CT_ARRAY THEN {} ELSE {<< 2 * p.card, room >>}

\* load_array, load_bitmap and the verbatim run copy.
load_array(c)  == Out(Acc(CT_ARRAY, c.card, 0, "slot"), c.card, {InSlot(2 * c.card)})
load_bitmap(c) == Out(Acc(CT_BITMAP, c.card, 0, "slot"), c.card, {InSlot(BITMAP_BYTES)})
copy_runs(c)   == Out(Seeded(c, "slot"), c.card, {InSlot(run_bytes(c.runs))})

\* or_into, clear_into, bitmap_and_count and their counting forms; a bitmap
\* accumulator is BITMAP_BYTES of its slot whatever it holds.
bitmap_fold(m, p, counted) ==
  { Out(Acc(CT_BITMAP, IF counted THEN c ELSE CARD_LAZY, 0, "slot"), c,
        {InSlot(BITMAP_BYTES)}) : c \in Counts(op, m, p.card) }

\* run::union, run::diff, run::diff_array over an accumulator of so many runs,
\* into a region of run_bytes(bound).
run_split(runs, m, p, bound) ==
  UNION { { Out(Acc(CT_RUN, c, r, "slot"), c,
                {InSlot(run_bytes(bound)), << run_bytes(r), run_bytes(bound) >>}) :
              r \in RunCounts(c, Fragments(op, runs, p)) } : c \in Counts(op, m, p.card) }

\* Partner-major union.
\* Mutant: a short array seeds as an array in any slot.
union_seed_array(p) ==
  IF cap < BITMAP_BYTES \/ p.typ = CT_ARRAY THEN load_array(p)
  ELSE IF p.typ = CT_RUN THEN copy_runs(p) ELSE load_bitmap(p)

union_seed(p) ==
  IF cap < BITMAP_BYTES THEN load_array(p)
  ELSE IF p.typ = CT_RUN THEN copy_runs(p) ELSE load_bitmap(p)

union_apply(a, m, p, is_last) ==
  IF p.card = 0 THEN {Out(a, m, {})}
  ELSE IF a.typ = UNSEEDED THEN {union_seed(p)}
  ELSE IF a.typ = CT_ARRAY /\ a.card + p.card <= ARRAY_MAX_SIZE
  THEN { Out(Acc(CT_ARRAY, c, 0, "slot"), c, {InSlot(2 * c)} \cup staged(p, SCRATCH_BYTES)) :
           c \in Counts(op, m, p.card) }
  ELSE IF a.typ = CT_RUN /\ p.typ = CT_RUN /\ a.runs + p.runs <= MAX_RUNS
  THEN run_split(a.runs, m, p, a.runs + p.runs)
  ELSE bitmap_fold(m, p, is_last)

\* Partner-major difference.
diff_extra(p) == IF p.typ = CT_RUN THEN p.runs ELSE p.card

\* Mutant: fragments are not counted.
splits_uncounted(a, p) == p.typ \in {CT_RUN, CT_ARRAY} /\ a.runs <= MAX_RUNS

\* The run accumulator stays in run form against p.
splits(a, p) == p.typ \in {CT_RUN, CT_ARRAY} /\ a.runs + diff_extra(p) <= MAX_RUNS

diff_apply(a, m, p, is_last) ==
  IF a.typ = CT_ARRAY
  THEN { Out(Acc(CT_ARRAY, c, 0, "slot"), c,
             IF p.typ \in {CT_ARRAY, CT_INLINE}
             THEN {InSlot(2 * c)} \cup staged(p, SCRATCH_BYTES) ELSE {}) :
           c \in Counts(op, m, p.card) }
  ELSE IF a.typ = CT_RUN /\ splits(a, p)
  THEN run_split(a.runs, m, p, a.runs + diff_extra(p))
  ELSE bitmap_fold(m, p, is_last)

\* A key a subtrahend touches is capped for an array; one none touches keeps
\* its stored form.
seeds_array(l) ==
  /\ l.card <= ARRAY_MAX_SIZE
  /\ l.typ \in {CT_ARRAY, CT_INLINE} \/ cap >= 2 * l.card

diff_seed_alone(l) ==
  IF seeds_array(l) THEN load_array(l)
  ELSE IF l.typ = CT_RUN THEN copy_runs(l) ELSE load_bitmap(l)

diff_seed(l, p, is_last) ==
  LET s == diff_seed_alone(l)
  IN  IF p.card = 0 THEN {s}
      ELSE IF l.typ = CT_ARRAY /\ p.typ = CT_ARRAY
      THEN { Out(Acc(CT_ARRAY, c, 0, "slot"), c, {InSlot(2 * c)}) : c \in Counts(op, l.card, p.card) }
      ELSE IF l.typ = CT_BITMAP /\ p.typ = CT_BITMAP /\ l.card > ARRAY_MAX_SIZE
      THEN bitmap_fold(l.card, p, TRUE)
      ELSE { [o EXCEPT !.wrote = @ \cup s.wrote] : o \in diff_apply(s.acc, s.n, p, is_last) }

----------------------------------------------------------------------------
\* Key-major folds start from a source container (at = "source").

\* ArrayAcc: merges go to the other buffer, run and bitmap partners of AND and
\* DIFF filter in place.
array_fold(a, m, p) ==
  IF a.at = "source" /\ a.typ = CT_ARRAY /\ p.typ = CT_ARRAY
  THEN { Out(Acc(CT_ARRAY, c, 0, "slot"), c, {InSlot(2 * c)}) : c \in Counts(op, m, p.card) }
  ELSE LET from   == IF a.at = "source" THEN "slot" ELSE a.at
           loaded == IF a.at = "source" THEN {InSlot(2 * m)} ELSE {}
           merges == op = "Union" \/ p.typ \in {CT_ARRAY, CT_INLINE}
           to     == IF merges THEN Other(from) ELSE from
       IN  { Out(Acc(CT_ARRAY, c, 0, to), c,
                 loaded \cup (IF merges THEN {Room(to, 2 * c)} \cup staged(p, BITMAP_BYTES)
                              ELSE {})) : c \in Counts(op, m, p.card) }

\* run_fold and run_fold_diff: the accumulator stays in the scratch halves.
native_fold(a, m, p) ==
  UNION { { Out(Acc(CT_RUN, c, r, "scratch"), c, {InScratch(4 * r)}) :
              r \in RunCounts(c, Fragments(op, a.runs, p)) } : c \in Counts(op, m, p.card) }

\* The accumulator form, from the containers present at the key.
AllRuns(cs) == \A i \in DOMAIN cs : cs[i].typ = CT_RUN

key_form(cs) ==
  CASE op = "Union" ->
         IF cap < BITMAP_BYTES THEN "array"
         ELSE IF AllRuns(cs) /\ TotalRuns(cs) <= MAX_RUNS THEN "run" ELSE "bitmap"
    [] op = "Intersect" ->
         IF MinCard(cs) <= ARRAY_MAX_SIZE THEN "array"
         ELSE IF AllRuns(cs) /\ TotalRuns(cs) <= MAX_RUNS THEN "run" ELSE "bitmap"
    [] op = "Diff" ->
         IF Len(cs) = 1 THEN "verbatim"
         ELSE IF cs[1].card <= ARRAY_MAX_SIZE THEN "array"
         ELSE IF cs[1].typ = CT_RUN /\ Splittable(cs) /\ diff_run_bound(cs) <= MAX_RUNS
         THEN "run" ELSE "bitmap"

\* Where the fold starts: the smallest container of an intersection, a bitmap
\* (if there is one) of a union kept as a bitmap, else the first.
key_seed(cs, f) ==
  CASE op = "Intersect" -> Least({i \in DOMAIN cs : cs[i].card = MinCard(cs)})
    [] op = "Union" /\ f = "bitmap" /\ (\E i \in DOMAIN cs : cs[i].typ = CT_BITMAP) ->
         Least({i \in DOMAIN cs : cs[i].typ = CT_BITMAP})
    [] OTHER -> 1

\* finish_bitmap: half the array limit is where demotion pays.
finish_bitmap(card) ==
  IF card = 0 \/ card > ARRAY_MAX_SIZE \div 2 THEN CT_BITMAP ELSE CT_ARRAY

----------------------------------------------------------------------------
\* Starting a fold over operands ins with a slot of c bytes.
Contents(ins) == Each(LAMBDA o : o.c, ins)

Present(cs) ==
  LET upto[k \in 0 .. Len(cs)] ==
        IF k = 0 THEN << >>
        ELSE IF cs[k].card > 0 THEN Append(upto[k - 1], cs[k]) ELSE upto[k - 1]
  IN  upto[Len(cs)]

Majors(o) == IF o = "Intersect" THEN {"key"} ELSE {"partner", "key"}

Begin(o, mj, c, s) ==
  /\ phase' = "fold"
  /\ op' = o /\ major' = mj /\ cap' = c /\ shape' = s

\* diff_fold_passes and union_fold_passes stream the inputs in order; a key-major
\* fold takes the containers present at the key.
StartFold ==
  /\ phase = "fold" /\ form = "none" /\ acc = NoAcc /\ todo # << >>
  /\ IF ~ Reaches(op, todo)
     THEN /\ todo' = << >>
          /\ UNCHANGED << form, acc, n, wrote >>
     ELSE IF major = "partner"
     THEN /\ form' = "pass"
          /\ IF op = "Union"
             THEN UNCHANGED << acc, n, wrote, todo >>
             ELSE LET p == IF Len(todo) > 1 THEN todo[2] ELSE Absent
                  IN  \E x \in diff_seed(todo[1], p, Len(todo) = 2) :
                        /\ acc' = x.acc /\ n' = x.n /\ wrote' = x.wrote
                        /\ todo' = SubSeq(todo, 3, Len(todo))
     ELSE LET cs == Present(todo)
              f  == key_form(cs)
              i  == key_seed(cs, f)
          IN  /\ form' = f
              /\ todo' = RemoveAt(cs, i)
              /\ n' = cs[i].card
              /\ IF f = "bitmap"
                 THEN acc' = load_bitmap(cs[i]).acc /\ wrote' = load_bitmap(cs[i]).wrote
                 ELSE acc' = Seeded(cs[i], "source") /\ wrote' = {}
  /\ UNCHANGED << phase, op, major, cap, shape, height, result >>

\* An operation on leaves: planned from its containers, or with every slot at
\* BITMAP_BYTES when the inputs are tiny (plan_trivial).
PlanFlat ==
  /\ phase = "idle" /\ result = NoOperand
  /\ \E o \in {"Intersect", "Union", "Diff"}, k \in 1 .. FlatArity :
     \E ins \in [1 .. k -> Operands], mj \in Majors(o) :
       /\ Reaches(o, Contents(ins))
       /\ \/ Begin(o, mj, flat_cap(o, ins), NoShape)
          \/ o # "Union" /\ mj = "key" /\ Begin(o, mj, BITMAP_BYTES, NoShape)
       /\ todo' = Contents(ins)
  /\ form' = "none" /\ acc' = NoAcc /\ n' = 0 /\ wrote' = {}
  /\ UNCHANGED << height, result >>

\* A fold of a tree: planned from shapes; a union over an intermediate is
\* planned again from what the operands turned out to be, unless no predicted
\* operand reserved a bitmap-sized slot anywhere or every one was skipped.
TreeOperands(k) ==
  LET others == IF k <= TreeArity THEN Operands ELSE {Leaf(c) : c \in WideLeaves}
  IN  { ins \in [1 .. k -> others \cup {result}] :
          result = NoOperand \/ \E i \in 1 .. k : ins[i] = result }

Observes(o, observed) ==
  LET mid == o = "Union" /\ result # NoOperand
  IN  IF observed THEN mid
      ELSE mid => result.s.cap < BITMAP_BYTES \/ result.c.card = 0

PlanTree ==
  /\ phase = "idle"
  /\ result # NoOperand => result.s.card > 0 /\ height < MaxHeight
  /\ \E o \in {"Intersect", "Union", "Diff"}, k \in (1 .. TreeArity) \cup {WideArity} :
     \E ins \in TreeOperands(k), observed \in BOOLEAN, mj \in Majors(o) :
       /\ o = "Diff" => k >= 2
       /\ k > TreeArity => o = "Union" /\ height <= WideHeight
       /\ Reaches(o, Each(Guess, ins))
       /\ Observes(o, observed)
       /\ LET s == shape_of(o, ins)
          IN  Begin(o, mj, IF observed THEN observed_cap(ins) ELSE s.cap, s)
       /\ todo' = Contents(ins)
       /\ height' = IF k > TreeArity THEN MaxHeight ELSE height + 1
  /\ form' = "none" /\ acc' = NoAcc /\ n' = 0 /\ wrote' = {}
  /\ result' = NoOperand

----------------------------------------------------------------------------
\* Folding the next container.
Apply(outs) ==
  /\ \E x \in outs : acc' = x.acc /\ n' = x.n /\ wrote' = x.wrote
  /\ todo' = Tail(todo)
  /\ UNCHANGED << phase, op, major, form, cap, shape, height, result >>

\* A fold that can only shrink stops once it is empty; a difference kept as a
\* bitmap does not count until its last partner.
Stopped ==
  acc.card = 0 /\ \/ form \in {"array", "run"}
                  \/ form = "bitmap" /\ op = "Intersect"

Folding(f) == phase = "fold" /\ form = f /\ todo # << >> /\ ~ Stopped

UnionPass ==
  /\ Folding("pass") /\ op = "Union"
  /\ Apply(union_apply(acc, n, Head(todo), Len(todo) = 1))

\* A pass skips a key its input lacks and an accumulator already empty.
DiffPass ==
  /\ Folding("pass") /\ op = "Diff"
  /\ Apply(IF Head(todo).card = 0 \/ acc.card = 0
           THEN {Out(acc, n, {})}
           ELSE diff_apply(acc, n, Head(todo), Len(todo) = 1))

ArrayFold  == Folding("array")  /\ Apply(array_fold(acc, n, Head(todo)))
NativeFold == Folding("run")    /\ Apply(native_fold(acc, n, Head(todo)))
BitmapFold ==
  /\ Folding("bitmap")
  /\ Apply(bitmap_fold(n, Head(todo), op = "Intersect" \/ Len(todo) = 1))

----------------------------------------------------------------------------
\* The type the container is recorded with.
final_typ(card) ==
  CASE form = "array" -> CT_ARRAY
    [] form = "verbatim" -> IF acc.typ = CT_INLINE THEN CT_ARRAY ELSE acc.typ
    [] form \in {"pass", "bitmap"} /\ acc.typ = CT_BITMAP /\ op # "Union" -> finish_bitmap(card)
    [] OTHER -> acc.typ

\* Mutant: a deferred count is recorded as it is.
final_card_deferred == acc.card

\* A deferred count is resolved before the container is recorded.
final_card == IF acc.card = CARD_LAZY THEN n ELSE acc.card

\* union_finalize, diff_finalize and the ends of the per-key folds: whatever is
\* still in scratch or in its source lands in the slot, and record skips an
\* empty container.
FoldDone ==
  /\ phase = "fold"
  /\ todo = << >> \/ Stopped
  /\ LET card == final_card
         typ  == final_typ(card)
         runs == IF typ = CT_RUN THEN acc.runs ELSE 0
         c    == IF card = 0 THEN Absent ELSE [typ |-> typ, card |-> card, runs |-> runs]
     IN  /\ result' = [c |-> c, s |-> shape, leaf |-> FALSE]
         /\ wrote' = (IF card = 0 THEN {} ELSE {InSlot(stored(c))})
                     \cup (IF form = "run" THEN {InSlot(run_bytes(runs)), InScratch(4 * runs)} ELSE {})
  /\ phase' = "idle"
  /\ op' = "none" /\ major' = "none" /\ form' = "none" /\ cap' = 0 /\ shape' = NoShape
  /\ acc' = NoAcc /\ todo' = << >>
  /\ UNCHANGED << n, height >>

\* The result goes to the caller.
Return ==
  /\ phase = "idle" /\ result # NoOperand
  /\ result' = NoOperand /\ n' = 0 /\ wrote' = {} /\ height' = 0
  /\ UNCHANGED << phase, op, major, form, cap, shape, acc, todo >>

----------------------------------------------------------------------------
Init ==
  /\ phase = "idle" /\ op = "none" /\ major = "none" /\ form = "none"
  /\ cap = 0 /\ shape = NoShape /\ acc = NoAcc /\ n = 0
  /\ todo = << >> /\ wrote = {} /\ height = 0 /\ result = NoOperand

Next ==
  \/ PlanFlat \/ PlanTree \/ StartFold
  \/ UnionPass \/ DiffPass \/ ArrayFold \/ NativeFold \/ BitmapFold
  \/ FoldDone \/ Return

Spec == Init /\ [][Next]_vars

----------------------------------------------------------------------------
\* An accumulator and a recorded container have a form the format has.
TypeOK ==
  /\ phase \in {"idle", "fold"}
  /\ acc.typ \in {UNSEEDED, CT_ARRAY, CT_BITMAP, CT_RUN, CT_INLINE}
  /\ acc.card \in {CARD_LAZY} \cup 0 .. KEYSPACE
  /\ n \in 0 .. KEYSPACE
  /\ acc.runs \in 0 .. MAX_RUNS
  /\ result.c.typ \in {UNSEEDED, CT_ARRAY, CT_BITMAP, CT_RUN}

\* The capacity contract: whatever form a fold passes through, in whichever
\* order it runs and whoever planned it, every region it writes lies within
\* its slot or its scratch half.
WritesFit == \A w \in wrote : w[1] <= w[2]

\* The accumulator and what is recorded have their types, and what is recorded
\* says what the slot holds: its count is the true one, never
\* a deferred one or that of an earlier partner; an array is short enough for
\* the format and a run container has runs.
RecordedExact ==
  /\ TypeOK
  /\ phase = "idle" =>
       /\ result.c.card = n
       /\ result.c.typ = CT_ARRAY => n <= ARRAY_MAX_SIZE
       /\ result.c.typ = CT_RUN => result.c.runs \in 1 .. MAX_RUNS

\* Induction over a tree: what a node produced is within what the analyzer told
\* its parent of it, however deep the prediction was made.
ShapeCovers ==
  result.s.card > 0 =>
    /\ result.c.card <= result.s.card
    /\ result.c.card > 0 => stored(result.c) <= result.s.cap

\* The two assertions of the partner-major kernels: an array accumulator never
\* outgrows an array (union_apply), and only an array accumulator lives in a
\* slot smaller than a bitmap when a partner arrives (diff_apply).
PassAssertions ==
  Folding("pass") /\ Head(todo).card > 0 =>
    /\ op = "Union" /\ acc.typ = CT_ARRAY => acc.card + Head(todo).card <= ARRAY_MAX_SIZE
    /\ op = "Diff" /\ acc.card # 0 /\ acc.typ # CT_ARRAY => cap >= BITMAP_BYTES

\* shape.rs: a shape holds "a bound on the output container's (card, runs,
\* type)".  A difference that keeps the left side's larger slot also keeps its
\* run count, and splitting the runs exceeds it.
ShapeBoundsRuns ==
  result.s.card > 0 /\ result.s.typ = CT_RUN /\ result.c.typ = CT_RUN =>
    result.c.runs <= result.s.runs

=============================================================================
