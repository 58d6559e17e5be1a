------------------------------- MODULE Accum --------------------------------
(***************************************************************************)
(* One key's fold on the cells of the buffers it runs in: the accumulator  *)
(* forms and how one becomes another (src/ops/kernels/accum.rs), the words *)
(* of a bitmap (src/ops/simd/common/words.rs and the bitmap kernels beside *)
(* it), and the passes and per-key folds that drive them.                  *)
(*                                                                         *)
(* KeyFold is the same fold with values abstracted to counts and sizes     *)
(* kept; here sizes are Wire's scaled ones and values are kept, together   *)
(* with whatever a buffer held before.  Merges of arrays and of runs are   *)
(* by what ArrayKernels and RunKernels show of them, and a key-major fold  *)
(* of runs alone is RunKernels' whole.                                     *)
(***************************************************************************)
EXTENDS Wire

CONSTANTS
  Containers,  \* what an input may have at the key: [typ, card, cells]
  MaxInputs,
  Stale,       \* what every cell of a buffer may hold from an earlier fold
  Cpus         \* neon counts in u16 lanes, other by words

\* An array of a bitmap's size; half of it is where demotion pays.
array_max == bitmap_cells

\* The count of a bitmap accumulator nobody has counted yet.
CARD_LAZY == -1

Absent == [typ |-> NONE, card |-> 0, cells |-> << >>]

ASSUME AccumAssumption ==
  /\ \A c \in Containers : c.typ \in {CT_ARRAY, CT_BITMAP, CT_RUN, CT_INLINE}
  /\ MaxInputs \in Nat /\ Stale \subseteq Lows /\ Cpus \subseteq {"neon", "other"}

VARIABLES
  op,      \* Intersect, Union, Diff
  major,   \* partner or key
  cpu,
  cap,     \* the slot's bytes
  ins,     \* the inputs' containers at the key
  seed,    \* the input a key-major fold starts from
  todo,    \* the inputs still to fold, in order
  form,    \* none, pass, array, bitmap, verbatim, done
  buf,     \* the cells of the slot, its mirror and the two halves of scratch,
           \* which is undivided (sa) in a partner-major fold
  acc,     \* the accumulator: [typ, card, runs, at]
  result   \* what is recorded: [typ, card, cells]

vars == << op, major, cpu, cap, ins, seed, todo, form, buf, acc, result >>

Acc(typ, card, nr, at) == [typ |-> typ, card |-> card, runs |-> nr, at |-> at]

NoAcc == Acc(NONE, 0, 0, "slot")

\* The cells of a buffer.
room(at) ==
  CASE major = "partner" /\ at = "sa" -> 2 * bitmap_cells
    [] major = "partner" /\ at = "sb" -> 0
    [] OTHER -> bitmap_cells

\* Data::write_sorted.
write_sorted(c) == IF c.typ = CT_INLINE THEN c.cells ELSE for_each(c.typ, c.cells)

lows(c) == IF c.typ = NONE THEN {} ELSE Range(write_sorted(c))

num_runs(c) == IF c.typ = CT_RUN THEN c.cells[1] ELSE 0

stored(c) == 2 * Len(c.cells)

\* A write overwrites the start of a buffer.
write(b, at, cells) ==
  [b EXCEPT ![at] = cells \o SubSeq(@, Len(cells) + 1, Len(@))]

taken(b, at, n) == SubSeq(b[at], 1, n)

----------------------------------------------------------------------------
\* Bitmap words.
Words == 1 .. bitmap_cells

word(s) == MapThenSumSet(LAMBDA b : 2 ^ b, s)

clear == [w \in Words |-> 0]

or(x, y)     == [w \in Words |-> word(bits(x[w]) \cup bits(y[w]))]
and(x, y)    == [w \in Words |-> word(bits(x[w]) \cap bits(y[w]))]
andnot(x, y) == [w \in Words |-> word(bits(x[w]) \ bits(y[w]))]

bits_at(w, s) == {v % WORD_BITS : v \in {u \in s : u \div WORD_BITS = w - 1}}

set_values(x, s)   == [w \in Words |-> word(bits(x[w]) \cup bits_at(w, s))]
clear_values(x, s) == [w \in Words |-> word(bits(x[w]) \ bits_at(w, s))]

\* Mutant: a range within one word is not cut at its end.
fill_uncut(w, lo, hi) ==
  LET wl == (lo \div WORD_BITS) + 1
      wh == (hi \div WORD_BITS) + 1
  IN  { b \in 0 .. WORD_BITS - 1 :
          /\ wl <= w /\ w <= wh
          /\ w = wl => b >= lo % WORD_BITS
          /\ w = wh /\ wl # wh => b <= hi % WORD_BITS }

\* fill's masks: the bits of word w within lo .. hi.
fill(w, lo, hi) ==
  LET wl == (lo \div WORD_BITS) + 1
      wh == (hi \div WORD_BITS) + 1
  IN  { b \in 0 .. WORD_BITS - 1 :
          /\ wl <= w /\ w <= wh
          /\ w = wl => b >= lo % WORD_BITS
          /\ w = wh => b <= hi % WORD_BITS }

filled(w, rs) == UNION {fill(w, r.start, end(r)) : r \in Range(rs)}

set_runs(x, rs)   == [w \in Words |-> word(bits(x[w]) \cup filled(w, rs))]
clear_runs(x, rs) == [w \in Words |-> word(bits(x[w]) \ filled(w, rs))]

popcount_scalar(x) == FoldFunction(LAMBDA w, n : count_ones(w) + n, 0, x)

\* One u16 lane per bit of a word here; the code has eight in a vector.
lane(x, b) == u16(Cardinality({w \in Words : bit(x[w], b)}))

\* Mutant: the lanes are added up without widening.
popcount_narrow(x) == u16(FoldSet(LAMBDA b, n : lane(x, b) + n, 0, 0 .. WORD_BITS - 1))

popcount_neon(x) == FoldSet(LAMBDA b, n : lane(x, b) + n, 0, 0 .. WORD_BITS - 1)

popcount(x) == IF cpu = "neon" THEN popcount_neon(x) ELSE popcount_scalar(x)

or_into(x, c) ==
  CASE c.typ = CT_BITMAP -> or(x, c.cells)
    [] c.typ = CT_RUN    -> set_runs(x, runs(c.cells))
    [] OTHER             -> set_values(x, lows(c))

clear_into(x, c) ==
  CASE c.typ = CT_BITMAP -> andnot(x, c.cells)
    [] c.typ = CT_RUN    -> clear_runs(x, runs(c.cells))
    [] OTHER             -> clear_values(x, lows(c))

----------------------------------------------------------------------------
\* Steps on the accumulator: each gives the buffers and the accumulator after.
Step(b, a) == [buf |-> b, acc |-> a]
Now        == Step(buf, acc)

load_array(c) ==
  Step(write(buf, "slot", write_sorted(c)), Acc(CT_ARRAY, Len(write_sorted(c)), 0, "slot"))

load_bitmap(c) ==
  Step(write(buf, "slot", IF c.typ = CT_BITMAP THEN c.cells ELSE or_into(clear, c)),
       Acc(CT_BITMAP, c.card, 0, "slot"))

copy_runs(c) ==
  Step(write(buf, "slot", c.cells), Acc(CT_RUN, c.card, num_runs(c), "slot"))

\* The side a merge writes to, and the region a partner is staged in.
across(at) == IF at # "slot" THEN "slot" ELSE IF major = "key" THEN "sa" ELSE "mirror"

\* Mutant: the accumulator's own half.
staging_first == "sa"
staging == IF major = "key" THEN "sb" ELSE "sa"

\* What the merge kernels make of two sorted slices or run lists.
kernel(s, t) ==
  CASE op = "Union"     -> s \cup t
    [] op = "Intersect" -> s \cap t
    [] op = "Diff"      -> s \ t

\* Both sides are read after the partner is staged.
merge(g, p) ==
  LET a   == g.acc
      b   == IF p.typ = CT_ARRAY THEN g.buf ELSE write(g.buf, staging, write_sorted(p))
      t   == IF p.typ = CT_ARRAY THEN p.cells ELSE taken(b, staging, Len(write_sorted(p)))
      out == sorted(kernel(Range(taken(b, a.at, a.card)), Range(t)))
  IN  Step(write(b, across(a.at), out), Acc(CT_ARRAY, Len(out), 0, across(a.at)))

\* retain_runs passes over the runs that end before v.
inside(p, v) ==
  IF p.typ = CT_BITMAP THEN bit(p.cells[(v \div WORD_BITS) + 1], v % WORD_BITS)
  ELSE LET rs == runs(p.cells)
           ri == SelectInSeq(rs, LAMBDA r : end(r) >= v)
       IN  ri # 0 /\ rs[ri].start <= v

\* retain_runs and retain_bitmap filter the accumulator where it is.
retain(g, p) ==
  LET out == SelectSeq(taken(g.buf, g.acc.at, g.acc.card),
                       LAMBDA v : inside(p, v) = (op = "Intersect"))
  IN  Step(write(g.buf, g.acc.at, out), [g.acc EXCEPT !.card = Len(out)])

array_fold(g, p) ==
  IF op # "Union" /\ p.typ \in {CT_RUN, CT_BITMAP} THEN retain(g, p) ELSE merge(g, p)

\* The runs of a run accumulator are as many as its state says.
slot_runs(g) == runs(<< g.acc.runs >> \o Tail(g.buf[g.acc.at]))

run_values(g) == UNION {r.start .. end(r) : r \in Range(slot_runs(g))}

run_merge(g, p) ==
  LET out == sorted(kernel(run_values(g), lows(p)))
  IN  Step(write(g.buf, across(g.acc.at), extract_runs(out)),
           Acc(CT_RUN, Len(out), count_runs(out), across(g.acc.at)))

run_acc_to_bitmap(g) ==
  Step(write(g.buf, across(g.acc.at), set_runs(clear, slot_runs(g))),
       Acc(CT_BITMAP, g.acc.card, 0, across(g.acc.at)))

\* An intersection's partner that is no bitmap is made one in scratch.
bitmap_and(g, p) ==
  LET b == IF p.typ = CT_BITMAP THEN g.buf ELSE write(g.buf, "sa", or_into(clear, p))
      t == IF p.typ = CT_BITMAP THEN p.cells ELSE b["sa"]
  IN  write(b, g.acc.at, and(b[g.acc.at], t))

\* Mutant: a union adds its counts up.
count_added(g, b, p) ==
  IF op = "Union" THEN g.acc.card + p.card ELSE popcount(b[g.acc.at])

\* What a fused kernel counts.
count(g, b, p) == popcount(b[g.acc.at])

bitmap_fold(g, p, counted) ==
  LET b == CASE op = "Union"     -> write(g.buf, g.acc.at, or_into(g.buf[g.acc.at], p))
             [] op = "Diff"      -> write(g.buf, g.acc.at, clear_into(g.buf[g.acc.at], p))
             [] op = "Intersect" -> bitmap_and(g, p)
  IN  Step(b, Acc(CT_BITMAP, IF counted THEN count(g, b, p) ELSE CARD_LAZY, 0, g.acc.at))

----------------------------------------------------------------------------
\* Partner-major.
union_seed(p) ==
  IF cap < bitmap_bytes THEN load_array(p)
  ELSE IF p.typ = CT_RUN THEN copy_runs(p) ELSE load_bitmap(p)

\* What subtracting p may split a run accumulator into, besides its own runs.
extra(p) == IF op = "Diff" /\ p.typ = CT_ARRAY THEN Len(p.cells) ELSE num_runs(p)

\* Mutant: fragments are not counted.
stays_runs_any(g, p) == p.typ = CT_RUN \/ (op = "Diff" /\ p.typ = CT_ARRAY)

stays_runs(g, p) ==
  /\ p.typ = CT_RUN \/ (op = "Diff" /\ p.typ = CT_ARRAY)
  /\ g.acc.runs + extra(p) <= max_runs

\* union_apply and diff_apply on a seeded slot.
apply(g, p, is_last) ==
  CASE g.acc.typ = CT_ARRAY  -> array_fold(g, p)
    [] g.acc.typ = CT_RUN    -> IF stays_runs(g, p) THEN run_merge(g, p)
                                ELSE bitmap_fold(run_acc_to_bitmap(g), p, is_last)
    [] g.acc.typ = CT_BITMAP -> bitmap_fold(g, p, is_last)

diff_seed_alone(l) ==
  IF l.card <= array_max /\ (l.typ \in {CT_ARRAY, CT_INLINE} \/ cap >= 2 * l.card)
  THEN load_array(l)
  ELSE IF l.typ = CT_RUN THEN copy_runs(l) ELSE load_bitmap(l)

\* array_diff and andnot_into_count straight from the sources.
direct_array(l, p) ==
  LET out == sorted(kernel(lows(l), lows(p)))
  IN  Step(write(buf, "slot", out), Acc(CT_ARRAY, Len(out), 0, "slot"))

direct_bitmap(l, p) ==
  LET out == andnot(l.cells, p.cells)
  IN  Step(write(buf, "slot", out), Acc(CT_BITMAP, popcount(out), 0, "slot"))

diff_seed(l, p, is_last) ==
  IF p = Absent THEN diff_seed_alone(l)
  ELSE IF l.typ = CT_ARRAY /\ p.typ = CT_ARRAY THEN direct_array(l, p)
  ELSE IF l.typ = CT_BITMAP /\ p.typ = CT_BITMAP /\ l.card > array_max THEN direct_bitmap(l, p)
  ELSE apply(diff_seed_alone(l), p, is_last)

----------------------------------------------------------------------------
\* Key-major: the inputs present, the form the kernel picks, where it starts.
At(s) == [j \in DOMAIN s |-> ins[s[j]]]

present == SelectSeq([i \in DOMAIN ins |-> i], LAMBDA i : ins[i] # Absent)

min_card(s) == Min({ins[i].card : i \in Range(s)})

all_runs(s) == \A i \in Range(s) : ins[i].typ = CT_RUN

total_runs(s) == FoldSeq(LAMBDA i, n : num_runs(ins[i]) + n, 0, s)

diff_run_bound(s) ==
  FoldSeq(LAMBDA i, n : n + (IF ins[i].typ = CT_ARRAY THEN ins[i].card ELSE num_runs(ins[i])), 0, s)

key_form(s) ==
  CASE op = "Union" ->
         IF cap < bitmap_bytes THEN "array"
         ELSE IF all_runs(s) /\ total_runs(s) <= max_runs THEN "run" ELSE "bitmap"
    [] op = "Intersect" ->
         IF min_card(s) <= array_max THEN "array"
         ELSE IF all_runs(s) /\ total_runs(s) <= max_runs THEN "run" ELSE "bitmap"
    [] op = "Diff" ->
         IF Len(s) = 1 THEN "verbatim"
         ELSE IF ins[1].card <= array_max THEN "array"
         ELSE IF /\ ins[1].typ = CT_RUN
                 /\ \A i \in Range(Tail(s)) : ins[i].typ \in {CT_RUN, CT_ARRAY}
                 /\ diff_run_bound(s) <= max_runs
         THEN "run" ELSE "bitmap"

key_seed(s, f) ==
  CASE op = "Intersect" -> SelectInSeq(s, LAMBDA i : ins[i].card = min_card(s))
    [] op = "Union" /\ f = "bitmap" ->
         Max({1, SelectInSeq(s, LAMBDA i : ins[i].typ = CT_BITMAP)})
    [] OTHER -> 1

Fold(g, rest) ==
  /\ buf' = g.buf /\ acc' = g.acc
  /\ todo' = rest
  /\ UNCHANGED << op, major, cpu, cap, ins, result >>

StartPass ==
  /\ form = "none" /\ major = "partner"
  /\ form' = "pass" /\ seed' = Absent
  /\ IF op = "Union" THEN Fold(Now, todo)
     ELSE LET p == IF Len(ins) > 1 THEN ins[2] ELSE Absent
          IN  Fold(diff_seed(ins[1], p, Len(ins) = 2), SubSeq(todo, 3, Len(todo)))

\* A bitmap accumulator is loaded from its seed, unless a lone bitmap is taken
\* from it; an array one waits for its first partner.  Form run is RunKernels'.
StartKey ==
  /\ form = "none" /\ major = "key"
  /\ LET f    == key_form(present)
         i    == key_seed(present, f)
         s    == ins[present[i]]
         rest == RemoveAt(present, i)
     IN  /\ form' = f /\ seed' = s
         /\ IF f # "bitmap" THEN Fold(Now, rest)
            ELSE IF /\ op = "Diff" /\ Len(rest) = 1
                    /\ s.typ = CT_BITMAP /\ ins[rest[1]].typ = CT_BITMAP
            THEN Fold(direct_bitmap(s, ins[rest[1]]), << >>)
            ELSE Fold(load_bitmap(s), rest)

next == ins[Head(todo)]

\* An input that has not the key is passed over, and so is an accumulator that
\* a difference has emptied.
Pass ==
  /\ form = "pass" /\ todo # << >>
  /\ Fold( IF next = Absent \/ (op = "Diff" /\ acc.card = 0) THEN Now
           ELSE IF acc = NoAcc THEN union_seed(next)
           ELSE apply(Now, next, Len(todo) = 1), Tail(todo) )
  /\ UNCHANGED << form, seed >>

Stopped ==
  /\ acc # NoAcc /\ acc.card = 0
  /\ (form = "array" /\ op # "Union") \/ (form = "bitmap" /\ op = "Intersect")

ArrayFold ==
  /\ form = "array" /\ todo # << >> /\ ~ Stopped
  /\ Fold( IF acc # NoAcc THEN array_fold(Now, next)
           ELSE IF seed.typ = CT_ARRAY /\ next.typ = CT_ARRAY THEN direct_array(seed, next)
           ELSE array_fold(load_array(seed), next), Tail(todo) )
  /\ UNCHANGED << form, seed >>

BitmapFold ==
  /\ form = "bitmap" /\ todo # << >> /\ ~ Stopped
  /\ Fold(bitmap_fold(Now, next, op = "Intersect" \/ Len(todo) = 1), Tail(todo))
  /\ UNCHANGED << form, seed >>

----------------------------------------------------------------------------
\* Mutant: an accumulator that ended in scratch stays there.
landed_never(g) == [g EXCEPT !.acc.at = "slot"]

\* ArrayAcc::finish: what ended in scratch is copied to the slot.
landed(g) ==
  IF g.acc.at = "slot" THEN g
  ELSE Step(write(g.buf, "slot", taken(g.buf, "sa", g.acc.card)), [g.acc EXCEPT !.at = "slot"])

\* A deferred count is resolved.
counted(g) ==
  IF g.acc.card = CARD_LAZY THEN [g EXCEPT !.acc.card = popcount(g.buf[g.acc.at])] ELSE g

\* finish_bitmap: few enough values are extracted through scratch.
finish_bitmap(g) ==
  IF g.acc.card = 0 \/ g.acc.card > array_max \div 2 THEN g
  ELSE LET vals == for_each(CT_BITMAP, g.buf[g.acc.at])
           b    == write(g.buf, "sa", vals)
       IN  Step(write(b, g.acc.at, taken(b, "sa", Len(vals))), [g.acc EXCEPT !.typ = CT_ARRAY])

\* The ends of the per-key folds, union_finalize and diff_finalize.
finished ==
  CASE form = "verbatim" -> IF seed.typ = CT_INLINE THEN load_array(seed)
                            ELSE Step(write(buf, "slot", seed.cells),
                                      Acc(seed.typ, seed.card, num_runs(seed), "slot"))
    [] form = "array"    -> landed(IF acc = NoAcc THEN load_array(seed) ELSE Now)
    [] form = "bitmap"   -> IF op # "Union" THEN finish_bitmap(Now)
                            ELSE IF Len(present) = 1
                            THEN Step(buf, [acc EXCEPT !.card = popcount(buf["slot"])])
                            ELSE Now
    [] form = "pass"     -> IF acc.typ = CT_BITMAP /\ op = "Diff" THEN finish_bitmap(counted(Now))
                            ELSE counted(Now)

\* The cells record is told the payload has.
data_cells(a) ==
  CASE a.typ = CT_ARRAY  -> a.card
    [] a.typ = CT_BITMAP -> bitmap_cells
    [] a.typ = CT_RUN    -> 1 + 2 * a.runs

\* record leaves out an empty container.
Finish ==
  /\ form \in {"pass", "array", "bitmap", "verbatim"}
  /\ todo = << >> \/ Stopped
  /\ LET g == finished
     IN  /\ buf' = g.buf /\ acc' = g.acc
         /\ result' = IF g.acc.card = 0 THEN Absent
                      ELSE [ typ |-> g.acc.typ, card |-> g.acc.card,
                             cells |-> taken(g.buf, g.acc.at, data_cells(g.acc)) ]
  /\ form' = "done"
  /\ UNCHANGED << op, major, cpu, cap, ins, seed, todo >>

----------------------------------------------------------------------------
\* The capacities a plan may have given the slot: an array's for a union whose
\* values fit one together; a difference's left side as stored when nothing is
\* taken from it.
shrink(card) == IF card <= array_max THEN 2 * card ELSE bitmap_bytes

total_card(s) == FoldSeq(LAMBDA c, n : c.card + n, 0, s)

Caps(o, s) ==
  CASE o = "Union"     -> {bitmap_bytes} \cup (IF total_card(s) <= array_max THEN {2 * total_card(s)} ELSE {})
    [] o = "Intersect" -> {bitmap_bytes}
    [] o = "Diff"      -> {shrink(s[1].card)}
                          \cup (IF Tail(s) \in Seq({Absent}) THEN {stored(s[1])} ELSE {})

Reaches(o, s) ==
  CASE o = "Intersect" -> \A i \in DOMAIN s : s[i] # Absent
    [] o = "Union"     -> \E i \in DOMAIN s : s[i] # Absent
    [] o = "Diff"      -> s[1] # Absent

Init ==
  /\ op \in {"Intersect", "Union", "Diff"}
  /\ major \in IF op = "Intersect" THEN {"key"} ELSE {"partner", "key"}
  /\ cpu \in Cpus
  /\ \E k \in 1 .. MaxInputs : ins \in [1 .. k -> Containers \cup {Absent}]
  /\ Reaches(op, ins)
  /\ cap \in Caps(op, ins)
  /\ todo = [i \in DOMAIN ins |-> i]
  /\ form = "none" /\ seed = Absent /\ acc = NoAcc /\ result = Absent
  /\ buf \in {[at \in {"slot", "mirror", "sa", "sb"} |-> [w \in 1 .. room(at) |-> v]] : v \in Stale}

Next == StartPass \/ StartKey \/ Pass \/ ArrayFold \/ BitmapFold \/ Finish

Spec == Init /\ [][Next]_vars

----------------------------------------------------------------------------
\* What SCRATCH_BYTES is for ("Scratch the kernels need", plan.rs:71): no step
\* writes past the buffer it writes to.
WritesWithin == \A at \in DOMAIN buf : Len(buf[at]) = room(at)

\* Cells are cells, and an accumulator has a form the format has.
AccumTypeOK ==
  /\ form \in {"none", "pass", "array", "bitmap", "run", "verbatim", "done"}
  /\ \A at \in DOMAIN buf : buf[at] \in Seq(Lows)
  /\ acc.typ \in {NONE, CT_ARRAY, CT_BITMAP, CT_RUN, CT_INLINE}
  /\ acc.card \in {CARD_LAZY} \cup 0 .. LOWS /\ acc.runs \in 0 .. max_runs
  /\ acc.at \in DOMAIN buf

\* The set the inputs of I give.
meant(I) ==
  CASE op = "Union"     -> UNION {lows(ins[i]) : i \in I}
    [] op = "Intersect" -> {v \in Lows : \A i \in I : v \in lows(ins[i])}
    [] op = "Diff"      -> lows(ins[1]) \ UNION {lows(ins[i]) : i \in I \ {1}}

\* What the accumulator's cells say it holds.
held ==
  CASE acc.typ = CT_ARRAY  -> Range(taken(buf, acc.at, acc.card))
    [] acc.typ = CT_BITMAP -> Range(for_each(CT_BITMAP, buf[acc.at]))
    [] acc.typ = CT_RUN    -> run_values(Now)

Folding == form \in {"pass", "array", "bitmap"} /\ acc # NoAcc

\* After every partner, on whichever side the accumulator is and in whatever
\* form, it holds exactly what the inputs folded so far give: nothing a buffer
\* held before shows through, and no side is mistaken for the other.
HeldExact ==
  Folding => LET now == held IN now = meant(DOMAIN ins \ Range(todo))

\* A count is the accumulator's, or is known to be out of date: it is what the
\* folds stop by, choose forms by and read arrays by.
CountExact ==
  /\ AccumTypeOK
  /\ Folding /\ acc.card # CARD_LAZY => acc.card = Cardinality(meant(DOMAIN ins \ Range(todo)))

\* What is recorded is the operation's result over all the inputs, also when
\* the fold stopped early: as a payload of the type and count said, the lows in
\* ascending order, and none at all for the empty set.
ResultExact ==
  form = "done" =>
    /\ lows(result) = meant(DOMAIN ins)
    /\ result # Absent =>
         /\ write_sorted(result) = sorted(lows(result))
         /\ result.card = Cardinality(lows(result))
         /\ result.typ = CT_ARRAY => result.card <= array_max


=============================================================================
