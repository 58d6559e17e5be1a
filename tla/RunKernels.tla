----------------------------- MODULE RunKernels ------------------------------
(***************************************************************************)
(* Set operations on run containers (src/ops/kernels/run.rs), one loop     *)
(* turn a step, and the folds that string them together over two buffers   *)
(* that take turns (run_fold in accum.rs, run_fold_diff in difference.rs). *)
(*                                                                         *)
(* A value is a u16 and so are a run's start and length; the kernels       *)
(* compute in u32, where one past the last value is no overflow.           *)
(***************************************************************************)
EXTENDS Integers, Sequences, FiniteSets, SequencesExt, FiniteSetsExt

CONSTANTS
  LAST,         \* the last value of a container: u16::MAX in the code
  Folds         \* the containers folded, the first the seed: run containers, and
                \* array containers as runs of one value

WIDTH == LAST + 1
Value == 0 .. LAST
Run   == [start : Value, len : Value]

\* `as u16`.
u16(n) == n % WIDTH

end(r)    == u16(r.start + r.len)
run(s, e) == [start |-> u16(s), len |-> u16(e - s)]

covers(r) == r.start .. end(r)
Values(s) == UNION {covers(s[i]) : i \in DOMAIN s}

\* What a run container holds: ascending runs that do not overlap.
IsRuns(s) ==
  /\ \A i \in DOMAIN s : s[i].start + s[i].len <= LAST
  /\ \A i \in 1 .. Len(s) - 1 : end(s[i]) < s[i + 1].start

Coalesced(s) == \A i \in 1 .. Len(s) - 1 : end(s[i]) + 1 < s[i + 1].start

ASSUME RunAssumption ==
  /\ LAST \in Nat
  /\ \A f \in Folds :
       /\ f \in Seq(Seq(Run)) /\ f # << >>
       /\ \A i \in DOMAIN f : IsRuns(f[i])

VARIABLES
  op,      \* intersect, union, diff
  ins,     \* the containers: the first is the seed
  rest,    \* partners not folded yet
  phase,   \* fold, kernel, cut (the inner loop of diff), done
  halves,  \* the two buffers, with whatever they hold beyond the last result
  in_b,    \* which of them holds the accumulator
  nr,      \* its runs
  card,    \* the count the last kernel returned, or the one it has come to
  x, y,    \* the kernel's inputs
  out,     \* what it has written
  ai, bi, bj,  \* where it is in its inputs
  c        \* union's current run, diff's what is left of one: [lo, hi]

vars == << op, ins, rest, phase, halves, in_b, nr, card, x, y, out, ai, bi, bj, c >>

fold   == << op, ins, rest, halves, in_b, nr, x, y >>

NoRange == [lo |-> 0, hi |-> 0]

----------------------------------------------------------------------------
\* The fold.
half(b) == IF b THEN "b" ELSE "a"

\* Fold 1 reads the seed where it lies; later ones read the half written last.
\* Mutant: the accumulator is taken for the whole half, stale runs included.
source_whole == IF Len(rest) = Len(ins) - 1 THEN ins[1] ELSE halves[half(in_b)]
source == IF Len(rest) = Len(ins) - 1 THEN ins[1] ELSE SubSeq(halves[half(in_b)], 1, nr)

\* What the key before left in the scratch halves.
Leftover == << run(0, LAST), run(0, LAST) >>

\* A container of a fold holds a value; a kernel called on its own takes empty
\* slices too.
Init ==
  /\ op \in {"intersect", "union", "diff"}
  /\ ins \in Folds
  /\ op = "diff" => Len(ins) >= 2
  /\ Len(ins) # 2 => \A i \in DOMAIN ins : ins[i] # << >>
  /\ rest = Tail(ins)
  /\ phase = "fold"
  /\ halves = [h \in {"a", "b"} |-> Leftover] /\ in_b = FALSE
  /\ nr = Len(ins[1]) /\ card = Cardinality(Values(ins[1]))
  /\ x = << >> /\ y = << >> /\ out = << >>
  /\ ai = 1 /\ bi = 1 /\ bj = 1 /\ c = NoRange

\* union starts from whichever of its inputs starts earliest.
Seeded(s, t) ==
  CASE s = << >> \/ t = << >> -> [ai |-> 1, bi |-> 1, c |-> NoRange]
    [] s # << >> /\ t # << >> /\ s[1].start <= t[1].start ->
         [ai |-> 2, bi |-> 1, c |-> [lo |-> s[1].start, hi |-> end(s[1])]]
    [] OTHER ->
         [ai |-> 1, bi |-> 2, c |-> [lo |-> t[1].start, hi |-> end(t[1])]]

\* The next partner is folded in, unless nothing is left to fold it into.
Call ==
  /\ phase = "fold" /\ rest # << >>
  /\ Len(rest) < Len(ins) - 1 => card # 0
  /\ x' = source /\ y' = Head(rest)
  /\ rest' = Tail(rest)
  /\ phase' = "kernel"
  /\ out' = << >> /\ card' = 0 /\ bj' = 1
  /\ LET s == IF op = "union" THEN Seeded(source, Head(rest))
              ELSE [ai |-> 1, bi |-> 1, c |-> NoRange]
     IN  ai' = s.ai /\ bi' = s.bi /\ c' = s.c
  /\ UNCHANGED << op, ins, halves, in_b, nr >>

\* The runs its output has room for: what the folds size the other side of a slot
\* for, and both scratch halves hold if MAX_RUNS bounds it.
\* Mutant: a difference and an intersection are taken to have no more runs than
\* they start from.
bound_kept == IF op = "union" THEN Len(x) + Len(y) ELSE Len(x)
bound == Len(x) + Len(y)

\* What a kernel returns overwrites the start of the half it was given: the
\* first for fold 1, then the one the accumulator is not in.
Return(runs) ==
  LET to  == (Len(rest) < Len(ins) - 2) /\ ~in_b
      old == halves[half(to)]
  IN  /\ phase' = "fold"
      /\ halves' = [halves EXCEPT ![half(to)] = runs \o SubSeq(old, Len(runs) + 1, Len(old))]
      /\ in_b' = to
      /\ nr' = Len(runs)
      /\ UNCHANGED << op, ins, rest, x, y, ai, bi, bj, c >>

\* A lone seed is its own result; a fold that came to nothing stops.
FoldDone ==
  /\ phase = "fold"
  /\ rest = << >> \/ (Len(rest) < Len(ins) - 1 /\ card = 0)
  /\ phase' = "done"
  /\ out' = source
  /\ UNCHANGED << fold, card, ai, bi, bj, c >>

----------------------------------------------------------------------------
\* The kernels.  Emit writes the next output run.
Emit(lo, hi) ==
  /\ out' = Append(out, run(lo, hi))
  /\ card' = card + (hi - lo + 1)

EmitIf(b, lo, hi) == IF b THEN Emit(lo, hi) ELSE UNCHANGED << out, card >>

\* copy: an input no kernel loop is needed for.
copies == \/ op = "union" /\ (x = << >> \/ y = << >>)
          \/ op = "diff" /\ y = << >>

Copy ==
  /\ phase = "kernel" /\ copies
  /\ out' = IF x = << >> /\ op = "union" THEN y ELSE x
  /\ card' = Cardinality(Values(out'))
  /\ Return(out')

\* Mutant: the run that ends first is the one to stay.
advances_a_wrong(ae, be) == ae > be
advances_a(ae, be) == ae <= be

Intersect ==
  /\ phase = "kernel" /\ op = "intersect" /\ ai <= Len(x) /\ bi <= Len(y)
  /\ LET lo == Max({x[ai].start, y[bi].start})
         hi == Min({end(x[ai]), end(y[bi])})
     IN  EmitIf(lo <= hi, lo, hi)
  /\ IF advances_a(end(x[ai]), end(y[bi]))
     THEN ai' = ai + 1 /\ UNCHANGED bi
     ELSE bi' = bi + 1 /\ UNCHANGED ai
  /\ UNCHANGED << fold, phase, bj, c >>

\* u32::MAX.
NONE == 2 * WIDTH

\* The start of the next run, with a sentinel above every start.
\* Mutant: the sentinel is the last value.
start_at_u16(s, i) == IF i <= Len(s) /\ s[i].start < LAST THEN s[i].start ELSE NONE
start_at(s, i) == IF i <= Len(s) THEN s[i].start ELSE NONE

\* Mutant: one past the end is taken in u16.
reaches_u16(ns) == ns <= u16(c.hi + 1)
\* Mutant: adjacent runs are not merged.
reaches_overlap(ns) == ns <= c.hi
\* The next run overlaps the current one or is adjacent to it.
reaches(ns) == ns <= c.hi + 1

Exhausted == start_at(x, ai) = NONE /\ start_at(y, bi) = NONE

Union ==
  LET a_s == start_at(x, ai)
      b_s == start_at(y, bi)
      next == IF a_s <= b_s THEN x[ai] ELSE y[bi]
  IN  /\ phase = "kernel" /\ op = "union" /\ ~copies
      /\ ~Exhausted
      /\ IF a_s <= b_s THEN ai' = ai + 1 /\ UNCHANGED bi ELSE bi' = bi + 1 /\ UNCHANGED ai
      /\ IF reaches(next.start)
         THEN /\ c' = [c EXCEPT !.hi = Max({@, end(next)})]
              /\ UNCHANGED << out, card >>
         ELSE /\ Emit(c.lo, c.hi)
              /\ c' = [lo |-> next.start, hi |-> end(next)]
      /\ UNCHANGED << fold, phase, bj >>

\* diff and diff_array: the next run of x, past the runs of y that end before
\* it.
\* Mutant: the search goes on behind the runs the last one was cut by.
skip_from_cut == bj
skip_from == bi

Diff ==
  /\ phase = "kernel" /\ op = "diff" /\ ~copies /\ ai <= Len(x)
  /\ c' = [lo |-> x[ai].start, hi |-> end(x[ai])]
  /\ bi' = Min({j \in skip_from .. Len(y) + 1 : j > Len(y) \/ end(y[j]) >= c'.lo})
  /\ bj' = bi'
  /\ phase' = "cut"
  /\ UNCHANGED << fold, out, card, ai >>

Cuts == bj <= Len(y) /\ c.lo <= c.hi /\ y[bj].start <= c.hi

\* Mutant: the end is taken for one past the run already, but not by diff.
past_two(r) == r.start + r.len + 2
past(r) == end(r) + 1

Cut ==
  /\ phase = "cut" /\ Cuts
  /\ EmitIf(y[bj].start > c.lo, c.lo, y[bj].start - 1)
  /\ c' = [c EXCEPT !.lo = past(y[bj])]
  /\ bj' = bj + 1
  /\ UNCHANGED << fold, phase, ai, bi >>

CutDone ==
  /\ phase = "cut" /\ ~Cuts
  /\ EmitIf(c.lo <= c.hi, c.lo, c.hi)
  /\ ai' = ai + 1
  /\ phase' = "kernel"
  /\ UNCHANGED << fold, bi, bj, c >>

KernelDone ==
  /\ phase = "kernel" /\ ~copies
  /\ CASE op = "intersect" -> ai > Len(x) \/ bi > Len(y)
       [] op = "union"     -> Exhausted
       [] op = "diff"      -> ai > Len(x)
  /\ IF op = "union" THEN Emit(c.lo, c.hi) ELSE UNCHANGED << out, card >>
  /\ Return(out')

Next == Call \/ Copy \/ Intersect \/ Union \/ Diff \/ Cut \/ CutDone \/ KernelDone \/ FoldDone

Spec == Init /\ [][Next]_vars

----------------------------------------------------------------------------
TypeOK ==
  /\ op \in {"intersect", "union", "diff"}
  /\ ins \in Seq(Seq(Run)) /\ rest \in Seq(Seq(Run))
  /\ phase \in {"fold", "kernel", "cut", "done"}
  /\ halves \in [{"a", "b"} -> Seq(Run)] /\ in_b \in BOOLEAN
  /\ nr \in Nat /\ card \in 0 .. WIDTH
  /\ x \in Seq(Run) /\ y \in Seq(Run) /\ out \in Seq(Run)
  /\ ai \in 1 .. Len(x) + 1 /\ bi \in 1 .. Len(y) + 1 /\ bj \in 1 .. Len(y) + 1
  /\ c.lo \in 0 .. WIDTH /\ c.hi \in Value

\* No kernel writes more runs than its output has room for (run.rs:6), however
\* often it cuts a run or keeps two apart.
WritesFit == phase # "done" => Len(out) <= bound

\* Starts and lengths stay u16, the runs written so far ascend and do not overlap, and the count kept beside
\* them is theirs (run.rs:6); a run that wrapped past the last value would not.
\* Of containers whose runs do not touch they do not touch either, so a value
\* set keeps one run form and its shortest one.
OutputIsRuns ==
  /\ TypeOK
  /\ IsRuns(out)
  /\ phase # "fold" => card = Cardinality(Values(out))
  /\ (\A i \in DOMAIN ins : Coalesced(ins[i])) => Coalesced(out)

\* What a fold leaves in the slot is the operation on its containers, and the
\* count recorded with it is exact: whatever the last value of the key space
\* does to the arithmetic, and whatever stale runs lie in either half.
FoldExact ==
  phase = "done" =>
    LET partners == UNION {Values(ins[i]) : i \in 2 .. Len(ins)}
    IN  /\ Values(out) = CASE op = "intersect" -> {v \in Value : \A i \in DOMAIN ins : v \in Values(ins[i])}
                           [] op = "union"     -> Values(ins[1]) \cup partners
                           [] op = "diff"      -> Values(ins[1]) \ partners
        /\ card = Cardinality(Values(out))
=============================================================================
