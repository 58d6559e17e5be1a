---------------------------- MODULE ArrayKernels -----------------------------
(***************************************************************************)
(* Set operations on array containers, sorted u16 slices without repeats   *)
(* (src/ops/simd): which kernel a pair of lengths and a processor get, and *)
(* each kernel one loop turn a step.  A vector register is a sequence of W *)
(* lanes; W, and the ratios the dispatch compares lengths by, are 8, 4 and *)
(* 8 in the code.  Indices count from zero as they do there.               *)
(***************************************************************************)
EXTENDS Integers, Sequences, FiniteSets, SequencesExt, FiniteSetsExt, Functions

CONSTANTS
  LAST,             \* u16::MAX
  W,                \* lanes of a vector
  MERGE_MAX_RATIO,  \* the lengths a block merge is for
  GALLOP_MARGIN,    \* by how much a binary search must be ahead of a scan
  Pairs,            \* inputs: << a, b >>
  Cpus              \* other: no vectors; sse2: no shuffle; neon; avx2: wide scan

ASSUME ArrayAssumption ==
  /\ LAST \in Nat /\ W \in Nat \ {0} /\ W % 2 = 0
  /\ MERGE_MAX_RATIO \in Nat /\ GALLOP_MARGIN \in Nat
  /\ \A p \in Pairs : \A s \in {p[1], p[2]} :
       /\ s \in Seq(0 .. LAST)
       /\ \A i \in 1 .. Len(s) - 1 : s[i] < s[i + 1]
  /\ Cpus \subseteq {"other", "sse2", "neon", "avx2"}

VARIABLES
  op,       \* intersect, union, diff
  cpu,
  a, b,     \* the inputs
  room,     \* out.len()
  phase,    \* call, the kernel that runs, done
  ia, ib,   \* how far into a and b; for a scan, into the rare and frequent side
  matched,  \* a diff merge: lanes of a's block found in b so far
  carry,    \* a union merge: the high block, and how much of it is out
  prev,     \* the last lane of the block emitted before
  out,      \* what was emitted
  top       \* how far into out anything was stored

vars == << op, cpu, a, b, room, phase, ia, ib, matched, carry, prev, out, top >>

call == << op, cpu, a, b, room >>

na == Len(a)
nb == Len(b)
lo == Min({na, nb})
hi == Max({na, nb})

\* Vectors.
Lanes == 1 .. W

\* A load past the end of the slice finds no value of it.
NOTHING == -1
block(s, i) == [l \in Lanes |-> IF i + l <= Len(s) THEN s[i + l] ELSE NOTHING]

rot(v, n)  == [l \in Lanes |-> v[((l + n - 1) % W) + 1]]
eq(u, v)   == [l \in Lanes |-> u[l] = v[l]]
or(u, v)   == [l \in Lanes |-> u[l] \/ v[l]]
vmin(u, v) == [l \in Lanes |-> Min({u[l], v[l]})]
vmax(u, v) == [l \in Lanes |-> Max({u[l], v[l]})]

\* Which lanes of va equal some lane of vb: va and va rotated by half each meet
\* half the rotations of vb, and the second group's mask is rotated back.
\* Mutant: it is not.
all_pairs_askew(va, vb) ==
  LET H == W \div 2
      any(u) == [l \in Lanes |-> \E r \in 0 .. H - 1 : eq(u, rot(vb, r))[l]]
      m == or(any(va), any(rot(va, H)))
  IN  {l \in Lanes : m[l]}
all_pairs(va, vb) ==
  LET H == W \div 2
      any(u) == [l \in Lanes |-> \E r \in 0 .. H - 1 : eq(u, rot(vb, r))[l]]
      m == or(any(va), rot(any(rot(va, H)), H))
  IN  {l \in Lanes : m[l]}

\* COMPACT: for every mask, the lanes it chooses in ascending order, which a
\* shuffle moves to the front.
COMPACT ==
  [lanes \in SUBSET Lanes |->
     LET chosen[l \in 0 .. W] ==
           IF l = 0 THEN << >>
           ELSE IF l \in lanes THEN Append(chosen[l - 1], l) ELSE chosen[l - 1]
     IN  chosen[W]]

compact(v, lanes) ==
  LET chosen == COMPACT[lanes] IN [i \in 1 .. Len(chosen) |-> v[chosen[i]]]

\* The rotate network after n turns.
network(u, v, n) ==
  LET turn(tmp, max) == [tmp |-> tmp, max |-> max, min |-> vmin(tmp, max)]
      after[i \in 0 .. n] ==
        IF i = 0 THEN turn(rot(vmin(u, v), 1), vmax(u, v))
        ELSE turn(rot(after[i - 1].min, 1), vmax(after[i - 1].tmp, after[i - 1].max))
  IN  after[n]

\* Two sorted blocks into the low and the high half of their merge.
\* Mutant: a turn short.
simd_merge_short(u, v) ==
  LET last == network(u, v, W - 3) IN << rot(last.min, 1), vmax(last.tmp, last.max) >>
simd_merge(u, v) ==
  LET last == network(u, v, W - 2) IN << rot(last.min, 1), vmax(last.tmp, last.max) >>

----------------------------------------------------------------------------
\* Stores.  A compacted block is stored whole where a whole block fits, lane by
\* lane at the end of out; a block with nothing in it may be skipped.
\* Mutant: it is stored whole wherever its values fit.
whole_fits_values(vals) == Len(out) + Len(vals) <= room
whole_fits(vals) == Len(out) + W <= room

Block(vals) ==
  /\ out' = out \o vals
  /\ top' = Max({top, Len(out) + IF whole_fits(vals) THEN W ELSE Len(vals)})

Store(vals) ==
  /\ out' = out \o vals
  /\ top' = Max({top, Len(out) + Len(vals)})

Keep == UNCHANGED << out, top >>

At(i, j) == ia' = i /\ ib' = j

Go(p) == phase' = p

----------------------------------------------------------------------------
Init ==
  /\ \E p \in Pairs : a = p[1] /\ b = p[2]
  /\ op \in {"intersect", "union", "diff"}
  /\ cpu \in Cpus
  /\ a # << >> /\ (op = "intersect" => b # << >>)
  /\ LET most == CASE op = "intersect" -> lo [] op = "union" -> na + nb [] op = "diff" -> na
     IN  room \in {most, most + 1}
  /\ phase = "call"
  /\ ia = 0 /\ ib = 0 /\ matched = {} /\ carry = << >> /\ prev = LAST
  /\ out = << >> /\ top = 0

\* A block merge needs a block of each.
\* Mutant: it needs one of the longer.
balanced_longer == hi >= W /\ hi <= lo * MERGE_MAX_RATIO
balanced == lo >= W /\ hi <= lo * MERGE_MAX_RATIO

log2 == CHOOSE n \in 0 .. hi : 2 ^ n <= hi /\ hi < 2 ^ (n + 1)
skewed == lo * Max({log2, 1}) * GALLOP_MARGIN < hi

disjoint == a[na] < b[1] \/ b[nb] < a[1]

Call ==
  /\ phase = "call"
  /\ Go(IF op = "intersect" /\ disjoint THEN "done"
        ELSE IF op = "intersect" /\ skewed THEN "gallop"
        ELSE IF cpu \in {"neon", "avx2"} /\ balanced THEN "merge"
        ELSE IF op # "union" /\ cpu # "other" THEN "scan"
        ELSE "scalar")
  /\ UNCHANGED << call, ia, ib, matched, carry, prev, out, top >>

----------------------------------------------------------------------------
\* array_intersect and array_diff: blocks, the one with the smaller maximum
\* moved past, both on a tie; a value-by-value merge finishes what is left.
amax == block(a, ia)[W]
bmax == block(b, ib)[W]

\* Whether a block is moved past, given both maxima.
\* Mutant: on a tie, neither is.
passes_strict(max, other) == max < other
passes(max, other) == max <= other

ia_next == IF passes(amax, bmax) THEN ia + W ELSE ia
ib_next == IF passes(bmax, amax) THEN ib + W ELSE ib

IntersectBlock ==
  /\ phase = "merge" /\ op = "intersect"
  /\ LET hits == all_pairs(block(a, ia), block(b, ib))
     IN  IF hits = {} THEN Keep ELSE Block(compact(block(a, ia), hits))
  /\ ia' = ia_next
  /\ IF ia_next # ia /\ ia_next + W > na
     THEN ib' = ib /\ Go("scalar")
     ELSE /\ ib' = ib_next
          /\ Go(IF ib_next # ib /\ ib_next + W > nb THEN "scalar" ELSE "merge")
  /\ UNCHANGED << call, matched, carry, prev >>

\* Mutant: each block of b is all a's block is compared with.
found_last == all_pairs(block(a, ia), block(b, ib))
found == matched \cup all_pairs(block(a, ia), block(b, ib))

\* The lanes of a's block not found are emitted when it is moved past: until
\* then a later block of b may have them.
DiffBlock ==
  /\ phase = "merge" /\ op = "diff"
  /\ ia' = ia_next
  /\ IF ia_next # ia
     THEN Block(compact(block(a, ia), Lanes \ found)) /\ matched' = {}
     ELSE matched' = found /\ Keep
  /\ IF ia_next # ia /\ ia_next + W > na
     THEN ib' = (IF amax = bmax THEN ib + W ELSE ib) /\ Go("scalar")
     ELSE /\ ib' = ib_next
          /\ Go(IF ib_next # ib /\ ib_next + W > nb
                THEN IF ia_next # ia THEN "scalar" ELSE "tail" ELSE "merge")
  /\ UNCHANGED << call, carry, prev >>

\* Mutant: the block is emitted as it stands.
tail_lanes_all == Lanes \ matched
\* diff_tail: b ran out of blocks with a's block still pending.
tail_lanes == {l \in Lanes \ matched : block(a, ia)[l] \notin Range(SubSeq(b, ib + 1, nb))}

DiffTail ==
  /\ phase = "tail" /\ op = "diff"
  /\ Store(compact(block(a, ia), tail_lanes))
  /\ At(ia + W, ib)
  /\ Go("scalar")
  /\ UNCHANGED << call, matched, carry, prev >>

\* intersect_scalar, union_scalar, diff_scalar.
Scalar ==
  /\ phase = "scalar" /\ ia < na /\ ib < nb
  /\ LET u == a[ia + 1]
         v == b[ib + 1]
     IN  /\ At(IF u <= v THEN ia + 1 ELSE ia, IF v <= u THEN ib + 1 ELSE ib)
         /\ CASE op = "intersect" -> IF u = v THEN Store(<< u >>) ELSE Keep
              [] op = "union"     -> Store(<< Min({u, v}) >>)
              [] op = "diff"      -> IF u < v THEN Store(<< u >>) ELSE Keep
  /\ UNCHANGED << call, phase, matched, carry, prev >>

\* The rest of one side: kept by a union, a's by a difference.
ScalarDone ==
  /\ phase = "scalar" /\ ~(ia < na /\ ib < nb)
  /\ CASE op = "intersect" -> Keep
       [] op = "union"     -> Store(SubSeq(a, ia + 1, na) \o SubSeq(b, ib + 1, nb))
       [] op = "diff"      -> Store(SubSeq(a, ia + 1, na))
  /\ At(na, nb)
  /\ Go("done")
  /\ UNCHANGED << call, matched, carry, prev >>

----------------------------------------------------------------------------
\* Scans: each value of one side looked for in a window of the other, moved on
\* until it can have the value.  An intersection looks for the shorter side's.
rare == IF op = "diff" \/ na <= nb THEN a ELSE b
freq == IF op = "diff" \/ na <= nb THEN b ELSE a
nf   == Len(freq)

width == IF cpu = "avx2" THEN 2 * W ELSE W

\* Mutant: a window is skipped when its last value is the one looked for.
behind_equal(x, v) == x <= v
behind(x, v) == x < v

window(v) ==
  Min({f \in ib .. nf : /\ (f - ib) % width = 0
                        /\ f + width <= nf => ~behind(freq[f + width], v)})

\* Past the last whole window the search is value by value, and stays where it
\* stops.
seek(v) ==
  LET f == window(v)
  IN  IF f + width <= nf THEN f
      ELSE Min({g \in f .. nf : g < nf => freq[g + 1] >= v})

has(f, v) ==
  IF f + width <= nf THEN \E l \in 1 .. width : freq[f + l] = v
  ELSE f < nf /\ freq[f + 1] = v

scanning == phase = "scan" /\ ia < Len(rare) /\ freq # << >> /\ rare[ia + 1] <= Last(freq)

Scan ==
  /\ scanning
  /\ LET v == rare[ia + 1]
         f == seek(v)
     IN  /\ IF has(f, v) = (op = "intersect") THEN Store(<< v >>) ELSE Keep
         /\ At(ia + 1, f)
  /\ UNCHANGED << call, phase, matched, carry, prev >>

\* Past the last value of the other side nothing is found any more.
ScanDone ==
  /\ phase = "scan" /\ ~scanning
  /\ IF op = "diff" THEN Store(SubSeq(a, ia + 1, na)) ELSE Keep
  /\ Go("done")
  /\ UNCHANGED << call, ia, ib, matched, carry, prev >>

\* intersect_gallop: a bracket by doubling steps, then a binary search in it.
doublings ==
  LET double[n \in 0 .. nf] == IF n = 0 THEN 1 ELSE 2 * double[n - 1]
  IN  {double[n] : n \in 0 .. nf}

stride(v) ==
  Min({s \in doublings : ~(ib + s < nf /\ freq[ib + s + 1] < v)})

\* Mutant: the bracket's last value is left out.
bracket_open(s) == ib + (s \div 2) + 1 .. Min({ib + s, nf})
bracket(s) == ib + (s \div 2) + 1 .. Min({ib + s + 1, nf})

Gallop ==
  /\ phase = "gallop" /\ ia < Len(rare) /\ ib < nf
  /\ LET v == rare[ia + 1]
         in == bracket(stride(v))
         at == {i \in in : freq[i] = v}
         below == {i \in in : freq[i] < v}
     IN  /\ IF at # {} THEN Store(<< v >>) ELSE Keep
         /\ At(ia + 1, ib + (stride(v) \div 2) + Cardinality(below) + Cardinality(at))
  /\ UNCHANGED << call, phase, matched, carry, prev >>

GallopDone ==
  /\ phase = "gallop" /\ ~(ia < Len(rare) /\ ib < nf)
  /\ Go("done")
  /\ UNCHANGED << call, ia, ib, matched, carry, prev, out, top >>

----------------------------------------------------------------------------
\* array_union: two blocks are merged, the low half goes out, the high half is
\* merged with the next block of the side whose next one starts lower.

\* Mutant: a block's first lane is not compared with the one before it.
unique_within(last, v) == {l \in Lanes : l = 1 \/ v[l] # v[l - 1]}
\* The lanes that differ from the lane before them.
unique(last, v) == {l \in Lanes : v[l] # IF l = 1 THEN last ELSE v[l - 1]}

EmitUnique(last, v) == Block(compact(v, unique(last, v)))

\* Whole blocks of each side; the loop goes on while both have one left.
more(i, j) == i \div W < na \div W /\ j \div W < nb \div W

Merged(u, v, last) ==
  LET m == simd_merge(u, v)
  IN  /\ EmitUnique(last, m[1])
      /\ prev' = m[1][W]
      /\ carry' = m[2]

UnionFirst ==
  /\ phase = "merge" /\ op = "union" /\ carry = << >>
  /\ Merged(block(a, 0), block(b, 0), LAST)
  /\ At(W, W)
  /\ Go(IF more(W, W) THEN "merge" ELSE "tail")
  /\ UNCHANGED << call, matched >>

\* The side whose next block starts lower.
from_a == a[ia + 1] <= b[ib + 1]

UnionBlock ==
  /\ phase = "merge" /\ op = "union" /\ carry # << >>
  /\ IF from_a THEN At(ia + W, ib) ELSE At(ia, ib + W)
  /\ Merged(IF from_a THEN block(a, ia) ELSE block(b, ib), carry, prev)
  /\ Go(IF more(ia', ib') THEN "merge" ELSE "tail")
  /\ UNCHANGED << call, matched >>

\* union_tail: what is left of the carry, a and b, each at the sentinel once it
\* is used up.
head(s, i) == IF i < Len(s) THEN s[i + 1] ELSE LAST

least == Min({head(carry, 0), head(a, ia), head(b, ib)})

\* Mutant: the tail ends when every side shows the sentinel.
used_up_sentinel == least = LAST
used_up == least = LAST /\ carry = << >> /\ ia >= na /\ ib >= nb

UnionTail ==
  /\ phase = "tail" /\ op = "union" /\ ~used_up
  /\ IF out = << >> \/ Last(out) # least THEN Store(<< least >>) ELSE Keep
  /\ carry' = IF carry # << >> /\ Head(carry) = least THEN Tail(carry) ELSE carry
  /\ At(IF head(a, ia) = least THEN ia + 1 ELSE ia, IF head(b, ib) = least THEN ib + 1 ELSE ib)
  /\ UNCHANGED << call, phase, matched, prev >>

UnionDone ==
  /\ phase = "tail" /\ op = "union" /\ used_up
  /\ Go("done")
  /\ UNCHANGED << call, ia, ib, matched, carry, prev, out, top >>

----------------------------------------------------------------------------
Next ==
  \/ Call \/ IntersectBlock \/ DiffBlock \/ DiffTail \/ Scalar \/ ScalarDone
  \/ Scan \/ ScanDone \/ Gallop \/ GallopDone
  \/ UnionFirst \/ UnionBlock \/ UnionTail \/ UnionDone

\* A kernel is one call on one thread: it takes its next step until it returns.
Spec == Init /\ [][Next]_vars /\ WF_vars(Next)

----------------------------------------------------------------------------
TypeOK ==
  /\ op \in {"intersect", "union", "diff"} /\ cpu \in Cpus
  /\ a \in Seq(0 .. LAST) /\ b \in Seq(0 .. LAST)
  /\ phase \in {"call", "merge", "tail", "scan", "gallop", "scalar", "done"}
  /\ ia \in Nat /\ ib \in Nat /\ matched \subseteq Lanes
  /\ carry \in Seq(0 .. LAST) /\ prev \in 0 .. LAST
  /\ out \in Seq(0 .. LAST)

\* A vector is loaded only where a whole one is, and no store, of a block or of
\* a lane, goes past the room the caller gave: both are unchecked in the code
\* ("callers guarantee", array_intersect.rs:145).
InBounds ==
  /\ TypeOK
  /\ phase = "merge" => ia + W <= na /\ ib + W <= nb
  /\ phase = "tail" /\ op = "diff" => ia + W <= na
  /\ top <= room

\* What is emitted ascends.
Ascends == \A i \in 1 .. Len(out) - 1 : out[i] < out[i + 1]

\* Nothing is emitted twice or out of order, across blocks and on the way from
\* one kernel into the one that finishes its tail; and whichever ran, the result is the operation on the two sets, the last
\* value of the key space included, which is also the sentinel.
Exact ==
  /\ Ascends
  /\ phase = "done" =>
       Range(out) = CASE op = "intersect" -> Range(a) \cap Range(b)
                      [] op = "union"     -> Range(a) \cup Range(b)
                      [] op = "diff"      -> Range(a) \ Range(b)

\* Every turn moves past a block or a value.
Terminates == <>(phase = "done")
=============================================================================
