------------------------------ MODULE RunProofs ------------------------------
(***************************************************************************)
(* For every last value and every fold of run containers: what a fold      *)
(* leaves is the operation on its containers, as ascending runs that do    *)
(* not overlap, with their exact count, and no kernel writes more runs     *)
(* than its output has room for.                                           *)
(*                                                                         *)
(* Each kernel has written exactly the values of the result that are below *)
(* a mark it moves upwards: the invariant says where that mark is.         *)
(***************************************************************************)
EXTENDS RunKernels, SequenceTheorems, FiniteSetTheorems, WellFoundedInduction, TLAPS

----------------------------------------------------------------------------
\* Runs with more than g values between them.
Apart(s, g) == \A i \in 1 .. Len(s) - 1 : end(s[i]) + g < s[i + 1].start

NoWrap(s) == \A i \in 1 .. Len(s) : s[i].start + s[i].len <= LAST

\* The gaps that all the containers of the fold keep.
Gaps == {g \in {0, 1} : \A i \in 1 .. Len(ins) : Apart(ins[i], g)}

Kept(s) == s \in Seq(Run) /\ NoWrap(s) /\ \A g \in Gaps : Apart(s, g)

\* The runs end more than g values before v.
EndsBefore(s, g, v) == s # << >> => end(s[Len(s)]) + g < v

\* What has been written does.
Before(g, v) == EndsBefore(out, g, v)

\* v comes before the run at i, if there is one.
Below(s, i, v) == i <= Len(s) => v < s[i].start

\* The operation on the first k containers.
Folded(k) ==
  CASE op = "intersect" -> {v \in Value : \A i \in 1 .. k : v \in Values(ins[i])}
    [] op = "union"     -> Values(ins[1]) \cup UNION {Values(ins[i]) : i \in 2 .. k}
    [] op = "diff"      -> Values(ins[1]) \ UNION {Values(ins[i]) : i \in 2 .. k}

Combined(s, t) ==
  CASE op = "intersect" -> s \cap t
    [] op = "union"     -> s \cup t
    [] op = "diff"      -> s \ t

\* The containers folded so far, the one a kernel works on included.
taken == Len(ins) - Len(rest)

----------------------------------------------------------------------------
\* The invariant.
InputsInv ==
  /\ ins \in Folds
  /\ op = "diff" => Len(ins) >= 2
  /\ Len(ins) # 2 => \A i \in 1 .. Len(ins) : ins[i] # << >>

Types ==
  /\ TypeOK
  /\ c \in [lo : 0 .. WIDTH, hi : Value]

FoldInv ==
  /\ Len(rest) <= Len(ins) - 1
  /\ \A i \in 1 .. Len(rest) : rest[i] = ins[taken + i]
  /\ phase = "fold" =>
       /\ Kept(source) /\ Values(source) = Folded(taken)
       /\ card = Cardinality(Values(source))
  /\ phase \in {"kernel", "cut"} =>
       /\ Len(rest) <= Len(ins) - 2
       /\ Kept(x) /\ Values(x) = Folded(taken - 1)
       /\ Kept(y) /\ y = ins[taken]
  /\ phase = "cut" => op = "diff" /\ ~ copies
  /\ phase = "done" => Values(out) = Folded(Len(ins))

OutInv ==
  /\ Kept(out)
  /\ phase # "fold" => card = Cardinality(Values(out))
  /\ phase # "done" => Len(out) <= bound
  /\ phase = "kernel" /\ copies => out = << >>

\* Everything is written that is below the start of either next run.
IntersectInv ==
  /\ Len(out) <= (ai - 1) + (bi - 1)
  /\ Values(out) = {v \in Values(x) \cap Values(y) : Below(x, ai, v) \/ Below(y, bi, v)}
  /\ ai <= Len(x) /\ bi <= Len(y) =>
       \A g \in Gaps : Before(g, x[ai].start) \/ Before(g, y[bi].start)

\* The values o are those below the current run lo .. hi, which reaches as far as
\* any run taken.
Mark(s, t, i, j, o, lo, hi) ==
  /\ lo <= hi
  /\ o = {v \in Values(s) \cup Values(t) : v < lo}
  /\ lo .. hi \subseteq Values(s) \cup Values(t)
  /\ \A k \in 1 .. i - 1 : end(s[k]) <= hi
  /\ \A k \in 1 .. j - 1 : end(t[k]) <= hi
  /\ i <= Len(s) => lo <= s[i].start
  /\ j <= Len(t) => lo <= t[j].start

\* Everything is written that is below the current run.
UnionInv ==
  /\ Len(out) + 1 <= (ai - 1) + (bi - 1)
  /\ Mark(x, y, ai, bi, Values(out), c.lo, c.hi)
  /\ Before(1, c.lo)

\* Everything is written that is below the next run of x.  A run of y cuts one
\* run of x in two at most once.
DiffInv ==
  /\ Values(out) = {v \in Values(x) \ Values(y) : Below(x, ai, v)}
  /\ ai <= Len(x) =>
       /\ \A j \in 1 .. bi - 1 : end(y[j]) < x[ai].start
       /\ \A g \in Gaps : Before(g, x[ai].start)
  /\ \E m \in 0 .. Len(y) :
       /\ Len(out) <= (ai - 1) + m
       /\ ai <= Len(x) /\ m > 0 => y[m].start < x[ai].start

\* Everything is written that is below what is left of the current run of x.
CutInv ==
  /\ ai <= Len(x) /\ c.hi = end(x[ai]) /\ x[ai].start <= c.lo
  /\ Values(out) = {v \in Values(x) \ Values(y) : v < c.lo /\ v <= c.hi}
  /\ \A j \in 1 .. bj - 1 : end(y[j]) < c.lo
  /\ bj <= Len(y) => c.lo <= end(y[bj])
  /\ \A j \in 1 .. bi - 1 : end(y[j]) < x[ai].start
  /\ \A g \in Gaps : Before(g, c.lo)
  /\ Before(0, c.hi + 1)
  /\ \E m \in 0 .. Len(y) :
       /\ Len(out) <= (ai - 1) + m
       /\ m > 0 => y[m].start < c.lo /\ y[m].start <= c.hi

KernelInv ==
  /\ phase = "kernel" /\ op = "intersect" => IntersectInv
  /\ phase = "kernel" /\ op = "union" /\ ~ copies => UnionInv
  /\ phase = "kernel" /\ op = "diff" /\ ~ copies => DiffInv
  /\ phase = "cut" => CutInv

IInv == InputsInv /\ Types /\ FoldInv /\ OutInv /\ KernelInv

----------------------------------------------------------------------------
\* Facts about runs.

LEMMA LastIsNat == LAST \in Nat /\ WIDTH = LAST + 1 /\ Value = 0 .. LAST
  BY RunAssumption DEF WIDTH, Value

LEMMA FitsU16 ==
  ASSUME NEW n \in Value
  PROVE  u16(n) = n
<1>1. LAST \in Nat /\ n \in 0 .. LAST
  BY LastIsNat
<1>2. n % (LAST + 1) = n
  BY <1>1
<1> QED
  BY <1>2 DEF u16, WIDTH

LEMMA RunFacts ==
  ASSUME NEW r \in Run, r.start + r.len <= LAST
  PROVE  /\ r.start \in Value /\ r.start \in Int /\ r.len \in Nat
         /\ end(r) = r.start + r.len /\ end(r) \in Value /\ end(r) \in Int /\ r.start <= end(r)
<1>1. r.start \in Nat /\ r.len \in Nat /\ r.start \in Value
  BY LastIsNat DEF Run
<1>2. r.start + r.len \in Value
  BY <1>1, LastIsNat
<1>3. end(r) = r.start + r.len
  BY <1>2, FitsU16 DEF end
<1> QED
  BY <1>1, <1>2, <1>3

LEMMA RunOfRange ==
  ASSUME NEW lo \in Value, NEW hi \in Value, lo <= hi
  PROVE  /\ run(lo, hi) \in Run /\ run(lo, hi).start = lo
         /\ run(lo, hi).start + run(lo, hi).len <= LAST
         /\ end(run(lo, hi)) = hi /\ covers(run(lo, hi)) = lo .. hi
<1>1. hi - lo \in Value /\ lo \in Int /\ hi \in Int
  BY LastIsNat
<1>2. run(lo, hi) = [start |-> lo, len |-> hi - lo]
  BY <1>1, FitsU16 DEF run
<1>3. run(lo, hi).start = lo /\ run(lo, hi).len = hi - lo /\ run(lo, hi) \in Run
  BY <1>1, <1>2 DEF Run
<1>4. lo + (hi - lo) = hi /\ hi <= LAST
  BY <1>1, LastIsNat
<1>5. end(run(lo, hi)) = hi
  BY <1>3, <1>4, FitsU16 DEF end
<1> QED
  BY <1>3, <1>4, <1>5 DEF covers

LEMMA LeastNatural ==
  ASSUME NEW S \in SUBSET Nat, S # {}
  PROVE  \E n \in S : \A m \in S : n <= m
<1>1. PICK n \in S : \A m \in S : ~ (<< m, n >> \in OpToRel(<, Nat))
  BY WFMin, NatLessThanWellFounded
<1>2. \A m \in S : ~ (m < n)
  BY <1>1 DEF OpToRel
<1> QED
  BY <1>2

\* The runs of a container.
Runs(s) == s \in Seq(Run) /\ NoWrap(s) /\ Apart(s, 0)

LEMMA RunsFacts ==
  ASSUME NEW s, Runs(s)
  PROVE  /\ Len(s) \in Nat /\ DOMAIN s = 1 .. Len(s)
         /\ \A i \in 1 .. Len(s) :
              /\ s[i] \in Run /\ s[i].start \in Value /\ end(s[i]) \in Value
              /\ s[i].start \in Int /\ end(s[i]) \in Int /\ s[i].start <= end(s[i])
<1>1. s \in Seq(Run) /\ Len(s) \in Nat /\ DOMAIN s = 1 .. Len(s)
  BY LenProperties DEF Runs
<1>2. ASSUME NEW i \in 1 .. Len(s)
      PROVE  s[i] \in Run /\ s[i].start + s[i].len <= LAST
  BY <1>1, <1>2, ElementOfSeq DEF Runs, NoWrap
<1> QED
  BY <1>1, <1>2, RunFacts

\* Runs ascend, and not only each and the next.
LEMMA Ascending ==
  ASSUME NEW s, Runs(s), NEW i \in 1 .. Len(s), NEW j \in 1 .. Len(s), i < j
  PROVE  end(s[i]) < s[j].start
<1> DEFINE Wrong(d) == \E k \in 1 .. Len(s) :
                         k + d + 1 <= Len(s) /\ ~ (end(s[k]) < s[k + d + 1].start)
           T == {d \in Nat : Wrong(d)}
<1>1. Len(s) \in Nat
  BY RunsFacts
<1>2. T = {}
  <2> SUFFICES ASSUME T # {} PROVE FALSE
    OBVIOUS
  <2>1. PICK d \in T : \A m \in T : d <= m
    BY LeastNatural
  <2>2. PICK k \in 1 .. Len(s) : k + d + 1 <= Len(s) /\ ~ (end(s[k]) < s[k + d + 1].start)
    BY <2>1
  <2>3. d \in Nat
    BY <2>1
  <2>4. CASE d = 0
    <3>1. end(s[k]) + 0 < s[k + 1].start
      BY <1>1, <2>2, <2>4 DEF Runs, Apart
    <3>2. end(s[k]) \in Int
      BY RunsFacts
    <3> QED
      BY <2>2, <2>4, <3>1, <3>2
  <2>5. CASE d > 0
    <3>1. d - 1 \in Nat /\ ~ (d <= d - 1)
      BY <2>3, <2>5
    <3>2. ~ Wrong(d - 1)
      BY <2>1, <3>1
    <3> DEFINE n == k + d
    <3>3. n \in 1 .. Len(s) - 1 /\ k + (d - 1) + 1 = n /\ n <= Len(s) /\ n \in 1 .. Len(s)
          /\ n + 1 \in 1 .. Len(s) /\ k + d + 1 = n + 1
      BY <1>1, <2>2, <2>3, <2>5
    <3>4. end(s[k]) < s[n].start
      BY <3>2, <3>3
    <3> HIDE DEF n
    <3>5. end(s[n]) + 0 < s[n + 1].start
      BY <3>3 DEF Runs, Apart
    <3>6. s[n].start <= end(s[n]) /\ s[n].start \in Int /\ end(s[n]) \in Int /\ end(s[k]) \in Int
          /\ s[n + 1].start \in Int
      BY <3>3, RunsFacts
    <3>7. end(s[k]) < s[n + 1].start
      <4>1. \A a, b, e, f \in Int : a < b /\ b <= e /\ e + 0 < f => a < f
        OBVIOUS
      <4> QED
        BY <3>4, <3>5, <3>6, <4>1
    <3> QED
      BY <2>2, <3>3, <3>7
  <2> QED
    BY <2>3, <2>4, <2>5
<1>3. j - i - 1 \in Nat /\ i + (j - i - 1) + 1 = j
  BY <1>1
<1>4. ~ Wrong(j - i - 1)
  BY <1>2, <1>3
<1> QED
  BY <1>3, <1>4

LEMMA InValues ==
  ASSUME NEW s, Runs(s)
  PROVE  /\ \A v : v \in Values(s) <=>
                   v \in Value /\ \E i \in 1 .. Len(s) : s[i].start <= v /\ v <= end(s[i])
         /\ Values(s) \subseteq Value /\ IsFiniteSet(Values(s))
         /\ Cardinality(Values(s)) \in 0 .. WIDTH
<1>1. Values(s) = UNION {covers(s[i]) : i \in 1 .. Len(s)}
  BY RunsFacts DEF Values
<1>2. ASSUME NEW i \in 1 .. Len(s), NEW v
      PROVE  v \in covers(s[i]) <=> v \in Value /\ s[i].start <= v /\ v <= end(s[i])
  <2>1. s[i].start \in 0 .. LAST /\ end(s[i]) \in 0 .. LAST
    BY RunsFacts, LastIsNat
  <2> QED
    BY <2>1, LastIsNat DEF covers
<1>3. \A v : v \in Values(s) <=>
            v \in Value /\ \E i \in 1 .. Len(s) : s[i].start <= v /\ v <= end(s[i])
  BY <1>1, <1>2
<1>4. Values(s) \subseteq Value
  BY <1>3
<1>5. IsFiniteSet(Value) /\ Cardinality(Value) = WIDTH
  BY LastIsNat, FS_Interval
<1>6. IsFiniteSet(Values(s)) /\ Cardinality(Values(s)) <= WIDTH
  BY <1>4, <1>5, FS_Subset
<1>7. Cardinality(Values(s)) \in Nat
  BY <1>6, FS_CardinalityType
<1> QED
  BY <1>3, <1>4, <1>6, <1>7, LastIsNat

\* Which run a value can be in.
LEMMA Locate ==
  ASSUME NEW s, Runs(s), NEW v \in Values(s), NEW i \in 1 .. Len(s)
  PROVE  /\ v < s[i].start => \E k \in 1 .. i - 1 : s[k].start <= v /\ v <= end(s[k])
         /\ v >= s[i].start /\ (i < Len(s) => v < s[i + 1].start) => v <= end(s[i])
<1>1. PICK k \in 1 .. Len(s) : s[k].start <= v /\ v <= end(s[k])
  BY InValues
<1>2. v \in Int /\ Len(s) \in Nat /\ s[i].start \in Int /\ s[k].start \in Int /\ end(s[k]) \in Int
      /\ end(s[i]) \in Int
  BY InValues, RunsFacts, LastIsNat
<1>3. v < s[i].start => k < i
  <2> SUFFICES ASSUME v < s[i].start, k >= i PROVE FALSE
    BY <1>2
  <2>1. CASE k = i
    BY <2>1, <1>1, <1>2
  <2>2. CASE k > i
    <3>1. end(s[i]) < s[k].start /\ s[i].start <= end(s[i])
      BY <2>2, Ascending, RunsFacts
    <3> QED
      BY <3>1, <1>1, <1>2
  <2> QED
    BY <2>1, <2>2, <1>2
<1>4. v >= s[i].start /\ (i < Len(s) => v < s[i + 1].start) => v <= end(s[i])
  <2> SUFFICES ASSUME v >= s[i].start, i < Len(s) => v < s[i + 1].start, k # i PROVE FALSE
    BY <1>1
  <2>1. CASE k < i
    <3>1. end(s[k]) < s[i].start
      BY <2>1, Ascending
    <3> QED
      BY <3>1, <1>1, <1>2
  <2>2. CASE k > i
    <3>1. i < Len(s) /\ i + 1 \in 1 .. Len(s)
      BY <2>2, <1>2
    <3>2. s[i + 1].start <= s[k].start
      <4>1. CASE k = i + 1
        BY <4>1, <1>2
      <4>2. CASE k > i + 1
        <5>1. end(s[i + 1]) < s[k].start /\ s[i + 1].start <= end(s[i + 1])
              /\ s[i + 1].start \in Int /\ end(s[i + 1]) \in Int
          BY <3>1, <4>2, Ascending, RunsFacts
        <5> QED
          BY <5>1, <1>2
      <4> QED
        BY <4>1, <4>2, <2>2, <1>2
    <3>3. s[i + 1].start \in Int
      BY <3>1, RunsFacts
    <3> QED
      BY <3>1, <3>2, <3>3, <1>1, <1>2
  <2> QED
    BY <2>1, <2>2, <1>2
<1> QED
  BY <1>1, <1>2, <1>3, <1>4

\* Writing a run behind the ones there are.
Extends(t, s, lo, hi) ==
  /\ Runs(t) /\ Len(t) = Len(s) + 1 /\ t # << >> /\ end(t[Len(t)]) = hi
  /\ Values(t) = Values(s) \cup lo .. hi
  /\ Cardinality(Values(t)) = Cardinality(Values(s)) + (hi - lo + 1)
  /\ \A g \in {0, 1} : Apart(s, g) /\ EndsBefore(s, g, lo) => Apart(t, g)

LEMMA Emitted ==
  ASSUME NEW s, Runs(s), NEW lo \in Value, NEW hi \in Value, lo <= hi,
         s # << >> => end(s[Len(s)]) < lo,
         NEW t, t = Append(s, run(lo, hi))
  PROVE  Extends(t, s, lo, hi)
<1> DEFINE r == run(lo, hi)
<1>1. /\ r \in Run /\ r.start = lo /\ r.start + r.len <= LAST /\ end(r) = hi /\ covers(r) = lo .. hi
  BY RunOfRange
<1>2. s \in Seq(Run) /\ Len(s) \in Nat
  BY RunsFacts DEF Runs
<1> HIDE DEF r
<1>3. /\ t \in Seq(Run) /\ t # << >> /\ Len(t) = Len(s) + 1 /\ t[Len(s) + 1] = r
      /\ \A i \in 1 .. Len(s) : t[i] = s[i]
  BY <1>1, <1>2, AppendProperties DEF r
<1>4. NoWrap(t)
  BY <1>1, <1>2, <1>3 DEF NoWrap, Runs
<1>5. ASSUME NEW g \in {0, 1}, Apart(s, g), s # << >> => end(s[Len(s)]) + g < lo
      PROVE  Apart(t, g)
  <2> SUFFICES ASSUME NEW i \in 1 .. Len(t) - 1
               PROVE  end(t[i]) + g < t[i + 1].start
    BY DEF Apart
  <2>1. CASE i < Len(s)
    BY <1>2, <1>3, <1>5, <2>1 DEF Apart
  <2>2. CASE i = Len(s)
    <3>1. s # << >>
      BY <1>2, <1>3, <2>2
    <3> QED
      BY <1>1, <1>2, <1>3, <1>5, <2>2, <3>1
  <2> QED
    BY <1>2, <1>3, <2>1, <2>2
<1>6. Runs(t)
  <2>1. s # << >> => end(s[Len(s)]) + 0 < lo
    <3> SUFFICES ASSUME s # << >> PROVE end(s[Len(s)]) + 0 < lo
      OBVIOUS
    <3>1. Len(s) \in 1 .. Len(s)
      BY <1>2, EmptySeq
    <3>2. end(s[Len(s)]) \in Int
      BY <3>1, RunsFacts
    <3> QED
      BY <3>2
  <2>2. Apart(t, 0)
    BY <1>5, <2>1 DEF Runs
  <2> QED
    BY <1>3, <1>4, <2>2 DEF Runs
<1>7. Values(t) = Values(s) \cup lo .. hi
  <2>1. DOMAIN t = 1 .. Len(s) + 1 /\ DOMAIN s = 1 .. Len(s)
    BY <1>2, <1>3, LenProperties
  <2>2. Values(t) = UNION {covers(t[i]) : i \in 1 .. Len(s) + 1}
    BY <2>1 DEF Values
  <2>3. Values(s) = UNION {covers(s[i]) : i \in 1 .. Len(s)}
    BY <2>1 DEF Values
  <2>4. ASSUME NEW v
        PROVE  v \in Values(t) <=> v \in Values(s) \cup lo .. hi
    <3>1. v \in Values(t) <=> \E i \in 1 .. Len(s) + 1 : v \in covers(t[i])
      BY <2>2
    <3>2. v \in Values(s) <=> \E i \in 1 .. Len(s) : v \in covers(s[i])
      BY <2>3
    <3>3. (\E i \in 1 .. Len(s) + 1 : v \in covers(t[i])) <=>
            (\E i \in 1 .. Len(s) : v \in covers(t[i])) \/ v \in covers(t[Len(s) + 1])
      BY <1>2
    <3> QED
      BY <3>1, <3>2, <3>3, <1>1, <1>3
  <2> QED
    BY <2>4
<1>8. Cardinality(Values(t)) = Cardinality(Values(s)) + (hi - lo + 1)
  <2>1. lo \in Int /\ hi \in Int
    BY LastIsNat
  <2>2. IsFiniteSet(lo .. hi) /\ Cardinality(lo .. hi) = hi - lo + 1
    BY <2>1, FS_Interval
  <2>3. IsFiniteSet(Values(s)) /\ Cardinality(Values(s)) \in Int
    BY InValues, LastIsNat
  <2>4. Values(s) \cap lo .. hi = {}
    <3> SUFFICES ASSUME NEW v \in Values(s), v \in lo .. hi PROVE FALSE
      OBVIOUS
    <3>1. PICK k \in 1 .. Len(s) : s[k].start <= v /\ v <= end(s[k])
      BY InValues
    <3>2. s # << >> /\ Len(s) \in 1 .. Len(s)
      BY <1>2, <3>1
    <3>3. end(s[k]) <= end(s[Len(s)])
      <4>1. CASE k = Len(s)
        BY <4>1, <3>2, RunsFacts
      <4>2. CASE k < Len(s)
        <5>1. end(s[k]) < s[Len(s)].start /\ s[Len(s)].start <= end(s[Len(s)])
              /\ end(s[k]) \in Int /\ s[Len(s)].start \in Int /\ end(s[Len(s)]) \in Int
          BY <4>2, <3>2, Ascending, RunsFacts
        <5> QED
          BY <5>1
      <4> QED
        BY <4>1, <4>2, <1>2
    <3>4. end(s[k]) \in Int /\ end(s[Len(s)]) \in Int
      BY <3>2, RunsFacts
    <3> QED
      BY <2>1, <3>1, <3>2, <3>3, <3>4
  <2>5. Cardinality(Values(s) \cap lo .. hi) = 0
    BY <2>4, FS_EmptySet
  <2>6. Cardinality(Values(s) \cup lo .. hi) =
          Cardinality(Values(s)) + Cardinality(lo .. hi) - Cardinality(Values(s) \cap lo .. hi)
    BY <2>2, <2>3, FS_Union
  <2> QED
    BY <1>7, <2>1, <2>2, <2>3, <2>5, <2>6
<1>9. end(t[Len(t)]) = hi
  BY <1>1, <1>2, <1>3
<1> QED
  BY <1>3, <1>5, <1>6, <1>7, <1>8, <1>9 DEF Extends, EndsBefore

----------------------------------------------------------------------------
\* Facts about the fold.

LEMMA InputFacts ==
  ASSUME InputsInv
  PROVE  /\ 0 \in Gaps /\ Gaps \subseteq {0, 1}
         /\ ins \in Seq(Seq(Run)) /\ Len(ins) \in Nat /\ Len(ins) >= 1
         /\ \A i \in 1 .. Len(ins) : Kept(ins[i])
         /\ \A s : Kept(s) => Runs(s)
<1>1. ins \in Seq(Seq(Run)) /\ ins # << >> /\ \A i \in DOMAIN ins : IsRuns(ins[i])
  BY RunAssumption DEF InputsInv
<1>2. Len(ins) \in Nat /\ Len(ins) >= 1 /\ DOMAIN ins = 1 .. Len(ins)
  BY <1>1, LenProperties, EmptySeq
<1>3. ASSUME NEW i \in 1 .. Len(ins)
      PROVE  ins[i] \in Seq(Run) /\ NoWrap(ins[i]) /\ Apart(ins[i], 0)
  <2>1. ins[i] \in Seq(Run) /\ IsRuns(ins[i])
    BY <1>1, <1>2, ElementOfSeq
  <2> DEFINE s == ins[i]
  <2>2. s \in Seq(Run) /\ IsRuns(s)
    BY <2>1
  <2> HIDE DEF s
  <2>3. NoWrap(s)
    BY <2>2, LenProperties DEF IsRuns, NoWrap
  <2>4. Runs(s) \/ ~ Apart(s, 0)
    BY <2>2, <2>3 DEF Runs
  <2>5. ASSUME NEW k \in 1 .. Len(s) - 1
        PROVE  end(s[k]) + 0 < s[k + 1].start
    <3>1. end(s[k]) < s[k + 1].start /\ k \in 1 .. Len(s)
      BY <2>2, LenProperties DEF IsRuns
    <3>2. s[k] \in Run /\ s[k].start + s[k].len <= LAST
      BY <2>2, <2>3, <3>1, ElementOfSeq DEF NoWrap
    <3>3. end(s[k]) \in Int
      BY <3>2, RunFacts
    <3> QED
      BY <3>1, <3>3
  <2> QED
    BY <2>2, <2>3, <2>5 DEF Apart, s
<1>4. 0 \in Gaps /\ Gaps \subseteq {0, 1}
  BY <1>3 DEF Gaps
<1>5. \A i \in 1 .. Len(ins) : Kept(ins[i])
  BY <1>3 DEF Kept, Gaps
<1>6. \A s : Kept(s) => Runs(s)
  BY <1>4 DEF Kept, Runs
<1> QED
  BY <1>1, <1>2, <1>4, <1>5, <1>6

LEMMA FoldedFirst ==
  ASSUME InputsInv, op \in {"intersect", "union", "diff"}
  PROVE  Folded(1) = Values(ins[1])
<1>1. Values(ins[1]) \subseteq Value
  BY InputFacts, InValues
<1>2. 2 .. 1 = {}
  OBVIOUS
<1>3. UNION {Values(ins[i]) : i \in 2 .. 1} = {}
  BY <1>2
<1>4. {v \in Value : \A i \in 1 .. 1 : v \in Values(ins[i])} = Values(ins[1])
  BY <1>1
<1> QED
  BY <1>3, <1>4 DEF Folded

LEMMA FoldedNext ==
  ASSUME InputsInv, op \in {"intersect", "union", "diff"}, NEW k \in 1 .. Len(ins) - 1
  PROVE  Folded(k + 1) = Combined(Folded(k), Values(ins[k + 1]))
<1>1. Len(ins) \in Nat /\ k \in Nat
  BY InputFacts
<1>2. Values(ins[k + 1]) \subseteq Value
  BY <1>1, InputFacts, InValues
<1>3. CASE op = "intersect"
  <2>1. \A v : (\A i \in 1 .. k + 1 : v \in Values(ins[i])) <=>
                 (\A i \in 1 .. k : v \in Values(ins[i])) /\ v \in Values(ins[k + 1])
    BY <1>1
  <2> QED
    BY <1>3, <2>1 DEF Folded, Combined
<1>4. CASE op # "intersect"
  <2> DEFINE more == UNION {Values(ins[i]) : i \in 2 .. k + 1}
             less == UNION {Values(ins[i]) : i \in 2 .. k}
  <2>1. \A v : (\E i \in 2 .. k + 1 : v \in Values(ins[i])) <=>
                 (\E i \in 2 .. k : v \in Values(ins[i])) \/ v \in Values(ins[k + 1])
    <3>1. 2 .. k + 1 = 2 .. k \cup {k + 1}
      BY <1>1
    <3> QED
      BY <3>1
  <2>2. more = less \cup Values(ins[k + 1])
    <3>1. \A v : v \in more <=> \E i \in 2 .. k + 1 : v \in Values(ins[i])
      OBVIOUS
    <3>2. \A v : v \in less <=> \E i \in 2 .. k : v \in Values(ins[i])
      OBVIOUS
    <3> HIDE DEF more, less
    <3> QED
      BY <2>1, <3>1, <3>2
  <2>3. /\ op = "union" => Folded(k + 1) = Values(ins[1]) \cup more
        /\ op = "diff" => Folded(k + 1) = Values(ins[1]) \ more
    BY DEF Folded
  <2>4. /\ op = "union" => Folded(k) = Values(ins[1]) \cup less
        /\ op = "diff" => Folded(k) = Values(ins[1]) \ less
    BY DEF Folded
  <2> HIDE DEF more, less
  <2>5. CASE op = "union"
    BY <2>2, <2>3, <2>4, <2>5 DEF Combined
  <2>6. CASE op = "diff"
    BY <2>2, <2>3, <2>4, <2>6 DEF Combined
  <2> QED
    BY <1>4, <2>5, <2>6
<1> QED
  BY <1>3, <1>4

----------------------------------------------------------------------------
\* What all steps of a kernel have in common.

LEMMA KernelFacts ==
  ASSUME IInv, phase \in {"kernel", "cut"}
  PROVE  /\ Runs(x) /\ Runs(y) /\ Runs(out) /\ Kept(x) /\ Kept(y) /\ Kept(out)
         /\ Len(x) \in Nat /\ Len(y) \in Nat /\ Len(out) \in Nat /\ card \in Nat
         /\ ai \in 1 .. Len(x) + 1 /\ bi \in 1 .. Len(y) + 1 /\ bj \in 1 .. Len(y) + 1
         /\ 0 \in Gaps /\ Gaps \subseteq {0, 1}
         /\ c.lo \in 0 .. WIDTH /\ c.hi \in Value /\ c = [lo |-> c.lo, hi |-> c.hi]
         /\ card = Cardinality(Values(out))
<1>1. Kept(x) /\ Kept(y) /\ Kept(out) /\ card = Cardinality(Values(out))
  BY DEF IInv, FoldInv, OutInv
<1>2. Runs(x) /\ Runs(y) /\ Runs(out) /\ 0 \in Gaps /\ Gaps \subseteq {0, 1}
  BY <1>1, InputFacts DEF IInv
<1>3. Len(x) \in Nat /\ Len(y) \in Nat /\ Len(out) \in Nat
  BY <1>2, RunsFacts
<1>4. /\ ai \in 1 .. Len(x) + 1 /\ bi \in 1 .. Len(y) + 1 /\ bj \in 1 .. Len(y) + 1
      /\ c.lo \in 0 .. WIDTH /\ c.hi \in Value /\ c = [lo |-> c.lo, hi |-> c.hi]
      /\ card \in 0 .. WIDTH
  BY DEF IInv, Types, TypeOK
<1> QED
  BY <1>1, <1>2, <1>3, <1>4, LastIsNat

\* The fold is left alone.
LEMMA FoldUnchanged ==
  ASSUME IInv, phase \in {"kernel", "cut"}, UNCHANGED fold,
         phase' = "kernel" \/ (phase' = "cut" /\ op = "diff" /\ ~ copies)
  PROVE  /\ InputsInv' /\ FoldInv'
         /\ Gaps' = Gaps /\ copies' = copies /\ bound' = bound
<1>1. UNCHANGED << op, ins, rest, halves, in_b, nr, x, y >>
  BY DEF fold
<1>2. InputsInv'
  BY <1>1 DEF IInv, InputsInv
<1>3. Gaps' = Gaps /\ copies' = copies /\ bound' = bound /\ taken' = taken
  BY <1>1 DEF Gaps, copies, bound, taken
<1>4. FoldInv'
  <2>1. \A s : Kept(s)' <=> Kept(s)
    BY <1>3 DEF Kept
  <2>2. Kept(x)' /\ Kept(y)'
    BY <1>1, <1>3 DEF Kept, IInv, FoldInv
  <2>3. Folded(taken - 1)' = Folded(taken - 1)
    BY <1>1, <1>3 DEF Folded
  <2> QED
    BY <1>1, <1>3, <2>2, <2>3 DEF IInv, FoldInv
<1> QED
  BY <1>2, <1>3, <1>4

\* What a step writes, or does not, is right so far.
LEMMA EmitKeeps ==
  ASSUME IInv, phase \in {"kernel", "cut"}, UNCHANGED fold,
         NEW b \in BOOLEAN, NEW lo, NEW hi, EmitIf(b, lo, hi),
         b => lo \in Value /\ hi \in Value /\ lo <= hi /\ \A g \in Gaps : Before(g, lo)
  PROVE  /\ Kept(out') /\ Kept(out)' /\ card' = Cardinality(Values(out'))
         /\ card' \in 0 .. WIDTH /\ Len(out') = Len(out) + (IF b THEN 1 ELSE 0)
         /\ Values(out') = Values(out) \cup (IF b THEN lo .. hi ELSE {})
         /\ b => \A g, v : EndsBefore(out', g, v) <=> hi + g < v
         /\ ~ b => out' = out
<1>1. /\ Runs(out) /\ Kept(out) /\ Len(out) \in Nat /\ card = Cardinality(Values(out))
      /\ 0 \in Gaps /\ Gaps \subseteq {0, 1} /\ card \in Nat
  BY KernelFacts
<1>2. Gaps' = Gaps
  BY DEF Gaps, fold
<1>3. CASE ~ b
  <2>1. out' = out /\ card' = card
    BY <1>3 DEF EmitIf
  <2>2. card \in 0 .. WIDTH
    BY <1>1, InValues
  <2> QED
    BY <1>1, <1>2, <1>3, <2>1, <2>2 DEF Kept
<1>4. CASE b
  <2>1. /\ lo \in Value /\ hi \in Value /\ lo <= hi /\ \A g \in Gaps : Before(g, lo)
        /\ out' = Append(out, run(lo, hi)) /\ card' = card + (hi - lo + 1)
    BY <1>4 DEF EmitIf, Emit
  <2>2. out # << >> => end(out[Len(out)]) < lo
    <3> SUFFICES ASSUME out # << >> PROVE end(out[Len(out)]) < lo
      OBVIOUS
    <3>1. end(out[Len(out)]) + 0 < lo
      BY <1>1, <2>1 DEF Before, EndsBefore
    <3>2. Len(out) \in 1 .. Len(out)
      BY <1>1, EmptySeq DEF Runs
    <3>3. end(out[Len(out)]) \in Int
      BY <1>1, <3>2, RunsFacts
    <3> QED
      BY <3>1, <3>3
  <2> DEFINE s == out'
  <2>3. s = Append(out, run(lo, hi))
    BY <2>1
  <2> HIDE DEF s
  <2>4. Extends(s, out, lo, hi)
    <3>1. Runs(out) /\ lo \in Value /\ hi \in Value /\ lo <= hi
      BY <1>1, <2>1
    <3> QED
      BY ONLY <3>1, <2>2, <2>3, Emitted
  <2> USE DEF Extends
  <2>5. \A g \in Gaps : Apart(s, g)
    BY <1>1, <2>1, <2>4 DEF Kept, Before, EndsBefore
  <2>6. Kept(s)
    BY <2>4, <2>5 DEF Kept, Runs
  <2>7. Cardinality(Values(s)) \in 0 .. WIDTH
    BY <2>4, InValues
  <2>8. Kept(out)'
    BY <1>2, <2>6 DEF Kept, s
  <2>9. card' = Cardinality(Values(s))
    BY <1>1, <2>1, <2>4
  <2>10. \A g, v : EndsBefore(s, g, v) <=> hi + g < v
    BY <2>4 DEF EndsBefore
  <2> QED
    BY <1>4, <2>4, <2>6, <2>7, <2>8, <2>9, <2>10 DEF s
<1> QED
  BY <1>3, <1>4

LEMMA MaxMinOfTwo ==
  ASSUME NEW a \in Value, NEW b \in Value
  PROVE  /\ Max({a, b}) \in Value /\ Max({a, b}) \in {a, b} /\ Max({a, b}) >= a /\ Max({a, b}) >= b
         /\ Min({a, b}) \in Value /\ Min({a, b}) \in {a, b} /\ Min({a, b}) <= a /\ Min({a, b}) <= b
<1>1. a \in Int /\ b \in Int
  BY LastIsNat
<1>2. \E z \in {a, b} : \A v \in {a, b} : z >= v
  BY <1>1
<1>3. \E z \in {a, b} : \A v \in {a, b} : z <= v
  BY <1>1
<1>4. Max({a, b}) \in {a, b} /\ \A v \in {a, b} : Max({a, b}) >= v
  BY <1>2 DEF Max
<1>5. Min({a, b}) \in {a, b} /\ \A v \in {a, b} : Min({a, b}) <= v
  BY <1>3 DEF Min
<1> QED
  BY <1>4, <1>5

LEMMA EndsLater ==
  ASSUME NEW s, Runs(s), NEW g \in {0, 1}, NEW h \in {0, 1}, NEW v \in Int, NEW w \in Int,
         h - g <= w - v, EndsBefore(s, g, v)
  PROVE  EndsBefore(s, h, w)
<1> SUFFICES ASSUME s # << >> PROVE end(s[Len(s)]) + h < w
  BY DEF EndsBefore
<1>1. Len(s) \in 1 .. Len(s)
  BY RunsFacts, EmptySeq DEF Runs
<1>2. end(s[Len(s)]) \in Int /\ end(s[Len(s)]) + g < v
  BY <1>1, RunsFacts DEF EndsBefore
<1> QED
  BY <1>2

----------------------------------------------------------------------------
\* Intersection.

\* The run that ends first has nothing more in common with the other container.
LEMMA IntersectStep ==
  ASSUME NEW s, Runs(s), NEW t, Runs(t), NEW i \in 1 .. Len(s), NEW j \in 1 .. Len(t),
         end(s[i]) <= end(t[j]), NEW lo \in {s[i].start, t[j].start},
         lo >= s[i].start, lo >= t[j].start, NEW v \in Value
  PROVE  v \in Values(s) \cap Values(t) /\ (Below(s, i + 1, v) \/ Below(t, j, v)) <=>
           \/ v \in Values(s) \cap Values(t) /\ (Below(s, i, v) \/ Below(t, j, v))
           \/ v \in lo .. end(s[i])
<1> DEFINE a == s[i].start
           ae == end(s[i])
           b == t[j].start
           be == end(t[j])
<1>1. /\ Len(s) \in Nat /\ Len(t) \in Nat /\ v \in Int /\ a \in Int /\ ae \in Int
      /\ b \in Int /\ be \in Int /\ a <= ae /\ b <= be
  BY RunsFacts, LastIsNat
<1>2. i < Len(s) => ae < s[i + 1].start /\ s[i + 1].start \in Int
  <2> SUFFICES ASSUME i < Len(s) PROVE ae < s[i + 1].start /\ s[i + 1].start \in Int
    OBVIOUS
  <2>1. i + 1 \in 1 .. Len(s) /\ i < i + 1
    BY <1>1
  <2> QED
    BY <2>1, Ascending, RunsFacts
<1>3. Below(s, i, v) <=> v < a
  BY <1>1 DEF Below
<1>4. Below(t, j, v) <=> v < b
  BY <1>1 DEF Below
<1>5. Below(s, i + 1, v) <=> (i < Len(s) => v < s[i + 1].start)
  BY <1>1 DEF Below
<1>6. v \in Values(s) /\ v >= a /\ Below(s, i + 1, v) => v <= ae
  BY <1>1, <1>5, Locate
<1>7. a <= v /\ v <= ae => v \in Values(s) /\ Below(s, i + 1, v)
  <2>1. a <= v /\ v <= ae => v \in Values(s)
    BY InValues
  <2> QED
    BY <1>1, <1>2, <1>5, <2>1
<1>8. b <= v /\ v <= be => v \in Values(t)
  BY InValues
<1>9. v < a => Below(s, i + 1, v)
  BY <1>1, <1>2, <1>5
<1> DEFINE n == Below(s, i + 1, v)
<1>10. v \in lo .. ae <=> a <= v /\ b <= v /\ v <= ae
  BY <1>1
<1>11. ae <= be
  OBVIOUS
<1> HIDE DEF a, ae, b, be, n
<1> QED
  BY <1>1, <1>3, <1>4, <1>6, <1>7, <1>8, <1>9, <1>10, <1>11 DEF n, ae

LEMMA IntersectKeeps ==
  ASSUME IInv, Intersect
  PROVE  IInv'
<1> DEFINE lo == Max({x[ai].start, y[bi].start})
           hi == Min({end(x[ai]), end(y[bi])})
<1>1. /\ phase = "kernel" /\ op = "intersect" /\ ai <= Len(x) /\ bi <= Len(y)
      /\ UNCHANGED fold /\ UNCHANGED << phase, bj, c >> /\ EmitIf(lo <= hi, lo, hi)
      /\ \/ end(x[ai]) <= end(y[bi]) /\ ai' = ai + 1 /\ bi' = bi
         \/ ~ (end(x[ai]) <= end(y[bi])) /\ bi' = bi + 1 /\ ai' = ai
  BY DEF Intersect, advances_a
<1>2. /\ Runs(x) /\ Runs(y) /\ Runs(out) /\ Kept(x) /\ Kept(y) /\ Kept(out)
      /\ Len(x) \in Nat /\ Len(y) \in Nat /\ Len(out) \in Nat
      /\ ai \in 1 .. Len(x) /\ bi \in 1 .. Len(y) /\ Gaps \subseteq {0, 1}
  BY <1>1, KernelFacts
<1>3. IntersectInv
  BY <1>1 DEF IInv, KernelInv
<1>4. /\ x[ai].start \in Value /\ end(x[ai]) \in Value
      /\ y[bi].start \in Value /\ end(y[bi]) \in Value
  BY <1>2, RunsFacts
<1>5. /\ lo \in Value /\ lo \in {x[ai].start, y[bi].start} /\ lo >= x[ai].start /\ lo >= y[bi].start
      /\ hi \in Value /\ hi \in {end(x[ai]), end(y[bi])} /\ hi <= end(x[ai]) /\ hi <= end(y[bi])
  BY <1>4, MaxMinOfTwo
<1>6. /\ x[ai].start \in Int /\ end(x[ai]) \in Int /\ y[bi].start \in Int /\ end(y[bi]) \in Int
      /\ lo \in Int /\ hi \in Int
  BY <1>4, <1>5, LastIsNat
<1> HIDE DEF lo, hi
<1>7. \A g \in Gaps : Before(g, lo)
  <2> SUFFICES ASSUME NEW g \in Gaps PROVE EndsBefore(out, g, lo)
    BY DEF Before
  <2>1. EndsBefore(out, g, x[ai].start) \/ EndsBefore(out, g, y[bi].start)
    BY <1>2, <1>3 DEF IntersectInv, Before
  <2>2. g \in {0, 1} /\ g - g <= lo - x[ai].start /\ g - g <= lo - y[bi].start
    BY SMTT(60), <1>2, <1>5, <1>6
  <2> QED
    BY SMTT(60), <1>2, <1>6, <2>1, <2>2, EndsLater
<1> DEFINE b == lo <= hi
<1>8. /\ Kept(out)' /\ card' = Cardinality(Values(out')) /\ card' \in 0 .. WIDTH
      /\ Kept(out') /\ Len(out') = Len(out) + (IF b THEN 1 ELSE 0)
      /\ Values(out') = Values(out) \cup (IF b THEN lo .. hi ELSE {})
      /\ b => \A g, v : EndsBefore(out', g, v) <=> hi + g < v
      /\ ~ b => out' = out
  <2>1. b \in BOOLEAN
    OBVIOUS
  <2>2. b => lo \in Value /\ hi \in Value /\ lo <= hi /\ \A g \in Gaps : Before(g, lo)
    BY <1>5, <1>7
  <2>3. EmitIf(b, lo, hi) /\ UNCHANGED fold /\ phase \in {"kernel", "cut"}
    BY <1>1
  <2> HIDE DEF b
  <2> QED
    BY <2>1, <2>2, <2>3, EmitKeeps
<1>9. InputsInv' /\ FoldInv' /\ Gaps' = Gaps /\ copies' = copies /\ bound' = bound
  BY <1>1, FoldUnchanged
<1>10. x' = x /\ y' = y /\ op' = op
  BY <1>1 DEF fold
<1>11. Values(out') = Values(out) \cup lo .. hi
  BY <1>6, <1>8
<1>12. Values(out) = {v \in Values(x) \cap Values(y) : Below(x, ai, v) \/ Below(y, bi, v)}
  BY <1>3 DEF IntersectInv
<1>13. Values(x) \subseteq Value /\ Values(y) \subseteq Value
  BY <1>2, InValues
<1>14. Len(out') <= (ai' - 1) + (bi' - 1) /\ Len(out') <= Len(x) + Len(y)
  BY <1>1, <1>2, <1>3, <1>8 DEF IntersectInv
<1>15. lo .. hi \subseteq Value
  BY <1>5, LastIsNat
<1>16. IntersectInv'
  <2>1. CASE end(x[ai]) <= end(y[bi]) /\ ai' = ai + 1 /\ bi' = bi
    <3>1. hi = end(x[ai])
      BY <1>5, <1>6, <2>1
    <3>2. ASSUME NEW v \in Value
          PROVE  v \in Values(out') <=>
                   v \in Values(x) \cap Values(y) /\ (Below(x, ai + 1, v) \/ Below(y, bi, v))
      <4>1. v \in Values(x) \cap Values(y) /\ (Below(x, ai + 1, v) \/ Below(y, bi, v)) <=>
              \/ v \in Values(x) \cap Values(y) /\ (Below(x, ai, v) \/ Below(y, bi, v))
              \/ v \in lo .. end(x[ai])
        BY <1>2, <1>5, <2>1, IntersectStep
      <4> QED
        BY <1>11, <1>12, <3>1, <4>1
    <3>3. Values(out') = {v \in Values(x) \cap Values(y) : Below(x, ai', v) \/ Below(y, bi', v)}
      BY <1>11, <1>12, <1>13, <1>15, <2>1, <3>2
    <3>4. ASSUME NEW g \in Gaps, ai + 1 <= Len(x)
          PROVE  EndsBefore(out', g, x[ai + 1].start) \/ EndsBefore(out', g, y[bi].start)
      <4>1. ai \in 1 .. Len(x) - 1 /\ g \in {0, 1} /\ ai + 1 \in 1 .. Len(x)
        BY <1>2, <3>4
      <4>2. end(x[ai]) + g < x[ai + 1].start /\ x[ai + 1].start \in Int
        BY <1>2, <4>1, RunsFacts DEF Kept, Apart
      <4>3. CASE b
        BY <1>8, <3>1, <4>2, <4>3
      <4>4. CASE ~ b
        <5>1. EndsBefore(out, g, x[ai].start) \/ EndsBefore(out, g, y[bi].start)
          BY <1>2, <1>3 DEF IntersectInv, Before
        <5>2. g - g <= x[ai + 1].start - x[ai].start
          <6>1. x[ai].start <= end(x[ai])
            BY <1>2, RunsFacts
          <6> QED
            BY <1>6, <4>1, <4>2, <6>1
        <5> QED
          BY SMTT(60), <1>2, <1>6, <1>8, <4>1, <4>2, <4>4, <5>1, <5>2, EndsLater
      <4> QED
        BY <4>3, <4>4
    <3> QED
      BY <1>9, <1>10, <1>14, <2>1, <3>3, <3>4 DEF IntersectInv, Before
  <2>2. CASE ~ (end(x[ai]) <= end(y[bi])) /\ bi' = bi + 1 /\ ai' = ai
    <3>1. hi = end(y[bi]) /\ end(y[bi]) <= end(x[ai])
      BY <1>5, <1>6, <2>2
    <3>2. ASSUME NEW v \in Value
          PROVE  v \in Values(out') <=>
                   v \in Values(x) \cap Values(y) /\ (Below(x, ai, v) \/ Below(y, bi + 1, v))
      <4>1. v \in Values(y) \cap Values(x) /\ (Below(y, bi + 1, v) \/ Below(x, ai, v)) <=>
              \/ v \in Values(y) \cap Values(x) /\ (Below(y, bi, v) \/ Below(x, ai, v))
              \/ v \in lo .. end(y[bi])
        BY <1>2, <1>5, <3>1, IntersectStep
      <4> QED
        BY <1>11, <1>12, <3>1, <4>1
    <3>3. Values(out') = {v \in Values(x) \cap Values(y) : Below(x, ai', v) \/ Below(y, bi', v)}
      BY <1>11, <1>12, <1>13, <1>15, <2>2, <3>2
    <3>4. ASSUME NEW g \in Gaps, bi + 1 <= Len(y)
          PROVE  EndsBefore(out', g, x[ai].start) \/ EndsBefore(out', g, y[bi + 1].start)
      <4>1. bi \in 1 .. Len(y) - 1 /\ g \in {0, 1} /\ bi + 1 \in 1 .. Len(y)
        BY <1>2, <3>4
      <4>2. end(y[bi]) + g < y[bi + 1].start /\ y[bi + 1].start \in Int
        BY <1>2, <4>1, RunsFacts DEF Kept, Apart
      <4>3. CASE b
        BY <1>8, <3>1, <4>2, <4>3
      <4>4. CASE ~ b
        <5>1. EndsBefore(out, g, x[ai].start) \/ EndsBefore(out, g, y[bi].start)
          BY <1>2, <1>3 DEF IntersectInv, Before
        <5>2. g - g <= y[bi + 1].start - y[bi].start
          <6>1. y[bi].start <= end(y[bi])
            BY <1>2, RunsFacts
          <6> QED
            BY <1>6, <4>1, <4>2, <6>1
        <5> QED
          BY SMTT(60), <1>2, <1>6, <1>8, <4>1, <4>2, <4>4, <5>1, <5>2, EndsLater
      <4> QED
        BY <4>3, <4>4
    <3> QED
      BY <1>9, <1>10, <1>14, <2>2, <3>3, <3>4 DEF IntersectInv, Before
  <2> QED
    BY <1>1, <2>1, <2>2
<1>17. Types'
  <2>1. out' \in Seq(Run)
    BY <1>8 DEF Kept
  <2>2. ai' \in 1 .. Len(x') + 1 /\ bi' \in 1 .. Len(y') + 1
    BY <1>1, <1>2, <1>10
  <2> QED
    BY <1>1, <1>8, <2>1, <2>2 DEF IInv, Types, TypeOK, fold
<1>18. OutInv'
  BY <1>1, <1>8, <1>9, <1>10, <1>14 DEF OutInv, bound, copies
<1>19. KernelInv'
  BY <1>1, <1>10, <1>16 DEF KernelInv
<1> QED
  BY <1>9, <1>17, <1>18, <1>19 DEF IInv

----------------------------------------------------------------------------
\* Union.

LEMMA MarkSwapped ==
  ASSUME NEW s, NEW t, NEW i, NEW j, NEW o, NEW lo, NEW hi, Mark(s, t, i, j, o, lo, hi)
  PROVE  Mark(t, s, j, i, o, lo, hi)
<1>1. Values(s) \cup Values(t) = Values(t) \cup Values(s)
  OBVIOUS
<1> QED
  BY <1>1 DEF Mark

\* What comes before the next run is in the runs taken.
LEMMA BelowTaken ==
  ASSUME NEW s, Runs(s), NEW i \in 1 .. Len(s) + 1, NEW hi \in Int,
         \A k \in 1 .. i - 1 : end(s[k]) <= hi, NEW v \in Values(s), Below(s, i, v)
  PROVE  v <= hi
<1>1. Len(s) \in Nat /\ v \in Int
  BY RunsFacts, InValues, LastIsNat
<1>2. PICK k \in 1 .. i - 1 : v <= end(s[k])
  <2>1. CASE i <= Len(s)
    <3>1. i \in 1 .. Len(s) /\ v < s[i].start
      BY <1>1, <2>1 DEF Below
    <3> QED
      BY <3>1, Locate
  <2>2. CASE i = Len(s) + 1
    <3>1. 1 .. i - 1 = 1 .. Len(s)
      BY <1>1, <2>2
    <3> QED
      BY <3>1, InValues
  <2> QED
    BY <1>1, <2>1, <2>2
<1>3. k \in 1 .. Len(s) /\ end(s[k]) \in Int
  BY <1>1, RunsFacts
<1> QED
  BY <1>1, <1>2, <1>3

LEMMA NextStart ==
  ASSUME NEW s, Runs(s), NEW i \in 1 .. Len(s), i + 1 <= Len(s)
  PROVE  s[i + 1].start \in Int /\ end(s[i]) < s[i + 1].start
<1>1. i + 1 \in 1 .. Len(s) /\ i < i + 1
  BY RunsFacts
<1> QED
  BY <1>1, RunsFacts, Ascending

\* Taking a run that touches the current one.
LEMMA MarkMerged ==
  ASSUME NEW s, Runs(s), NEW t, Runs(t), NEW i \in 1 .. Len(s), NEW j \in 1 .. Len(t) + 1,
         NEW o, NEW lo \in Value, NEW hi \in Value, Mark(s, t, i, j, o, lo, hi),
         s[i].start <= hi + 1, NEW m \in Value, m \in {hi, end(s[i])}, m >= hi, m >= end(s[i])
  PROVE  Mark(s, t, i + 1, j, o, lo, m)
<1>1. /\ Len(s) \in Nat /\ Len(t) \in Nat /\ lo \in Int /\ hi \in Int /\ m \in Int
      /\ s[i].start \in Int /\ end(s[i]) \in Int /\ s[i].start <= end(s[i])
  BY RunsFacts, LastIsNat
<1>2. lo <= m
  BY <1>1 DEF Mark
<1>3. lo .. m \subseteq Values(s) \cup Values(t)
  <2> SUFFICES ASSUME NEW v \in lo .. m, v > hi PROVE v \in Values(s)
    BY <1>1 DEF Mark
  <2>1. v \in Value /\ s[i].start <= v /\ v <= end(s[i])
    BY <1>1, LastIsNat
  <2> QED
    BY <2>1, InValues
<1>4. \A k \in 1 .. i : end(s[k]) <= m
  <2> SUFFICES ASSUME NEW k \in 1 .. i PROVE end(s[k]) <= m
    OBVIOUS
  <2>1. CASE k = i
    BY <2>1
  <2>2. CASE k < i
    <3>1. end(s[k]) <= hi /\ end(s[k]) \in Int
      BY <1>1, <2>2, RunsFacts DEF Mark
    <3> QED
      BY <1>1, <3>1
  <2> QED
    BY <1>1, <2>1, <2>2
<1>5. \A k \in 1 .. j - 1 : end(t[k]) <= m
  <2> SUFFICES ASSUME NEW k \in 1 .. j - 1 PROVE end(t[k]) <= m
    OBVIOUS
  <2>1. end(t[k]) <= hi /\ k \in 1 .. Len(t)
    BY <1>1 DEF Mark
  <2>2. end(t[k]) \in Int
    BY <2>1, RunsFacts
  <2> QED
    BY <1>1, <2>1, <2>2
<1>6. i + 1 <= Len(s) => lo <= s[i + 1].start
  <2> SUFFICES ASSUME i + 1 <= Len(s) PROVE lo <= s[i + 1].start
    OBVIOUS
  <2>1. s[i + 1].start \in Int /\ end(s[i]) < s[i + 1].start
    BY NextStart
  <2>2. lo <= s[i].start
    BY <1>1 DEF Mark
  <2> QED
    BY <1>1, <2>1, <2>2
<1>7. (i + 1) - 1 = i
  OBVIOUS
<1> QED
  BY <1>2, <1>3, <1>4, <1>5, <1>6, <1>7 DEF Mark

\* Taking one that does not, once the current one is written.
LEMMA MarkMoved ==
  ASSUME NEW s, Runs(s), NEW t, Runs(t), NEW i \in 1 .. Len(s), NEW j \in 1 .. Len(t) + 1,
         NEW o, NEW lo \in Value, NEW hi \in Value, Mark(s, t, i, j, o, lo, hi),
         s[i].start > hi + 1, j <= Len(t) => s[i].start <= t[j].start
  PROVE  Mark(s, t, i + 1, j, o \cup lo .. hi, s[i].start, end(s[i]))
<1> DEFINE a == s[i].start
           ae == end(s[i])
<1>1. /\ Len(s) \in Nat /\ Len(t) \in Nat /\ lo \in Int /\ hi \in Int
      /\ a \in Int /\ ae \in Int /\ a <= ae
  BY RunsFacts, LastIsNat
<1>2. o \cup lo .. hi = {v \in Values(s) \cup Values(t) : v < a}
  <2>1. ASSUME NEW v \in Values(s) \cup Values(t)
        PROVE  v \in o \cup lo .. hi <=> v < a
    <3>1. v \in Int
      BY InValues, LastIsNat
    <3>2. v \in o <=> v < lo
      BY DEF Mark
    <3>3. v < a => v <= hi
      <4>1. CASE v \in Values(s) /\ v < a
        <5>1. Below(s, i, v) /\ i \in 1 .. Len(s) + 1
          BY <1>1, <4>1 DEF Below
        <5>2. \A k \in 1 .. i - 1 : end(s[k]) <= hi
          BY DEF Mark
        <5> QED
          BY <1>1, <4>1, <5>1, <5>2, BelowTaken
      <4>2. CASE v \in Values(t) /\ v < a
        <5>1. Below(t, j, v)
          <6> SUFFICES ASSUME j <= Len(t) PROVE v < t[j].start
            BY DEF Below
          <6>1. t[j].start \in Int /\ a <= t[j].start
            BY <1>1, RunsFacts
          <6> QED
            BY <1>1, <3>1, <4>2, <6>1
        <5>2. \A k \in 1 .. j - 1 : end(t[k]) <= hi
          BY DEF Mark
        <5> QED
          BY <1>1, <4>2, <5>1, <5>2, BelowTaken
      <4> QED
        BY <4>1, <4>2
    <3>4. hi < a /\ lo < a
      BY <1>1 DEF Mark
    <3> HIDE DEF a
    <3>5. CASE v < lo
      BY <1>1, <3>1, <3>2, <3>4, <3>5
    <3>6. CASE ~ (v < lo)
      <4>1. v \in lo .. hi <=> v <= hi
        BY <1>1, <3>1, <3>6
      <4>2. v <= hi <=> v < a
        BY <1>1, <3>1, <3>3, <3>4
      <4> QED
        BY <3>2, <3>6, <4>1, <4>2
    <3> QED
      BY <3>5, <3>6
  <2>2. o \cup lo .. hi \subseteq Values(s) \cup Values(t)
    BY DEF Mark
  <2> HIDE DEF a
  <2> QED
    BY <2>1, <2>2
<1>3. a .. ae \subseteq Values(s) \cup Values(t)
  <2>1. \A v \in a .. ae : v \in Value
    BY RunsFacts, LastIsNat
  <2> QED
    BY <1>1, <2>1, InValues
<1>4. \A k \in 1 .. i : end(s[k]) <= ae
  <2> SUFFICES ASSUME NEW k \in 1 .. i PROVE end(s[k]) <= ae
    OBVIOUS
  <2>1. CASE k = i
    BY <1>1, <2>1
  <2>2. CASE k < i
    <3>1. end(s[k]) <= hi /\ end(s[k]) \in Int
      BY <1>1, <2>2, RunsFacts DEF Mark
    <3> QED
      BY <1>1, <3>1
  <2> QED
    BY <1>1, <2>1, <2>2
<1>5. \A k \in 1 .. j - 1 : end(t[k]) <= ae
  <2> SUFFICES ASSUME NEW k \in 1 .. j - 1 PROVE end(t[k]) <= ae
    OBVIOUS
  <2>1. end(t[k]) <= hi /\ k \in 1 .. Len(t)
    BY <1>1 DEF Mark
  <2>2. end(t[k]) \in Int
    BY <2>1, RunsFacts
  <2> QED
    BY <1>1, <2>1, <2>2
<1>6. i + 1 <= Len(s) => a <= s[i + 1].start
  <2> SUFFICES ASSUME i + 1 <= Len(s) PROVE a <= s[i + 1].start
    OBVIOUS
  <2>1. s[i + 1].start \in Int /\ end(s[i]) < s[i + 1].start
    BY NextStart
  <2> QED
    BY <1>1, <2>1
<1>7. (i + 1) - 1 = i
  OBVIOUS
<1> HIDE DEF a, ae
<1>8. Mark(s, t, i + 1, j, o \cup lo .. hi, a, ae)
  BY <1>1, <1>2, <1>3, <1>4, <1>5, <1>6, <1>7 DEF Mark, a
<1> QED
  BY <1>8 DEF a, ae

\* All runs taken.
Complete(s, t, o, lo, hi) == o \cup lo .. hi = Values(s) \cup Values(t)

LEMMA MarkComplete ==
  ASSUME NEW s, Runs(s), NEW t, Runs(t), NEW o, NEW lo \in Value, NEW hi \in Value,
         Mark(s, t, Len(s) + 1, Len(t) + 1, o, lo, hi)
  PROVE  Complete(s, t, o, lo, hi)
<1>1. Len(s) \in Nat /\ Len(t) \in Nat /\ lo \in Int /\ hi \in Int
  BY RunsFacts, LastIsNat
<1>2. /\ \A k \in 1 .. (Len(s) + 1) - 1 : end(s[k]) <= hi
      /\ \A k \in 1 .. (Len(t) + 1) - 1 : end(t[k]) <= hi
  BY DEF Mark
<1>3. ASSUME NEW v \in Values(s) \cup Values(t)
      PROVE  v \in o \cup lo .. hi
  <2>1. v \in Int
    BY InValues, LastIsNat
  <2>2. v <= hi
    <3>1. CASE v \in Values(s)
      <4>1. Below(s, Len(s) + 1, v) /\ Len(s) + 1 \in 1 .. Len(s) + 1
        BY <1>1 DEF Below
      <4> QED
        BY <1>1, <1>2, <3>1, <4>1, BelowTaken
    <3>2. CASE v \in Values(t)
      <4>1. Below(t, Len(t) + 1, v) /\ Len(t) + 1 \in 1 .. Len(t) + 1
        BY <1>1 DEF Below
      <4> QED
        BY <1>1, <1>2, <3>2, <4>1, BelowTaken
    <3> QED
      BY <3>1, <3>2
  <2>3. v \in o <=> v < lo
    BY DEF Mark
  <2> QED
    BY <1>1, <2>1, <2>2, <2>3
<1>4. o \cup lo .. hi \subseteq Values(s) \cup Values(t)
  BY DEF Mark
<1> QED
  BY <1>3, <1>4 DEF Complete

\* Nothing is written before the first run, the earlier of two.
LEMMA MarkSeeded ==
  ASSUME NEW s, Runs(s), NEW t, Runs(t), 1 <= Len(s), 1 <= Len(t), s[1].start <= t[1].start
  PROVE  Mark(s, t, 2, 1, {}, s[1].start, end(s[1]))
<1>1. /\ Len(s) \in Nat /\ Len(t) \in Nat /\ 1 \in 1 .. Len(s) /\ 1 \in 1 .. Len(t)
      /\ s[1].start \in Int /\ end(s[1]) \in Int /\ s[1].start <= end(s[1]) /\ t[1].start \in Int
      /\ s[1].start \in 0 .. LAST /\ end(s[1]) \in 0 .. LAST
  BY RunsFacts, LastIsNat
<1>2. s[1].start .. end(s[1]) \subseteq Values(s) \cup Values(t)
  <2>1. \A v \in s[1].start .. end(s[1]) : v \in Value
    BY <1>1, LastIsNat
  <2> QED
    BY <1>1, <2>1, InValues
<1>3. ASSUME NEW v \in Values(s) \cup Values(t)
      PROVE  ~ (v < s[1].start)
  <2> SUFFICES ASSUME v < s[1].start PROVE FALSE
    OBVIOUS
  <2>1. v \in Int
    BY InValues, LastIsNat
  <2>2. v < t[1].start
    BY <1>1, <2>1
  <2>3. 1 .. 1 - 1 = {}
    OBVIOUS
  <2> QED
    BY <1>1, <2>1, <2>2, <2>3, Locate
<1>4. 2 <= Len(s) => s[1].start <= s[2].start
  <2> SUFFICES ASSUME 1 + 1 <= Len(s) PROVE s[1].start <= s[1 + 1].start
    OBVIOUS
  <2>1. s[1 + 1].start \in Int /\ end(s[1]) < s[1 + 1].start
    BY <1>1, NextStart
  <2> QED
    BY <1>1, <2>1
<1>5. {} = {v \in Values(s) \cup Values(t) : v < s[1].start}
  BY <1>3
<1>6. \A k \in 1 .. 2 - 1 : end(s[k]) <= end(s[1])
  <2>1. \A k \in 1 .. 2 - 1 : k = 1
    OBVIOUS
  <2> QED
    BY <1>1, <2>1
<1> QED
  BY <1>1, <1>2, <1>4, <1>5, <1>6 DEF Mark

\* One turn of the loop, whichever input the next run is of.
LEMMA UnionTurn ==
  ASSUME IInv, phase = "kernel", op = "union", ~ copies, UNCHANGED fold,
         NEW s, Runs(s), NEW t, Runs(t), NEW i \in 1 .. Len(s), NEW j \in 1 .. Len(t) + 1,
         Mark(s, t, i, j, Values(out), c.lo, c.hi), Before(1, c.lo),
         j <= Len(t) => s[i].start <= t[j].start,
         IF reaches(s[i].start)
         THEN /\ c' = [c EXCEPT !.hi = Max({@, end(s[i])})]
              /\ UNCHANGED << out, card >>
         ELSE /\ Emit(c.lo, c.hi)
              /\ c' = [lo |-> s[i].start, hi |-> end(s[i])]
  PROVE  /\ Mark(s, t, i + 1, j, Values(out'), c'.lo, c'.hi) /\ EndsBefore(out', 1, c'.lo)
         /\ Kept(out') /\ Kept(out)' /\ card' = Cardinality(Values(out')) /\ card' \in 0 .. WIDTH
         /\ Len(out') \in Nat /\ Len(out') <= Len(out) + 1
         /\ c' \in [lo : 0 .. WIDTH, hi : Value]
<1>1. /\ s[i].start \in Value /\ end(s[i]) \in Value /\ s[i].start \in Int /\ end(s[i]) \in Int
      /\ s[i].start <= end(s[i])
  BY RunsFacts
<1>2. /\ Runs(out) /\ Kept(out) /\ Len(out) \in Nat /\ Gaps \subseteq {0, 1}
      /\ c.lo \in 0 .. WIDTH /\ c.hi \in Value /\ c = [lo |-> c.lo, hi |-> c.hi]
      /\ card = Cardinality(Values(out)) /\ phase \in {"kernel", "cut"}
  BY KernelFacts
<1>3. c.lo \in Value /\ c.lo \in Int /\ c.hi \in Int /\ c.lo <= c.hi
  BY <1>2, LastIsNat DEF Mark
<1>4. Value \subseteq 0 .. WIDTH
  BY LastIsNat
<1>5. CASE reaches(s[i].start)
  <2> DEFINE m == Max({c.hi, end(s[i])})
  <2>1. c' = [c EXCEPT !.hi = m] /\ out' = out /\ card' = card
    BY <1>5
  <2>2. m \in Value /\ m \in {c.hi, end(s[i])} /\ m >= c.hi /\ m >= end(s[i])
    BY <1>1, <1>2, MaxMinOfTwo
  <2> HIDE DEF m
  <2>3. c' = [lo |-> c.lo, hi |-> m] /\ c'.lo = c.lo /\ c'.hi = m
    BY <1>2, <2>1
  <2>4. s[i].start <= c.hi + 1
    BY <1>5 DEF reaches
  <2>5. Mark(s, t, i + 1, j, Values(out), c.lo, m)
    BY <1>2, <1>3, <2>2, <2>4, MarkMerged
  <2>6. EmitIf(FALSE, 0, 0)
    BY <2>1 DEF EmitIf
  <2>7. /\ Kept(out') /\ Kept(out)' /\ card' = Cardinality(Values(out')) /\ card' \in 0 .. WIDTH
    BY <1>2, <2>6, EmitKeeps
  <2>8. EndsBefore(out, 1, c.lo)
    BY DEF Before
  <2>9. c' \in [lo : 0 .. WIDTH, hi : Value]
    BY <1>2, <2>2, <2>3
  <2>10. Len(out') \in Nat /\ Len(out') <= Len(out) + 1
    BY <1>2, <2>1
  <2> QED
    BY <2>1, <2>3, <2>5, <2>7, <2>8, <2>9, <2>10
<1>6. CASE ~ reaches(s[i].start)
  <2>1. Emit(c.lo, c.hi) /\ c' = [lo |-> s[i].start, hi |-> end(s[i])]
    BY <1>6
  <2>2. s[i].start > c.hi + 1
    BY <1>1, <1>3, <1>6 DEF reaches
  <2>3. Mark(s, t, i + 1, j, Values(out) \cup c.lo .. c.hi, s[i].start, end(s[i]))
    BY <1>2, <1>3, <2>2, MarkMoved
  <2>4. EmitIf(TRUE, c.lo, c.hi)
    BY <2>1 DEF EmitIf
  <2>5. \A g \in Gaps : Before(g, c.lo)
    <3> SUFFICES ASSUME NEW g \in Gaps PROVE EndsBefore(out, g, c.lo)
      BY DEF Before
    <3>1. g \in {0, 1} /\ g - 1 <= c.lo - c.lo
      BY <1>2, <1>3
    <3> QED
      BY <1>2, <1>3, <3>1, EndsLater DEF Before
  <2>6. /\ Kept(out') /\ Kept(out)' /\ card' = Cardinality(Values(out')) /\ card' \in 0 .. WIDTH
        /\ Len(out') = Len(out) + 1
        /\ Values(out') = Values(out) \cup c.lo .. c.hi
        /\ \A g, v : EndsBefore(out', g, v) <=> c.hi + g < v
    BY <1>2, <1>3, <2>4, <2>5, EmitKeeps
  <2>7. EndsBefore(out', 1, s[i].start)
    BY <1>1, <1>3, <2>2, <2>6
  <2>8. c' \in [lo : 0 .. WIDTH, hi : Value] /\ c'.lo = s[i].start /\ c'.hi = end(s[i])
    BY <1>1, <1>4, <2>1
  <2> QED
    BY <1>2, <2>3, <2>6, <2>7, <2>8
<1> QED
  BY <1>5, <1>6

LEMMA UnionKeeps ==
  ASSUME IInv, Union
  PROVE  IInv'
<1> DEFINE a_s == start_at(x, ai)
           b_s == start_at(y, bi)
           next == IF a_s <= b_s THEN x[ai] ELSE y[bi]
           Taken(r) == IF reaches(r.start)
                       THEN /\ c' = [c EXCEPT !.hi = Max({@, end(r)})]
                            /\ UNCHANGED << out, card >>
                       ELSE /\ Emit(c.lo, c.hi)
                            /\ c' = [lo |-> r.start, hi |-> end(r)]
           Good == /\ Mark(x, y, ai', bi', Values(out'), c'.lo, c'.hi)
                   /\ EndsBefore(out', 1, c'.lo)
                   /\ Kept(out') /\ Kept(out)' /\ card' = Cardinality(Values(out'))
                   /\ card' \in 0 .. WIDTH
                   /\ Len(out') \in Nat /\ Len(out') <= Len(out) + 1
                   /\ c' \in [lo : 0 .. WIDTH, hi : Value]
           Moved == \/ ai \in 1 .. Len(x) /\ ai' = ai + 1 /\ bi' = bi
                    \/ bi \in 1 .. Len(y) /\ bi' = bi + 1 /\ ai' = ai
<1>1. /\ phase = "kernel" /\ op = "union" /\ ~ copies /\ ~ Exhausted
      /\ IF a_s <= b_s THEN ai' = ai + 1 /\ bi' = bi ELSE bi' = bi + 1 /\ ai' = ai
      /\ Taken(next)
      /\ UNCHANGED fold /\ UNCHANGED << phase, bj >>
  BY DEF Union
<1>2. /\ Runs(x) /\ Runs(y) /\ Runs(out) /\ Kept(x) /\ Kept(y) /\ Kept(out)
      /\ Len(x) \in Nat /\ Len(y) \in Nat /\ Len(out) \in Nat
      /\ ai \in 1 .. Len(x) + 1 /\ bi \in 1 .. Len(y) + 1 /\ Gaps \subseteq {0, 1}
  BY <1>1, KernelFacts
<1>3. UnionInv
  BY <1>1 DEF IInv, KernelInv
<1>4. /\ \A i \in 1 .. Len(x) : x[i].start \in Int /\ x[i].start < NONE
      /\ \A i \in 1 .. Len(y) : y[i].start \in Int /\ y[i].start < NONE
      /\ NONE \in Int
  <2>1. NONE \in Int /\ \A v \in Value : v \in Int /\ v < NONE
    BY LastIsNat DEF NONE
  <2>2. ASSUME NEW i \in 1 .. Len(x) PROVE x[i].start \in Int /\ x[i].start < NONE
    <3>1. x[i].start \in Value
      BY <1>2, RunsFacts
    <3> QED
      BY <2>1, <3>1
  <2>3. ASSUME NEW i \in 1 .. Len(y) PROVE y[i].start \in Int /\ y[i].start < NONE
    <3>1. y[i].start \in Value
      BY <1>2, RunsFacts
    <3> QED
      BY <2>1, <3>1
  <2> QED
    BY <2>1, <2>2, <2>3
<1>5. /\ ai <= Len(x) => ai \in 1 .. Len(x) /\ a_s = x[ai].start
      /\ ~ (ai <= Len(x)) => a_s = NONE
      /\ bi <= Len(y) => bi \in 1 .. Len(y) /\ b_s = y[bi].start
      /\ ~ (bi <= Len(y)) => b_s = NONE
  BY <1>2 DEF start_at
<1>6. ai <= Len(x) \/ bi <= Len(y)
  BY <1>1, <1>5 DEF Exhausted
<1>7. /\ Mark(x, y, ai, bi, Values(out), c.lo, c.hi) /\ Before(1, c.lo)
      /\ Mark(y, x, bi, ai, Values(out), c.lo, c.hi)
  BY <1>3, MarkSwapped DEF UnionInv
<1> HIDE DEF a_s, b_s
<1>8. ASSUME a_s <= b_s PROVE Good /\ Moved
  <2>1. ai <= Len(x) /\ (bi <= Len(y) => x[ai].start <= y[bi].start) /\ ai \in 1 .. Len(x)
    BY <1>4, <1>5, <1>6, <1>8
  <2>2. Taken(x[ai]) /\ ai' = ai + 1 /\ bi' = bi
    BY <1>1, <1>8
  <2>3. /\ Mark(x, y, ai + 1, bi, Values(out'), c'.lo, c'.hi) /\ EndsBefore(out', 1, c'.lo)
        /\ Kept(out') /\ Kept(out)' /\ card' = Cardinality(Values(out')) /\ card' \in 0 .. WIDTH
        /\ Len(out') \in Nat /\ Len(out') <= Len(out) + 1
        /\ c' \in [lo : 0 .. WIDTH, hi : Value]
    BY <1>1, <1>2, <1>7, <2>1, <2>2, UnionTurn
  <2>4. Good
    BY <2>2, <2>3
  <2>5. Moved
    BY <2>1, <2>2
  <2> QED
    BY <2>4, <2>5
<1>9. ASSUME ~ (a_s <= b_s) PROVE Good /\ Moved
  <2>1. bi <= Len(y) /\ (ai <= Len(x) => y[bi].start <= x[ai].start) /\ bi \in 1 .. Len(y)
    BY <1>4, <1>5, <1>6, <1>9
  <2>2. Taken(y[bi]) /\ bi' = bi + 1 /\ ai' = ai
    BY <1>1, <1>9
  <2>3. /\ Mark(y, x, bi + 1, ai, Values(out'), c'.lo, c'.hi) /\ EndsBefore(out', 1, c'.lo)
        /\ Kept(out') /\ Kept(out)' /\ card' = Cardinality(Values(out')) /\ card' \in 0 .. WIDTH
        /\ Len(out') \in Nat /\ Len(out') <= Len(out) + 1
        /\ c' \in [lo : 0 .. WIDTH, hi : Value]
    BY <1>1, <1>2, <1>7, <2>1, <2>2, UnionTurn
  <2>4. Good
    BY <2>2, <2>3, MarkSwapped
  <2>5. Moved
    BY <2>1, <2>2
  <2> QED
    BY <2>4, <2>5
<1>10. Good /\ Moved
  <2> HIDE DEF Good, Moved
  <2> QED
    BY <1>8, <1>9
<1>18. /\ ai' \in 1 .. Len(x) + 1 /\ bi' \in 1 .. Len(y) + 1
       /\ (ai' - 1) + (bi' - 1) = (ai - 1) + (bi - 1) + 1
  <2>1. Moved
    BY <1>10
  <2>2. CASE ai \in 1 .. Len(x) /\ ai' = ai + 1 /\ bi' = bi
    BY <1>2, <2>2
  <2>3. CASE bi \in 1 .. Len(y) /\ bi' = bi + 1 /\ ai' = ai
    BY <1>2, <2>3
  <2> QED
    BY <2>1, <2>2, <2>3
<1>11. InputsInv' /\ FoldInv' /\ Gaps' = Gaps /\ copies' = copies /\ bound' = bound
  BY <1>1, FoldUnchanged
<1>12. x' = x /\ y' = y /\ op' = op
  BY <1>1 DEF fold
<1>13. Len(out') + 1 <= (ai' - 1) + (bi' - 1) /\ Len(out') <= Len(x) + Len(y)
  <2>1. Len(out') <= Len(out) + 1 /\ Len(out') \in Nat /\ Len(out) + 1 <= (ai - 1) + (bi - 1)
    BY <1>3, <1>10 DEF UnionInv
  <2> DEFINE n == Len(out')
             m == Len(out)
             before == (ai - 1) + (bi - 1)
             after == (ai' - 1) + (bi' - 1)
             all == Len(x) + Len(y)
  <2>2. before \in Int /\ after \in Int /\ all \in Int /\ after <= all /\ after = before + 1
    <3>1. /\ ai \in Int /\ bi \in Int /\ ai' \in Int /\ bi' \in Int /\ Len(x) \in Int /\ Len(y) \in Int
          /\ ai' <= Len(x) + 1 /\ bi' <= Len(y) + 1
      BY <1>2, <1>18
    <3>2. after = before + 1
      BY <1>18
    <3>3. before \in Int /\ after \in Int /\ all \in Int
      BY <3>1
    <3>4. after <= all
      BY <3>1
    <3> QED
      BY <3>2, <3>3, <3>4
  <2>3. n \in Int /\ m \in Int /\ n <= m + 1 /\ m + 1 <= before
    BY <1>2, <2>1
  <2> HIDE DEF n, m, before, after, all
  <2>4. n + 1 <= after /\ n <= all
    BY <2>2, <2>3
  <2> QED
    BY <2>4 DEF n, after, all
<1>14. UnionInv'
  BY <1>10, <1>12, <1>13 DEF UnionInv, Before
<1>15. Types'
  <2>1. out' \in Seq(Run) /\ c'.lo \in 0 .. WIDTH /\ c'.hi \in Value
    BY <1>10 DEF Kept
  <2> QED
    BY <1>1, <1>10, <1>12, <1>18, <2>1 DEF IInv, Types, TypeOK, fold
<1>16. OutInv'
  BY <1>1, <1>10, <1>11, <1>12, <1>13 DEF OutInv, bound
<1>17. KernelInv'
  BY <1>1, <1>12, <1>14 DEF KernelInv
<1> QED
  BY <1>11, <1>15, <1>16, <1>17 DEF IInv

----------------------------------------------------------------------------
\* Difference.

LEMMA DiffKeeps ==
  ASSUME IInv, Diff
  PROVE  IInv'
<1> DEFINE a == x[ai].start
           ae == end(x[ai])
           S == {j \in skip_from .. Len(y) + 1 : j > Len(y) \/ end(y[j]) >= a}
<1>1. /\ phase = "kernel" /\ op = "diff" /\ ~ copies /\ ai <= Len(x)
      /\ c' = [lo |-> a, hi |-> ae] /\ bi' = Min(S) /\ bj' = bi' /\ phase' = "cut"
      /\ UNCHANGED fold /\ out' = out /\ card' = card /\ ai' = ai
  <2>1. c' = [lo |-> a, hi |-> ae] /\ c'.lo = a
    BY DEF Diff
  <2> QED
    BY <2>1 DEF Diff
<1>2. /\ Runs(x) /\ Runs(y) /\ Runs(out) /\ Kept(out)
      /\ Len(x) \in Nat /\ Len(y) \in Nat /\ Len(out) \in Nat
      /\ ai \in 1 .. Len(x) /\ bi \in 1 .. Len(y) + 1 /\ Gaps \subseteq {0, 1} /\ 0 \in Gaps
  BY <1>1, KernelFacts
<1>3. DiffInv
  BY <1>1 DEF IInv, KernelInv
<1>4. /\ a \in Value /\ a \in Int /\ ae \in Value /\ ae \in Int /\ a <= ae
      /\ \A j \in 1 .. Len(y) : end(y[j]) \in Int
  BY <1>2, RunsFacts
<1>5. /\ bi' \in S /\ \A j \in S : bi' <= j
  <2>1. S \subseteq Nat /\ Len(y) + 1 \in S
    BY <1>2 DEF skip_from
  <2>2. \E n \in S : \A j \in S : n <= j
    BY <2>1, LeastNatural
  <2> HIDE DEF S
  <2> QED
    BY <1>1, <2>2 DEF Min
<1>6. bi' \in bi .. Len(y) + 1 /\ bi' \in Int /\ (bi' <= Len(y) => end(y[bi']) >= a)
  BY <1>2, <1>5 DEF skip_from
<1>7. \A j \in 1 .. bi' - 1 : end(y[j]) < a
  <2> SUFFICES ASSUME NEW j \in 1 .. bi' - 1 PROVE end(y[j]) < a
    OBVIOUS
  <2>1. CASE j < bi
    <3>1. j \in 1 .. bi - 1
      BY <1>2, <1>6, <2>1
    <3> QED
      BY <1>1, <1>3, <3>1 DEF DiffInv
  <2>2. CASE ~ (j < bi)
    <3> DEFINE k == bi'
               l == Len(y)
    <3>1. k \in Int /\ l \in Nat /\ k <= l + 1 /\ bi \in Int /\ 1 <= bi
      BY <1>2, <1>6
    <3>2. j \in 1 .. k - 1 /\ ~ (j < bi)
      BY <2>2
    <3> HIDE DEF k, l
    <3>3. j \in bi .. l + 1 /\ ~ (k <= j) /\ j \in 1 .. l
      BY <3>1, <3>2
    <3>4. j \in bi .. Len(y) + 1 /\ ~ (bi' <= j) /\ j \in 1 .. Len(y)
      BY <3>3 DEF k, l
    <3>5. ~ (end(y[j]) >= a)
      BY <1>5, <3>4 DEF skip_from
    <3> QED
      BY <1>4, <3>4, <3>5
  <2> QED
    BY <2>1, <2>2
<1>8. InputsInv' /\ FoldInv' /\ Gaps' = Gaps /\ copies' = copies /\ bound' = bound
  BY <1>1, FoldUnchanged
<1>9. x' = x /\ y' = y /\ op' = op
  BY <1>1 DEF fold
<1>10. c'.lo = a /\ c'.hi = ae
  BY <1>1
<1>11. \A g \in Gaps : EndsBefore(out, g, a)
  BY <1>1, <1>3 DEF DiffInv, Before
<1>12. CutInv'
  <2>1. Values(out) = {v \in Values(x) \ Values(y) : v < a /\ v <= ae}
    <3>1. \A v \in Values(x) : Below(x, ai, v) <=> v < a /\ v <= ae
      <4>1. \A v \in Values(x) : v \in Int
        BY <1>2, InValues, LastIsNat
      <4> QED
        BY <1>1, <1>4, <4>1 DEF Below
    <3>2. Values(out) = {v \in Values(x) \ Values(y) : Below(x, ai, v)}
      BY <1>3 DEF DiffInv
    <3> HIDE DEF a, ae
    <3> QED
      BY <3>1, <3>2
  <2>2. EndsBefore(out, 0, ae + 1)
    <3>1. EndsBefore(out, 0, a) /\ 0 - 0 <= (ae + 1) - a /\ ae + 1 \in Int
      BY <1>2, <1>4, <1>11
    <3> QED
      BY <1>2, <1>4, <3>1, EndsLater
  <2>3. \E m \in 0 .. Len(y) :
          /\ Len(out) <= (ai - 1) + m
          /\ m > 0 => y[m].start < a /\ y[m].start <= ae
    <3>1. PICK m \in 0 .. Len(y) :
            /\ Len(out) <= (ai - 1) + m
            /\ ai <= Len(x) /\ m > 0 => y[m].start < a
      BY <1>3 DEF DiffInv
    <3>2. m > 0 => y[m].start \in Int
      BY <1>2, RunsFacts
    <3>3. m > 0 => y[m].start < a /\ y[m].start <= ae
      BY <1>1, <1>4, <3>1, <3>2
    <3> QED
      BY <3>1, <3>3
  <2>4. x[ai].start <= a
    BY <1>4
  <2> HIDE DEF a, ae
  <2>5. ae = end(x[ai])
    BY DEF ae
  <2>6. bj' <= Len(y') => c'.lo <= end(y'[bj'])
    BY <1>1, <1>4, <1>6, <1>9, <1>10
  <2>7. \A g \in Gaps' : EndsBefore(out', g, c'.lo)
    BY <1>1, <1>8, <1>10, <1>11
  <2>8. /\ \A j \in 1 .. bj' - 1 : end(y'[j]) < c'.lo
        /\ \A j \in 1 .. bi' - 1 : end(y'[j]) < x'[ai'].start
    BY <1>1, <1>7, <1>9, <1>10 DEF a
  <2> QED
    BY <1>1, <1>9, <1>10, <2>1, <2>2, <2>3, <2>4, <2>5, <2>6, <2>7, <2>8 DEF CutInv, Before
<1>13. Types'
  <2>1. c' \in [lo : 0 .. WIDTH, hi : Value] /\ c'.lo \in 0 .. WIDTH /\ c'.hi \in Value
    BY <1>1, <1>4, LastIsNat
  <2>2. bi' \in 1 .. Len(y) + 1
    BY <1>2, <1>6
  <2> QED
    BY <1>1, <1>9, <2>1, <2>2 DEF IInv, Types, TypeOK, fold
<1>14. OutInv'
  <2>1. Kept(out)'
    BY <1>1, <1>2, <1>8 DEF Kept
  <2> QED
    BY <1>1, <1>8, <1>9, <2>1 DEF IInv, OutInv
<1>15. KernelInv'
  BY <1>1, <1>12 DEF KernelInv
<1> QED
  BY <1>8, <1>13, <1>14, <1>15 DEF IInv

\* What is left of a run of x, up to the next run of y, is in x alone.
LEMMA OnlyInFirst ==
  ASSUME NEW s, Runs(s), NEW t, Runs(t), NEW i \in 1 .. Len(s), NEW j \in 1 .. Len(t) + 1,
         NEW lo \in Int, s[i].start <= lo, \A k \in 1 .. j - 1 : end(t[k]) < lo,
         NEW v \in Value, lo <= v, v <= end(s[i]), Below(t, j, v)
  PROVE  v \in Values(s) /\ v \notin Values(t)
<1>1. /\ Len(s) \in Nat /\ Len(t) \in Nat /\ v \in Int /\ s[i].start \in Int /\ end(s[i]) \in Int
      /\ \A k \in 1 .. Len(t) : end(t[k]) \in Int
  BY RunsFacts, LastIsNat
<1>2. s[i].start <= v
  BY <1>1
<1>3. v \in Values(s)
  BY <1>2, InValues
<1>4. \A k \in 1 .. j - 1 : end(t[k]) <= lo - 1
  BY <1>1
<1>5. v \notin Values(t)
  <2> SUFFICES ASSUME v \in Values(t) PROVE FALSE
    OBVIOUS
  <2>1. v <= lo - 1
    BY <1>4, BelowTaken
  <2> QED
    BY <1>1, <2>1
<1> QED
  BY <1>3, <1>5

LEMMA CutKeeps ==
  ASSUME IInv, Cut
  PROVE  IInv'
<1> DEFINE s == y[bj].start
           e == end(y[bj])
           b == s > c.lo
           n == e + 1
<1>1. /\ phase = "cut" /\ bj <= Len(y) /\ c.lo <= c.hi /\ s <= c.hi
      /\ EmitIf(b, c.lo, s - 1) /\ c' = [c EXCEPT !.lo = n] /\ bj' = bj + 1
      /\ UNCHANGED fold /\ phase' = phase /\ ai' = ai /\ bi' = bi
  BY DEF Cut, Cuts, past
<1>2. /\ Runs(x) /\ Runs(y) /\ Runs(out) /\ Kept(out)
      /\ Len(x) \in Nat /\ Len(y) \in Nat /\ Len(out) \in Nat
      /\ ai \in 1 .. Len(x) + 1 /\ bj \in 1 .. Len(y) /\ Gaps \subseteq {0, 1} /\ 0 \in Gaps
      /\ c.lo \in 0 .. WIDTH /\ c.hi \in Value /\ c = [lo |-> c.lo, hi |-> c.hi]
  BY <1>1, KernelFacts
<1>3. CutInv /\ op = "diff" /\ ~ copies
  BY <1>1 DEF IInv, KernelInv, FoldInv
<1>4. /\ s \in Value /\ s \in Int /\ e \in Value /\ e \in Int /\ s <= e /\ n \in Int
      /\ c.lo \in Int /\ c.hi \in Int /\ c.lo \in Value /\ c.lo <= e /\ ai \in 1 .. Len(x)
      /\ c.lo < n /\ e < n /\ n \in 0 .. WIDTH
  <2>1. s \in Value /\ e \in Value /\ s <= e
    BY <1>2, RunsFacts
  <2>2. c.lo <= e /\ ai <= Len(x)
    BY <1>1, <1>3 DEF CutInv
  <2>3. LAST \in Nat /\ s \in 0 .. LAST /\ e \in 0 .. LAST /\ c.hi \in 0 .. LAST /\ WIDTH = LAST + 1
    BY <1>2, <2>1, LastIsNat
  <2>4. c.lo \in 0 .. LAST /\ c.lo \in Value
    BY <1>1, <1>2, <2>3, LastIsNat
  <2>5. ai \in 1 .. Len(x)
    BY <1>2, <2>2
  <2> HIDE DEF s, e
  <2>6. s \in Int /\ e \in Int /\ n \in Int /\ c.lo < n /\ e < n /\ n \in 0 .. WIDTH
        /\ c.lo \in Int /\ c.hi \in Int
    BY <2>2, <2>3, <2>4
  <2> QED
    BY <2>1, <2>2, <2>4, <2>5, <2>6
<1>5. /\ x[ai].start \in Int /\ x[ai].start <= c.lo /\ c.hi = end(x[ai])
  BY <1>2, <1>3, <1>4, RunsFacts DEF CutInv
<1>6. c' = [lo |-> n, hi |-> c.hi] /\ c'.lo = n /\ c'.hi = c.hi
  BY <1>1, <1>2
<1>7. Below(y, bj, s - 1)
  BY <1>4 DEF Below
<1>8. /\ Kept(out') /\ Kept(out)' /\ card' = Cardinality(Values(out')) /\ card' \in 0 .. WIDTH
      /\ Len(out') = Len(out) + (IF b THEN 1 ELSE 0)
      /\ Values(out') = Values(out) \cup (IF b THEN c.lo .. s - 1 ELSE {})
      /\ b => \A g, v : EndsBefore(out', g, v) <=> (s - 1) + g < v
      /\ ~ b => out' = out
  <2>1. b \in BOOLEAN
    OBVIOUS
  <2>2. b => c.lo \in Value /\ s - 1 \in Value /\ c.lo <= s - 1 /\ \A g \in Gaps : Before(g, c.lo)
    <3> SUFFICES ASSUME s > c.lo
                 PROVE  c.lo \in Value /\ s - 1 \in Value /\ c.lo <= s - 1 /\ \A g \in Gaps : Before(g, c.lo)
      OBVIOUS
    <3>1. \A g \in Gaps : Before(g, c.lo)
      BY <1>3 DEF CutInv
    <3>2. c.lo \in 0 .. LAST /\ s \in 0 .. LAST /\ LAST \in Nat
      BY <1>4, LastIsNat
    <3>3. s - 1 \in 0 .. LAST /\ c.lo <= s - 1
      BY <3>2
    <3> QED
      BY <1>4, <3>1, <3>3, LastIsNat
  <2>3. EmitIf(b, c.lo, s - 1) /\ UNCHANGED fold /\ phase \in {"kernel", "cut"}
    BY <1>1
  <2> HIDE DEF b
  <2> QED
    BY <2>1, <2>2, <2>3, EmitKeeps
<1>9. InputsInv' /\ FoldInv' /\ Gaps' = Gaps /\ copies' = copies /\ bound' = bound
  BY <1>1, <1>3, FoldUnchanged
<1>10. x' = x /\ y' = y /\ op' = op
  BY <1>1 DEF fold
<1>11. Values(out') = {v \in Values(x) \ Values(y) : v < n /\ v <= c.hi}
  <2>1. Values(out) = {v \in Values(x) \ Values(y) : v < c.lo /\ v <= c.hi}
    BY <1>3 DEF CutInv
  <2>2. ASSUME NEW v \in Value
        PROVE  (v < n /\ v <= c.hi /\ v \in Values(x) \ Values(y)) <=>
                 \/ v < c.lo /\ v <= c.hi /\ v \in Values(x) \ Values(y)
                 \/ b /\ v \in c.lo .. s - 1
    <3>1. v \in Int
      BY LastIsNat
    <3>2. s <= v /\ v <= e => v \in Values(y)
      BY <1>2, InValues
    <3>3. c.lo <= v /\ v < s => v <= c.hi /\ v \in Values(x) \ Values(y)
      <4> SUFFICES ASSUME c.lo <= v, v < s PROVE v <= c.hi /\ v \in Values(x) \ Values(y)
        OBVIOUS
      <4>1. v <= c.hi
        BY <1>1, <1>4, <3>1
      <4>2. Below(y, bj, v)
        BY DEF Below
      <4>3. \A k \in 1 .. bj - 1 : end(y[k]) < c.lo
        BY <1>3 DEF CutInv
      <4>4. bj \in 1 .. Len(y) + 1
        BY <1>2
      <4>5. v \in Values(x) \ Values(y)
        <5>1. v <= end(x[ai]) /\ c.lo \in Int /\ ai \in 1 .. Len(x) /\ x[ai].start <= c.lo /\ c.lo <= v
          BY <1>4, <1>5, <4>1
        <5>2. Runs(x) /\ Runs(y)
          BY <1>2
        <5>3. v \in Values(x) /\ v \notin Values(y)
          BY <4>2, <4>3, <4>4, <5>1, <5>2, OnlyInFirst
        <5> QED
          BY <5>3
      <4> QED
        BY <4>1, <4>5
    <3>4. v \in c.lo .. s - 1 <=> c.lo <= v /\ v < s
      BY <1>4, <3>1
    <3>5. v < n <=> v <= e
      BY <1>4, <3>1
    <3>6. b <=> c.lo < s
      BY <1>4
    <3>7. v <= e /\ ~ (s <= v /\ v <= e) /\ ~ (v < c.lo) => c.lo <= v /\ v < s
      BY <1>4, <3>1
    <3>8. v < c.lo => v <= e
      BY <1>4, <3>1
    <3>9. c.lo <= v /\ v < s => v <= e /\ c.lo < s
      BY <1>4, <3>1
    <3> HIDE DEF s, e, b, n
    <3> QED
      BY <3>2, <3>3, <3>4, <3>5, <3>6, <3>7, <3>8, <3>9
  <2>3. Values(x) \subseteq Value
    BY <1>2, InValues
  <2>4. c.lo .. s - 1 \subseteq Value
    BY SMTT(60), <1>4, LastIsNat
  <2> DEFINE cut == c.lo .. s - 1
  <2>5. \A v \in Value :
          (v < n /\ v <= c.hi /\ v \in Values(x) \ Values(y)) <=>
             \/ v < c.lo /\ v <= c.hi /\ v \in Values(x) \ Values(y)
             \/ b /\ v \in cut
    BY <2>2
  <2>6. Values(out') = Values(out) \cup (IF b THEN cut ELSE {}) /\ cut \subseteq Value
    BY <1>8, <2>4
  <2> HIDE DEF b, n, cut
  <2> QED
    BY <2>1, <2>3, <2>5, <2>6
<1>12. \A j \in 1 .. bj : end(y[j]) < n
  <2> SUFFICES ASSUME NEW j \in 1 .. bj, j # bj PROVE end(y[j]) < n
    BY <1>4
  <2>1. j \in 1 .. bj - 1 /\ j \in 1 .. Len(y)
    BY <1>2
  <2>2. end(y[j]) < c.lo /\ end(y[j]) \in Int
    BY <1>2, <1>3, <2>1, RunsFacts DEF CutInv
  <2> QED
    BY <1>4, <2>2
<1>13. bj + 1 <= Len(y) => n <= end(y[bj + 1])
  <2> SUFFICES ASSUME bj + 1 <= Len(y) PROVE n <= end(y[bj + 1])
    OBVIOUS
  <2>1. bj + 1 \in 1 .. Len(y)
    BY <1>2
  <2>2. e < y[bj + 1].start /\ y[bj + 1].start \in Int
    BY <1>2, NextStart
  <2>3. y[bj + 1].start <= end(y[bj + 1]) /\ end(y[bj + 1]) \in Int
    BY <1>2, <2>1, RunsFacts
  <2> QED
    BY <1>4, <2>2, <2>3
<1>14. ASSUME NEW g \in Gaps
       PROVE  EndsBefore(out', g, n)
  <2>1. g \in {0, 1}
    BY <1>2
  <2>2. CASE b
    <3>1. (s - 1) + g < n
      BY <1>4, <2>1
    <3> QED
      BY <1>8, <2>2, <3>1
  <2>3. CASE ~ b
    <3>1. EndsBefore(out, g, c.lo) /\ g - g <= n - c.lo
      BY SMTT(60), <1>3, <1>4, <2>1 DEF CutInv, Before
    <3> QED
      BY <1>2, <1>4, <1>8, <2>1, <2>3, <3>1, EndsLater
  <2> QED
    BY <2>2, <2>3
<1>15. EndsBefore(out', 0, c.hi + 1)
  <2>1. CASE b
    <3>1. (s - 1) + 0 < c.hi + 1
      BY <1>1, <1>4
    <3> QED
      BY <1>8, <2>1, <3>1
  <2>2. CASE ~ b
    BY <1>3, <1>8, <2>2 DEF CutInv, Before
  <2> QED
    BY <2>1, <2>2
<1>16. \E m \in 0 .. Len(y) :
         /\ Len(out') <= (ai - 1) + m
         /\ m > 0 => y[m].start < n /\ y[m].start <= c.hi
  <2>1. PICK m \in 0 .. Len(y) :
          /\ Len(out) <= (ai - 1) + m
          /\ m > 0 => y[m].start < c.lo /\ y[m].start <= c.hi
    BY <1>3 DEF CutInv
  <2>2. m > 0 => m \in 1 .. Len(y) /\ y[m].start \in Int
    BY <1>2, RunsFacts
  <2>3. CASE b
    <3>1. m < bj
      <4> SUFFICES ASSUME m >= bj PROVE FALSE
        BY <1>2
      <4>1. m > 0 /\ y[m].start < c.lo
        BY <1>2, <2>1
      <4>2. CASE m = bj
        BY <1>4, <2>3, <4>1, <4>2
      <4>3. CASE m > bj
        <5>1. e < y[m].start
          BY <1>2, <2>2, <4>1, <4>3, Ascending
        <5> QED
          BY <1>4, <2>2, <4>1, <5>1
      <4> QED
        BY <1>2, <4>2, <4>3
    <3>2. Len(out') <= (ai - 1) + bj
      BY SMTT(60), <1>2, <1>4, <1>8, <2>1, <2>3, <3>1
    <3>3. s < n /\ s <= c.hi /\ bj \in 0 .. Len(y)
      BY SMTT(60), <1>1, <1>2, <1>4
    <3> QED
      BY <3>2, <3>3
  <2>4. CASE ~ b
    <3>1. m > 0 => y[m].start < n /\ y[m].start <= c.hi
      BY <1>4, <2>1, <2>2
    <3>2. Len(out') <= (ai - 1) + m
      BY <1>8, <2>1, <2>4
    <3> QED
      BY <3>1, <3>2
  <2> QED
    BY <2>3, <2>4
<1>17. x[ai].start <= n
  BY <1>4, <1>5
<1>18. Len(out') <= Len(x) + Len(y)
  <2>1. PICK m \in 0 .. Len(y) : Len(out') <= (ai - 1) + m
    BY <1>16
  <2>2. Len(out') \in Nat
    BY <1>2, <1>8
  <2> QED
    BY SMTT(60), <1>2, <1>4, <2>1, <2>2
<1>19. CutInv'
  <2>1. bj' - 1 = bj
    BY <1>1, <1>2
  <2>2. \A j \in 1 .. bi - 1 : end(y[j]) < x[ai].start
    BY <1>3 DEF CutInv
  <2> HIDE DEF n
  <2> QED
    BY SMTT(60), <1>1, <1>4, <1>5, <1>6, <1>9, <1>10, <1>11, <1>12, <1>13, <1>14, <1>15, <1>16, <1>17, <2>1, <2>2
       DEF CutInv, Before
<1>20. Types'
  <2>1. c' \in [lo : 0 .. WIDTH, hi : Value] /\ c'.lo \in 0 .. WIDTH /\ c'.hi \in Value
    BY <1>2, <1>4, <1>6
  <2>2. out' \in Seq(Run) /\ bj' \in 1 .. Len(y) + 1
    BY SMTT(60), <1>1, <1>2, <1>8 DEF Kept
  <2> QED
    BY <1>1, <1>8, <1>10, <2>1, <2>2 DEF IInv, Types, TypeOK, fold
<1>21. OutInv'
  BY <1>1, <1>8, <1>9, <1>10, <1>18 DEF OutInv, bound
<1>22. KernelInv'
  BY <1>1, <1>19 DEF KernelInv
<1> QED
  BY <1>9, <1>20, <1>21, <1>22 DEF IInv

LEMMA CutDoneKeeps ==
  ASSUME IInv, CutDone
  PROVE  IInv'
<1> DEFINE b == c.lo <= c.hi
<1>1. /\ phase = "cut" /\ ~ Cuts /\ EmitIf(b, c.lo, c.hi) /\ ai' = ai + 1 /\ phase' = "kernel"
      /\ UNCHANGED fold /\ bi' = bi /\ bj' = bj /\ c' = c
  BY DEF CutDone
<1>2. /\ Runs(x) /\ Runs(y) /\ Runs(out) /\ Kept(x) /\ Kept(out)
      /\ Len(x) \in Nat /\ Len(y) \in Nat /\ Len(out) \in Nat
      /\ ai \in 1 .. Len(x) + 1 /\ bi \in 1 .. Len(y) + 1 /\ bj \in 1 .. Len(y) + 1
      /\ Gaps \subseteq {0, 1} /\ 0 \in Gaps
      /\ c.lo \in 0 .. WIDTH /\ c.hi \in Value
  BY <1>1, KernelFacts
<1>3. CutInv /\ op = "diff" /\ ~ copies
  BY <1>1 DEF IInv, KernelInv, FoldInv
<1>4. /\ c.lo \in Int /\ c.hi \in Int /\ (b => c.lo \in Value) /\ ai \in 1 .. Len(x)
  <2>1. ai <= Len(x)
    BY <1>3 DEF CutInv
  <2> QED
    BY <1>2, <2>1, LastIsNat
<1>5. /\ x[ai].start \in Int /\ x[ai].start <= c.lo /\ c.hi = end(x[ai]) /\ x[ai].start <= c.hi
  BY <1>2, <1>3, <1>4, RunsFacts DEF CutInv
<1>6. /\ Kept(out') /\ Kept(out)' /\ card' = Cardinality(Values(out')) /\ card' \in 0 .. WIDTH
      /\ Len(out') = Len(out) + (IF b THEN 1 ELSE 0)
      /\ Values(out') = Values(out) \cup (IF b THEN c.lo .. c.hi ELSE {})
      /\ b => \A g, v : EndsBefore(out', g, v) <=> c.hi + g < v
      /\ ~ b => out' = out
  <2>1. b \in BOOLEAN
    OBVIOUS
  <2>2. b => c.lo \in Value /\ c.hi \in Value /\ c.lo <= c.hi /\ \A g \in Gaps : Before(g, c.lo)
    BY <1>2, <1>3, <1>4 DEF CutInv
  <2>3. EmitIf(b, c.lo, c.hi) /\ UNCHANGED fold /\ phase \in {"kernel", "cut"}
    BY <1>1
  <2> HIDE DEF b
  <2> QED
    BY <2>1, <2>2, <2>3, EmitKeeps
<1>7. InputsInv' /\ FoldInv' /\ Gaps' = Gaps /\ copies' = copies /\ bound' = bound
  BY <1>1, FoldUnchanged
<1>8. x' = x /\ y' = y /\ op' = op
  BY <1>1 DEF fold
<1>9. ai + 1 <= Len(x) => c.hi < x[ai + 1].start /\ x[ai + 1].start \in Int
  BY <1>2, <1>4, <1>5, NextStart
<1>10. Values(out') = {v \in Values(x) \ Values(y) : Below(x, ai + 1, v)}
  <2>1. Values(out) = {v \in Values(x) \ Values(y) : v < c.lo /\ v <= c.hi}
    BY <1>3 DEF CutInv
  <2>2. ASSUME NEW v \in Value
        PROVE  v \in Values(x) \ Values(y) /\ Below(x, ai + 1, v) <=>
                 \/ v \in Values(x) \ Values(y) /\ v < c.lo /\ v <= c.hi
                 \/ v \in c.lo .. c.hi
    <3>1. v \in Int
      BY LastIsNat
    <3>2. ASSUME v \in Values(x)
          PROVE  Below(x, ai + 1, v) <=> v <= c.hi
      <4>1. ASSUME Below(x, ai + 1, v), v >= x[ai].start PROVE v <= c.hi
        <5>1. ai < Len(x) => v < x[ai + 1].start
          BY <1>2, <1>4, <4>1 DEF Below
        <5> QED
          BY <1>2, <1>4, <1>5, <3>2, <4>1, <5>1, Locate
      <4>2. ASSUME v <= c.hi PROVE Below(x, ai + 1, v)
        BY <1>4, <1>9, <3>1, <4>2 DEF Below
      <4>3. v < x[ai].start => v <= c.hi
        BY <1>4, <1>5, <3>1
      <4> QED
        BY <1>5, <3>1, <4>1, <4>2, <4>3
    <3>3. ASSUME c.lo <= v, v <= c.hi
          PROVE  v \in Values(x) /\ v \notin Values(y)
      <4>1. Below(y, bj, v)
        <5> SUFFICES ASSUME bj <= Len(y) PROVE v < y[bj].start
          BY DEF Below
        <5>1. c.lo <= c.hi
          BY <1>4, <3>1, <3>3
        <5>2. ~ (y[bj].start <= c.hi)
          BY <1>1, <5>1 DEF Cuts
        <5>3. y[bj].start \in Int
          BY <1>2, RunsFacts
        <5> QED
          BY <1>4, <3>1, <3>3, <5>2, <5>3
      <4>2. \A k \in 1 .. bj - 1 : end(y[k]) < c.lo
        BY <1>3 DEF CutInv
      <4>3. v <= end(x[ai]) /\ c.lo \in Int /\ ai \in 1 .. Len(x) /\ x[ai].start <= c.lo /\ c.lo <= v
        BY <1>4, <1>5, <3>3
      <4>4. Runs(x) /\ Runs(y) /\ bj \in 1 .. Len(y) + 1
        BY <1>2
      <4> QED
        BY <4>1, <4>2, <4>3, <4>4, OnlyInFirst
    <3>4. v \in c.lo .. c.hi <=> c.lo <= v /\ v <= c.hi
      BY <1>4, <3>1
    <3>5. c.lo <= v \/ v < c.lo
      BY <1>4, <3>1
    <3> QED
      BY <3>2, <3>3, <3>4, <3>5
  <2>3. Values(x) \subseteq Value
    BY <1>2, InValues
  <2> DEFINE left == c.lo .. c.hi
  <2>4. Values(out') = Values(out) \cup left
    BY <1>4, <1>6
  <2>5. left \subseteq Value
    BY SMTT(60), <1>2, <1>4, LastIsNat
  <2>6. \A v \in Value : v \in Values(x) \ Values(y) /\ Below(x, ai + 1, v) <=>
                 \/ v \in Values(x) \ Values(y) /\ v < c.lo /\ v <= c.hi
                 \/ v \in left
    BY <2>2
  <2> HIDE DEF left
  <2> QED
    BY <2>1, <2>3, <2>4, <2>5, <2>6
<1>11. ASSUME ai + 1 <= Len(x)
       PROVE  /\ \A j \in 1 .. bi - 1 : end(y[j]) < x[ai + 1].start
              /\ \A g \in Gaps : EndsBefore(out', g, x[ai + 1].start)
  <2>1. c.hi < x[ai + 1].start /\ x[ai + 1].start \in Int
    BY <1>9, <1>11
  <2>2. ASSUME NEW j \in 1 .. bi - 1
        PROVE  end(y[j]) < x[ai + 1].start
    <3>1. j \in 1 .. Len(y)
      BY <1>2
    <3>2. end(y[j]) < x[ai].start /\ end(y[j]) \in Int
      BY <1>2, <1>3, <3>1, RunsFacts DEF CutInv
    <3> QED
      BY <1>4, <1>5, <2>1, <3>2
  <2>3. ASSUME NEW g \in Gaps
        PROVE  EndsBefore(out', g, x[ai + 1].start)
    <3>1. ai \in 1 .. Len(x) - 1 /\ g \in {0, 1}
      BY <1>2, <1>4, <1>11
    <3>2. c.hi + g < x[ai + 1].start
      BY <1>2, <1>5, <3>1 DEF Kept, Apart
    <3>3. CASE b
      BY <1>6, <3>2, <3>3
    <3>4. CASE ~ b
      <4>1. EndsBefore(out, 0, c.hi + 1) /\ c.hi + 1 \in Int
        BY <1>3, <1>4 DEF CutInv, Before
      <4>2. g - 0 <= x[ai + 1].start - (c.hi + 1)
        BY <1>4, <2>1, <3>1, <3>2
      <4> QED
        BY SMTT(60), <1>2, <1>6, <2>1, <3>1, <3>4, <4>1, <4>2, EndsLater
    <3> QED
      BY <3>3, <3>4
  <2> QED
    BY <2>2, <2>3
<1>12. PICK m \in 0 .. Len(y) :
         /\ Len(out') <= ((ai + 1) - 1) + m
         /\ ai + 1 <= Len(x) /\ m > 0 => y[m].start < x[ai + 1].start
  <2>1. PICK m \in 0 .. Len(y) :
          /\ Len(out) <= (ai - 1) + m
          /\ m > 0 => y[m].start < c.lo /\ y[m].start <= c.hi
    BY <1>3 DEF CutInv
  <2>2. m > 0 => y[m].start \in Int
    BY <1>2, RunsFacts
  <2>3. Len(out') <= ((ai + 1) - 1) + m
    BY <1>2, <1>4, <1>6, <2>1
  <2>4. ai + 1 <= Len(x) /\ m > 0 => y[m].start < x[ai + 1].start
    BY <1>4, <1>9, <2>1, <2>2
  <2> QED
    BY <2>3, <2>4
<1>13. Len(out') <= Len(x) + Len(y)
  <2>1. Len(out') \in Nat
    BY <1>2, <1>6
  <2> QED
    BY <1>2, <1>4, <1>12, <2>1
<1>14. DiffInv'
  <2>1. \A g \in Gaps' : ai' <= Len(x') => EndsBefore(out', g, x'[ai'].start)
    BY <1>1, <1>7, <1>8, <1>11
  <2>2. ai' <= Len(x') => \A j \in 1 .. bi' - 1 : end(y'[j]) < x'[ai'].start
    BY <1>1, <1>8, <1>11
  <2>3. Values(out') = {v \in Values(x') \ Values(y') : Below(x', ai', v)}
    BY <1>1, <1>8, <1>10
  <2>4. \E k \in 0 .. Len(y') :
         /\ Len(out') <= (ai' - 1) + k
         /\ ai' <= Len(x') /\ k > 0 => y'[k].start < x'[ai'].start
    BY <1>1, <1>8, <1>12
  <2> QED
    BY <2>1, <2>2, <2>3, <2>4 DEF DiffInv, Before
<1>15. Types'
  <2>1. out' \in Seq(Run) /\ ai' \in 1 .. Len(x) + 1
    BY <1>1, <1>4, <1>6 DEF Kept
  <2> QED
    BY <1>1, <1>6, <1>8, <2>1 DEF IInv, Types, TypeOK, fold
<1>16. OutInv'
  BY <1>1, <1>3, <1>6, <1>7, <1>8, <1>13 DEF OutInv, bound
<1>17. KernelInv'
  BY <1>1, <1>3, <1>8, <1>14 DEF KernelInv
<1> QED
  BY <1>7, <1>15, <1>16, <1>17 DEF IInv

----------------------------------------------------------------------------
\* The fold: calls and results.

LEMMA NoRuns ==
  ASSUME NEW s, s = << >>
  PROVE  /\ Runs(s) /\ Len(s) = 0 /\ Values(s) = {} /\ Cardinality(Values(s)) = 0
         /\ \A g, v : EndsBefore(s, g, v)
         /\ (0 \in Gaps => Kept(s))
<1>1. s \in Seq(Run) /\ Len(s) = 0
  BY EmptySeq
<1>2. \A i \in 1 .. 0 : FALSE
  OBVIOUS
<1>3. \A i \in 1 .. 0 - 1 : FALSE
  OBVIOUS
<1>4. NoWrap(s) /\ \A g : Apart(s, g)
  BY <1>1, <1>2, <1>3 DEF NoWrap, Apart
<1>5. Runs(s)
  BY <1>1, <1>4 DEF Runs
<1>6. Values(s) = {}
  BY <1>1, <1>2, <1>5, InValues
<1>7. Cardinality(Values(s)) = 0
  BY <1>6, FS_EmptySet
<1> QED
  BY <1>1, <1>4, <1>5, <1>6, <1>7 DEF EndsBefore, Kept

\* No value of a container comes before its first run.
LEMMA NothingBelowFirst ==
  ASSUME NEW s, Runs(s), NEW v \in Values(s)
  PROVE  ~ Below(s, 1, v)
<1>1. PICK k \in 1 .. Len(s) : s[k].start <= v /\ v <= end(s[k])
  BY InValues
<1>2. 1 \in 1 .. Len(s) /\ Len(s) \in Nat
  BY <1>1, RunsFacts
<1>3. 1 .. 1 - 1 = {}
  OBVIOUS
<1>4. ~ (v < s[1].start)
  BY <1>2, <1>3, Locate
<1> QED
  BY <1>2, <1>4 DEF Below

\* The state a kernel starts from.
LEMMA CallKeeps ==
  ASSUME IInv, Call
  PROVE  IInv'
<1> DEFINE s == source
           t == Head(rest)
           start == IF op = "union" THEN Seeded(s, t) ELSE [ai |-> 1, bi |-> 1, c |-> NoRange]
<1>1. /\ phase = "fold" /\ rest # << >>
      /\ x' = s /\ y' = t /\ rest' = Tail(rest) /\ phase' = "kernel"
      /\ out' = << >> /\ card' = 0 /\ bj' = 1
      /\ ai' = start.ai /\ bi' = start.bi /\ c' = start.c
      /\ UNCHANGED << op, ins, halves, in_b, nr >>
  BY DEF Call
<1>2. /\ rest \in Seq(Seq(Run)) /\ InputsInv /\ op \in {"intersect", "union", "diff"}
      /\ Len(rest) <= Len(ins) - 1 /\ \A i \in 1 .. Len(rest) : rest[i] = ins[taken + i]
      /\ Kept(s) /\ Values(s) = Folded(taken)
  BY <1>1 DEF IInv, Types, TypeOK, FoldInv
<1>3. /\ Len(rest) \in Nat \ {0} /\ t = rest[1] /\ Tail(rest) \in Seq(Seq(Run))
      /\ Len(Tail(rest)) = Len(rest) - 1
      /\ \A i \in 1 .. Len(Tail(rest)) : Tail(rest)[i] = rest[i + 1]
  BY <1>1, <1>2, HeadTailProperties, EmptySeq
<1>4. /\ Len(ins) \in Nat /\ 0 \in Gaps /\ Gaps \subseteq {0, 1}
      /\ \A i \in 1 .. Len(ins) : Kept(ins[i])
      /\ \A r : Kept(r) => Runs(r)
  BY <1>2, InputFacts
<1>5. taken \in Nat /\ taken >= 1 /\ taken + 1 \in 1 .. Len(ins) /\ taken' = taken + 1 /\ t = ins[taken + 1]
  <2>1. taken = Len(ins) - Len(rest) /\ taken' = Len(ins) - (Len(rest) - 1)
    BY <1>1, <1>3 DEF taken
  <2>2. taken \in Nat /\ taken >= 1 /\ taken + 1 \in 1 .. Len(ins) /\ taken' = taken + 1
    BY <1>2, <1>3, <1>4, <2>1
  <2>3. 1 \in 1 .. Len(rest)
    BY <1>3
  <2> QED
    BY <1>2, <1>3, <2>2, <2>3
<1>6. Kept(t) /\ Runs(t) /\ Runs(s) /\ Len(s) \in Nat /\ Len(t) \in Nat
  BY <1>2, <1>4, <1>5, RunsFacts
<1> HIDE DEF s, t
<1>7. InputsInv' /\ Gaps' = Gaps /\ op' = op
  BY <1>1, <1>2 DEF InputsInv, Gaps
<1>8. FoldInv'
  <2>1. \A i \in 1 .. Len(rest') : rest'[i] = ins'[taken' + i]
    <3> SUFFICES ASSUME NEW i \in 1 .. Len(Tail(rest)) PROVE Tail(rest)[i] = ins[(taken + 1) + i]
      BY <1>1, <1>5
    <3>1. i + 1 \in 1 .. Len(rest) /\ Tail(rest)[i] = rest[i + 1]
      BY <1>3
    <3>2. taken + (i + 1) = (taken + 1) + i
      BY <1>3, <1>5
    <3> QED
      BY <1>2, <3>1, <3>2
  <2>2. Len(rest') <= Len(ins') - 2 /\ Len(rest') <= Len(ins') - 1
    BY <1>1, <1>2, <1>3, <1>4
  <2>3. Kept(x)' /\ Kept(y)'
    BY <1>1, <1>2, <1>6, <1>7 DEF Kept
  <2>4. Values(x') = Folded(taken - 1)'
    <3>1. taken' - 1 = taken
      BY <1>5
    <3>2. Folded(taken - 1)' = Folded(taken)
      BY <1>1, <3>1 DEF Folded
    <3> QED
      BY <1>1, <1>2, <3>2
  <2>5. y' = ins'[taken']
    BY <1>1, <1>5
  <2> QED
    BY <1>1, <2>1, <2>2, <2>3, <2>4, <2>5 DEF FoldInv
<1>9. /\ Runs(out') /\ Len(out') = 0 /\ Values(out') = {} /\ Cardinality(Values(out')) = 0
      /\ Kept(out') /\ \A g, v : EndsBefore(out', g, v)
  BY <1>1, <1>4, NoRuns
<1>10. OutInv'
  <2>1. Kept(out)'
    BY <1>7, <1>9 DEF Kept
  <2>2. bound' \in Nat
    BY <1>1, <1>6 DEF bound
  <2>3. 0 <= bound'
    BY <2>2
  <2> QED
    BY <1>1, <1>9, <2>1, <2>3 DEF OutInv
<1>11. CASE op = "union" /\ s # << >> /\ t # << >>
  <2>1. 1 <= Len(s) /\ 1 <= Len(t) /\ 1 \in 1 .. Len(s) /\ 1 \in 1 .. Len(t)
    BY <1>6, <1>11, EmptySeq DEF Runs
  <2>2. /\ s[1].start \in Value /\ s[1].start \in Int /\ end(s[1]) \in Value
        /\ t[1].start \in Value /\ t[1].start \in Int /\ end(t[1]) \in Value
    BY <1>6, <2>1, RunsFacts
  <2>3. Value \subseteq 0 .. WIDTH
    BY LastIsNat
  <2>4. \/ s[1].start <= t[1].start /\ start = [ai |-> 2, bi |-> 1, c |-> [lo |-> s[1].start, hi |-> end(s[1])]]
        \/ ~ (s[1].start <= t[1].start) /\ start = [ai |-> 1, bi |-> 2, c |-> [lo |-> t[1].start, hi |-> end(t[1])]]
    BY <1>11 DEF Seeded
  <2>5. /\ Mark(s, t, ai', bi', {}, c'.lo, c'.hi) /\ c' \in [lo : 0 .. WIDTH, hi : Value]
        /\ c'.lo \in 0 .. WIDTH /\ c'.hi \in Value
        /\ ai' \in 1 .. Len(s) + 1 /\ bi' \in 1 .. Len(t) + 1 /\ 0 + 1 <= (ai' - 1) + (bi' - 1)
    <3>1. CASE s[1].start <= t[1].start /\ start = [ai |-> 2, bi |-> 1, c |-> [lo |-> s[1].start, hi |-> end(s[1])]]
      <4>1. ai' = 2 /\ bi' = 1 /\ c' = [lo |-> s[1].start, hi |-> end(s[1])]
        BY <1>1, <3>1
      <4>2. Mark(s, t, 2, 1, {}, s[1].start, end(s[1]))
        BY <1>6, <2>1, <3>1, MarkSeeded
      <4> QED
        BY <1>6, <2>1, <2>2, <2>3, <4>1, <4>2
    <3>2. CASE ~ (s[1].start <= t[1].start) /\ start = [ai |-> 1, bi |-> 2, c |-> [lo |-> t[1].start, hi |-> end(t[1])]]
      <4>1. ai' = 1 /\ bi' = 2 /\ c' = [lo |-> t[1].start, hi |-> end(t[1])]
        BY <1>1, <3>2
      <4>2. t[1].start <= s[1].start
        BY <2>2, <3>2
      <4>3. Mark(t, s, 2, 1, {}, t[1].start, end(t[1]))
        BY <1>6, <2>1, <4>2, MarkSeeded
      <4>4. Mark(s, t, 1, 2, {}, t[1].start, end(t[1]))
        BY <4>3, MarkSwapped
      <4> QED
        BY <1>6, <2>1, <2>2, <2>3, <4>1, <4>4
    <3> QED
      BY <2>4, <3>1, <3>2
  <2>6. UnionInv'
    BY <1>1, <1>9, <2>5 DEF UnionInv, Before
  <2>7. Types'
    <3>1. out' \in Seq(Run) /\ x' \in Seq(Run) /\ y' \in Seq(Run) /\ 1 \in 1 .. Len(t) + 1 /\ 0 \in 0 .. WIDTH
      BY <1>1, <1>6, <1>9, LastIsNat DEF Runs
    <3> QED
      BY <1>1, <1>3, <2>5, <3>1 DEF IInv, Types, TypeOK
  <2>8. KernelInv'
    BY <1>1, <1>11, <2>6 DEF KernelInv
  <2> QED
    BY <1>7, <1>8, <1>10, <2>7, <2>8 DEF IInv
<1>12. CASE ~ (op = "union" /\ s # << >> /\ t # << >>)
  <2>1. start = [ai |-> 1, bi |-> 1, c |-> NoRange]
    BY <1>12 DEF Seeded
  <2>2. ai' = 1 /\ bi' = 1 /\ c' = NoRange
    BY <1>1, <2>1
  <2>3. op = "union" => copies'
    BY <1>1, <1>12 DEF copies
  <2>4. IntersectInv'
    <3>1. Values(out') = {v \in Values(s) \cap Values(t) : Below(s, 1, v) \/ Below(t, 1, v)}
      BY <1>6, <1>9, NothingBelowFirst
    <3> QED
      BY <1>1, <1>9, <2>2, <3>1 DEF IntersectInv, Before
  <2>5. DiffInv'
    <3>1. Values(out') = {v \in Values(s) \ Values(t) : Below(s, 1, v)}
      BY <1>6, <1>9, NothingBelowFirst
    <3>2. \A j \in 1 .. 1 - 1 : FALSE
      OBVIOUS
    <3>3. 0 \in 0 .. Len(t) /\ 0 <= (1 - 1) + 0 /\ ~ (0 > 0)
      BY <1>6
    <3> QED
      BY <1>1, <1>9, <2>2, <3>1, <3>2, <3>3 DEF DiffInv, Before
  <2>6. Types'
    <3>1. /\ out' \in Seq(Run) /\ x' \in Seq(Run) /\ y' \in Seq(Run)
          /\ 1 \in 1 .. Len(s) + 1 /\ 1 \in 1 .. Len(t) + 1 /\ 0 \in 0 .. WIDTH
          /\ NoRange \in [lo : 0 .. WIDTH, hi : Value] /\ NoRange.lo \in 0 .. WIDTH /\ NoRange.hi \in Value
      BY <1>1, <1>6, <1>9, LastIsNat DEF Runs, NoRange
    <3> QED
      BY <1>1, <1>3, <2>2, <3>1 DEF IInv, Types, TypeOK
  <2>7. KernelInv'
    BY <1>1, <2>3, <2>4, <2>5 DEF KernelInv
  <2> QED
    BY <1>7, <1>8, <1>10, <2>6, <2>7 DEF IInv
<1> QED
  BY <1>11, <1>12

\* A result is the next accumulator, whatever else lies in its half.
LEMMA ReturnKeeps ==
  ASSUME IInv, phase = "kernel", Return(out'), Kept(out'), Len(out') <= bound,
         Values(out') = Combined(Values(x), Values(y)), card' = Cardinality(Values(out'))
  PROVE  IInv'
<1> DEFINE to == (Len(rest) < Len(ins) - 2) /\ ~in_b
           old == halves[half(to)]
           beyond == SubSeq(old, Len(out') + 1, Len(old))
<1>1. /\ phase' = "fold" /\ halves' = [halves EXCEPT ![half(to)] = out' \o beyond]
      /\ in_b' = to /\ nr' = Len(out')
      /\ UNCHANGED << op, ins, rest, x, y, ai, bi, bj, c >>
  BY DEF Return
<1>2. /\ InputsInv /\ op \in {"intersect", "union", "diff"} /\ halves \in [{"a", "b"} -> Seq(Run)]
      /\ Len(rest) <= Len(ins) - 2 /\ Values(x) = Folded(taken - 1) /\ y = ins[taken]
      /\ \A i \in 1 .. Len(rest) : rest[i] = ins[taken + i]
      /\ rest \in Seq(Seq(Run))
  BY DEF IInv, Types, TypeOK, FoldInv
<1>3. /\ Len(ins) \in Nat /\ Len(rest) \in Nat /\ \A r : Kept(r) => Runs(r)
  BY <1>2, InputFacts, LenProperties
<1>4. to \in BOOLEAN /\ half(to) \in {"a", "b"}
  BY DEF half
<1>5. old \in Seq(Run) /\ Len(old) \in Nat /\ out' \in Seq(Run) /\ Len(out') \in Nat
  BY <1>2, <1>4, LenProperties DEF Kept
<1> HIDE DEF to, old
<1>6. beyond \in Seq(Run)
  <2>1. \A i \in Len(out') + 1 .. Len(old) : old[i] \in Run
    BY <1>5, ElementOfSeq
  <2>2. Len(out') + 1 \in Int /\ Len(old) \in Int
    BY <1>5
  <2> HIDE DEF beyond
  <2> QED
    BY <2>1, <2>2, SubSeqProperties DEF beyond
<1> HIDE DEF beyond
<1>7. out' \o beyond \in Seq(Run) /\ SubSeq(out' \o beyond, 1, Len(out')) = out'
  <2>1. out' \o beyond \in Seq(Run)
    BY <1>5, <1>6, ConcatProperties
  <2>2. CASE out' = << >>
    <3>1. SubSeq(out' \o beyond, 1, 0) = << >>
      BY SubSeqEmpty
    <3> QED
      BY <2>1, <2>2, <3>1, EmptySeq
  <2>3. CASE out' # << >>
    <3>1. 1 \in 1 .. Len(out') /\ Len(out') \in 1 .. Len(out')
      BY <1>5, <2>3, EmptySeq
    <3>2. SubSeq(out' \o beyond, 1, Len(out')) = SubSeq(out', 1, Len(out'))
      BY <1>5, <1>6, <3>1, SubSeqOfConcat1
    <3> QED
      BY <1>5, <2>1, <3>2, SubSeqFull
  <2> QED
    BY <2>2, <2>3
<1>8. /\ halves' \in [{"a", "b"} -> Seq(Run)] /\ halves'[half(in_b')] = out' \o beyond
  BY <1>1, <1>2, <1>4, <1>7
<1>9. source' = out'
  <2>1. ~ (Len(rest') = Len(ins') - 1)
    BY <1>1, <1>2, <1>3
  <2>2. source' = SubSeq(halves'[half(in_b')], 1, nr')
    BY <2>1 DEF source
  <2> QED
    BY <1>1, <1>7, <1>8, <2>2
<1>10. Values(out') = Folded(taken)
  <2>1. taken - 1 \in 1 .. Len(ins) - 1 /\ (taken - 1) + 1 = taken
    BY <1>2, <1>3 DEF taken
  <2>2. Folded(taken) = Combined(Folded(taken - 1), Values(ins[taken]))
    BY <1>2, <2>1, FoldedNext
  <2> QED
    BY <1>2, <2>2
<1>11. InputsInv' /\ Gaps' = Gaps /\ taken' = taken /\ bound' = bound
  BY <1>1, <1>2 DEF InputsInv, Gaps, taken, bound
<1>12. FoldInv'
  <2>1. Kept(source)'
    BY <1>9, <1>11 DEF Kept
  <2>2. Folded(taken)' = Folded(taken)
    BY <1>1, <1>11 DEF Folded
  <2>3. Values(source)' = Folded(taken)' /\ card' = Cardinality(Values(source)')
    BY <1>9, <1>10, <2>2
  <2>4. Len(rest') <= Len(ins') - 1
    BY <1>1, <1>2, <1>3
  <2> QED
    BY <1>1, <1>2, <1>11, <2>1, <2>3, <2>4 DEF FoldInv
<1>13. Types'
  <2>1. card' \in 0 .. WIDTH
    BY <1>3, InValues
  <2>2. in_b' \in BOOLEAN /\ nr' \in Nat
    BY <1>1, <1>4, <1>5
  <2> QED
    BY <1>1, <1>5, <1>8, <2>1, <2>2 DEF IInv, Types, TypeOK
<1>14. OutInv'
  <2>1. Kept(out)'
    BY <1>11 DEF Kept
  <2> QED
    BY <1>1, <1>11, <2>1 DEF OutInv
<1>15. KernelInv'
  BY <1>1 DEF KernelInv
<1> QED
  BY <1>11, <1>12, <1>13, <1>14, <1>15 DEF IInv

LEMMA CopyKeeps ==
  ASSUME IInv, Copy
  PROVE  IInv'
<1>1. /\ phase = "kernel" /\ copies /\ out' = IF x = << >> /\ op = "union" THEN y ELSE x
      /\ card' = Cardinality(Values(out')) /\ Return(out')
  BY DEF Copy
<1>2. /\ Runs(x) /\ Runs(y) /\ Kept(x) /\ Kept(y) /\ Len(x) \in Nat /\ Len(y) \in Nat
  BY <1>1, KernelFacts
<1>3. Kept(out') /\ Len(out') <= bound
  <2>1. Len(x) <= bound /\ Len(y) <= bound
    BY <1>2 DEF bound
  <2> QED
    BY <1>1, <1>2, <2>1
<1>4. Values(out') = Combined(Values(x), Values(y))
  <2>1. CASE op = "union" /\ x = << >>
    <3>1. Values(x) = {}
      BY <2>1, NoRuns
    <3> QED
      BY <1>1, <2>1, <3>1 DEF Combined
  <2>2. CASE op = "union" /\ x # << >> /\ y = << >>
    <3>1. Values(y) = {}
      BY <2>2, NoRuns
    <3> QED
      BY <1>1, <2>2, <3>1 DEF Combined
  <2>3. CASE op = "diff" /\ y = << >>
    <3>1. Values(y) = {}
      BY <2>3, NoRuns
    <3> QED
      BY <1>1, <2>3, <3>1 DEF Combined
  <2> QED
    BY <1>1, <2>1, <2>2, <2>3 DEF copies
<1> QED
  BY <1>1, <1>3, <1>4, ReturnKeeps

LEMMA KernelDoneKeeps ==
  ASSUME IInv, KernelDone
  PROVE  IInv'
<1>1. /\ phase = "kernel" /\ ~ copies /\ Return(out')
      /\ op = "intersect" => ai > Len(x) \/ bi > Len(y)
      /\ op = "union" => Exhausted
      /\ op = "diff" => ai > Len(x)
      /\ op = "union" => Emit(c.lo, c.hi)
      /\ op # "union" => out' = out /\ card' = card
  BY DEF KernelDone
<1>2. /\ Runs(x) /\ Runs(y) /\ Runs(out) /\ Kept(out) /\ card = Cardinality(Values(out))
      /\ Len(x) \in Nat /\ Len(y) \in Nat /\ Len(out) \in Nat
      /\ ai \in 1 .. Len(x) + 1 /\ bi \in 1 .. Len(y) + 1 /\ Gaps \subseteq {0, 1}
      /\ c.lo \in 0 .. WIDTH /\ c.hi \in Value
  BY <1>1, KernelFacts
<1>3. Len(out) <= bound /\ op \in {"intersect", "union", "diff"}
  BY <1>1 DEF IInv, OutInv, Types, TypeOK
<1>4. CASE op = "intersect"
  <2>1. Values(out) = {v \in Values(x) \cap Values(y) : Below(x, ai, v) \/ Below(y, bi, v)}
    BY <1>1, <1>4 DEF IInv, KernelInv, IntersectInv
  <2>2. \A v : Below(x, ai, v) \/ Below(y, bi, v)
    BY <1>1, <1>2, <1>4 DEF Below
  <2>3. Values(out') = Combined(Values(x), Values(y))
    BY <1>1, <1>4, <2>1, <2>2 DEF Combined
  <2> QED
    BY <1>1, <1>2, <1>3, <1>4, <2>3, ReturnKeeps
<1>5. CASE op = "diff"
  <2>1. Values(out) = {v \in Values(x) \ Values(y) : Below(x, ai, v)}
    BY <1>1, <1>5 DEF IInv, KernelInv, DiffInv
  <2>2. \A v : Below(x, ai, v)
    BY <1>1, <1>2, <1>5 DEF Below
  <2>3. Values(out') = Combined(Values(x), Values(y))
    BY <1>1, <1>5, <2>1, <2>2 DEF Combined
  <2> QED
    BY <1>1, <1>2, <1>3, <1>5, <2>3, ReturnKeeps
<1>6. CASE op = "union"
  <2>1. /\ Len(out) + 1 <= (ai - 1) + (bi - 1)
        /\ Mark(x, y, ai, bi, Values(out), c.lo, c.hi) /\ Before(1, c.lo)
    BY <1>1, <1>6 DEF IInv, KernelInv, UnionInv
  <2>2. ai = Len(x) + 1 /\ bi = Len(y) + 1
    <3>1. /\ \A i \in 1 .. Len(x) : x[i].start # NONE
          /\ \A i \in 1 .. Len(y) : y[i].start # NONE
      <4>1. \A v \in Value : v # NONE
        BY LastIsNat DEF NONE
      <4> QED
        BY <1>2, <4>1, RunsFacts
    <3>2. ~ (ai <= Len(x)) /\ ~ (bi <= Len(y))
      BY <1>1, <1>2, <1>6, <3>1 DEF Exhausted, start_at
    <3> QED
      BY <1>2, <3>2
  <2>3. c.lo \in Value /\ c.lo <= c.hi /\ c.lo \in Int
    BY <1>2, <2>1, LastIsNat DEF Mark
  <2>4. \A g \in Gaps : Before(g, c.lo)
    <3> SUFFICES ASSUME NEW g \in Gaps PROVE EndsBefore(out, g, c.lo)
      BY DEF Before
    <3>1. g \in {0, 1} /\ g - 1 <= c.lo - c.lo
      BY <1>2, <2>3
    <3> QED
      BY <1>2, <2>1, <2>3, <3>1, EndsLater DEF Before
  <2>5. /\ Kept(out') /\ card' = Cardinality(Values(out')) /\ Len(out') = Len(out) + 1
        /\ Values(out') = Values(out) \cup c.lo .. c.hi
    <3>1. /\ Extends(out', out, c.lo, c.hi)
      <4>1. out # << >> => end(out[Len(out)]) < c.lo
        <5> SUFFICES ASSUME out # << >> PROVE end(out[Len(out)]) < c.lo
          OBVIOUS
        <5>1. Len(out) \in 1 .. Len(out)
          BY <1>2, EmptySeq DEF Runs
        <5>2. end(out[Len(out)]) \in Int /\ end(out[Len(out)]) + 1 < c.lo
          BY <1>2, <2>1, <5>1, RunsFacts DEF Before, EndsBefore
        <5> QED
          BY <2>3, <5>2
      <4>2. out' = Append(out, run(c.lo, c.hi))
        BY <1>1, <1>6 DEF Emit
      <4> DEFINE t == out'
      <4>3. t = Append(out, run(c.lo, c.hi))
        BY <4>2
      <4> HIDE DEF t
      <4>4. Extends(t, out, c.lo, c.hi)
        BY <1>2, <2>3, <4>1, <4>3, Emitted
      <4> QED
        BY <4>4 DEF t
    <3>2. card' = card + (c.hi - c.lo + 1)
      BY <1>1, <1>6 DEF Emit
    <3>3. \A g \in Gaps : Apart(out', g)
      BY <1>2, <2>4, <3>1 DEF Extends, Kept, Before
    <3>4. Kept(out')
      BY <3>1, <3>3 DEF Extends, Kept, Runs
    <3> QED
      BY <1>2, <3>1, <3>2, <3>4 DEF Extends
  <2>6. Len(out') <= bound
    BY <1>2, <2>1, <2>2, <2>5 DEF bound
  <2>7. Values(out) \cup c.lo .. c.hi = Values(x) \cup Values(y)
    <3>1. Mark(x, y, Len(x) + 1, Len(y) + 1, Values(out), c.lo, c.hi)
      BY <2>1, <2>2
    <3>2. Complete(x, y, Values(out), c.lo, c.hi)
      BY <1>2, <2>3, <3>1, MarkComplete
    <3> QED
      BY <3>2 DEF Complete
  <2>8. Values(out') = Combined(Values(x), Values(y))
    BY <1>6, <2>5, <2>7 DEF Combined
  <2> QED
    BY <1>1, <2>5, <2>6, <2>8, ReturnKeeps
<1> QED
  BY <1>3, <1>4, <1>5, <1>6

LEMMA FoldDoneKeeps ==
  ASSUME IInv, FoldDone
  PROVE  IInv'
<1>1. /\ phase = "fold" /\ phase' = "done" /\ out' = source
      /\ rest = << >> \/ (Len(rest) < Len(ins) - 1 /\ card = 0)
      /\ UNCHANGED << fold, card, ai, bi, bj, c >>
  BY DEF FoldDone
<1>2. /\ InputsInv /\ op \in {"intersect", "union", "diff"}
      /\ Kept(source) /\ Values(source) = Folded(taken) /\ card = Cardinality(Values(source))
      /\ Len(rest) <= Len(ins) - 1 /\ rest \in Seq(Seq(Run))
      /\ \A i \in 1 .. Len(rest) : rest[i] = ins[taken + i]
  BY <1>1 DEF IInv, Types, TypeOK, FoldInv
<1>3. /\ Len(ins) \in Nat /\ Len(rest) \in Nat /\ Len(ins) >= 1
      /\ \A i \in 1 .. Len(ins) : Kept(ins[i])
      /\ \A s : Kept(s) => Runs(s)
  BY <1>2, InputFacts, LenProperties
<1>4. Values(source) = Folded(Len(ins))
  <2>1. CASE rest = << >>
    <3>1. Len(rest) = 0
      BY <2>1, EmptySeq
    <3>2. taken = Len(ins)
      BY <1>3, <3>1 DEF taken
    <3> QED
      BY <1>2, <3>2
  <2>2. CASE rest # << >> /\ Len(rest) < Len(ins) - 1 /\ card = 0
    <3>1. Len(rest) \in Nat \ {0}
      BY <1>2, <2>2, EmptySeq
    <3>2. taken \in 2 .. Len(ins) - 1 /\ Len(ins) > 2
      BY <1>3, <2>2, <3>1 DEF taken
    <3>3. Folded(taken) = {}
      <4>1. IsFiniteSet(Values(source))
        BY <1>2, <1>3, InValues
      <4> QED
        BY <1>2, <2>2, <4>1, FS_EmptySet
    <3>4. CASE op = "intersect"
      <4>1. 1 .. taken \subseteq 1 .. Len(ins)
        BY <1>3, <3>2
      <4>2. Folded(Len(ins)) \subseteq Folded(taken)
        BY <3>4, <4>1 DEF Folded
      <4> QED
        BY <1>2, <3>3, <4>2
    <3>5. CASE op = "diff"
      <4>1. 2 .. taken \subseteq 2 .. Len(ins)
        BY <1>3, <3>2
      <4>2. Folded(Len(ins)) \subseteq Folded(taken)
        BY <3>5, <4>1 DEF Folded
      <4> QED
        BY <1>2, <3>3, <4>2
    <3>6. CASE op = "union"
      <4>1. Runs(ins[1]) /\ ins[1] # << >>
        <5>1. 1 \in 1 .. Len(ins) /\ Len(ins) # 2
          BY <1>3, <3>2
        <5>2. Runs(ins[1])
          BY <1>3, <5>1
        <5>3. ins[1] # << >>
          BY <1>2, <5>1 DEF InputsInv
        <5> QED
          BY <5>2, <5>3
      <4>2. 1 \in 1 .. Len(ins[1])
        BY <4>1, RunsFacts, EmptySeq DEF Runs
      <4>3. ins[1][1].start \in Value /\ ins[1][1].start \in Int /\ ins[1][1].start <= end(ins[1][1])
        BY <4>1, <4>2, RunsFacts
      <4>4. ins[1][1].start \in Values(ins[1])
        <5>1. ins[1][1].start <= ins[1][1].start
          BY <4>3
        <5> QED
          BY <4>1, <4>2, <4>3, <5>1, InValues
      <4> QED
        BY <3>3, <3>6, <4>4 DEF Folded
    <3> QED
      BY <1>2, <3>4, <3>5, <3>6
  <2> QED
    BY <1>1, <2>1, <2>2
<1>5. UNCHANGED << op, ins, rest, halves, in_b, nr, x, y >>
  BY <1>1 DEF fold
<1>6. InputsInv' /\ Gaps' = Gaps /\ taken' = taken
  BY <1>2, <1>5 DEF InputsInv, Gaps, taken
<1>7. FoldInv'
  <2>1. Folded(Len(ins))' = Folded(Len(ins))
    BY <1>5 DEF Folded
  <2> QED
    BY <1>1, <1>2, <1>4, <1>5, <1>6, <2>1 DEF FoldInv
<1>8. OutInv'
  <2>1. Kept(out)'
    BY <1>1, <1>2, <1>6 DEF Kept
  <2> QED
    BY <1>1, <1>2, <2>1 DEF OutInv
<1>9. Types'
  <2>1. out' \in Seq(Run)
    BY <1>1, <1>2 DEF Kept
  <2> QED
    BY <1>1, <1>5, <2>1 DEF IInv, Types, TypeOK
<1>10. KernelInv'
  BY <1>1 DEF KernelInv
<1> QED
  BY <1>6, <1>7, <1>8, <1>9, <1>10 DEF IInv

----------------------------------------------------------------------------
\* The invariant holds.

LEMMA InitHolds ==
  ASSUME Init
  PROVE  IInv
<1>1. /\ op \in {"intersect", "union", "diff"} /\ ins \in Folds
      /\ op = "diff" => Len(ins) >= 2
      /\ Len(ins) # 2 => \A i \in DOMAIN ins : ins[i] # << >>
      /\ rest = Tail(ins) /\ phase = "fold"
      /\ halves = [h \in {"a", "b"} |-> Leftover] /\ in_b = FALSE
      /\ nr = Len(ins[1]) /\ card = Cardinality(Values(ins[1]))
      /\ x = << >> /\ y = << >> /\ out = << >> /\ ai = 1 /\ bi = 1 /\ bj = 1 /\ c = NoRange
  BY DEF Init
<1>2. ins \in Seq(Seq(Run)) /\ ins # << >>
  BY <1>1, RunAssumption
<1>3. InputsInv
  BY <1>1, <1>2, LenProperties DEF InputsInv
<1>4. /\ Len(ins) \in Nat /\ Len(ins) >= 1 /\ 0 \in Gaps
      /\ \A i \in 1 .. Len(ins) : Kept(ins[i])
      /\ \A s : Kept(s) => Runs(s)
  BY <1>3, InputFacts
<1>5. /\ rest \in Seq(Seq(Run)) /\ Len(rest) = Len(ins) - 1
      /\ \A i \in 1 .. Len(rest) : rest[i] = ins[i + 1]
  BY <1>1, <1>2, HeadTailProperties
<1>6. taken = 1 /\ source = ins[1] /\ Kept(ins[1]) /\ Runs(ins[1])
  BY <1>4, <1>5 DEF taken, source
<1>7. Runs(out) /\ Kept(out) /\ Len(out) = 0
  BY <1>1, <1>4, NoRuns
<1>8. Types
  <2>1. Leftover \in Seq(Run)
    <3>1. 0 \in Value /\ LAST \in Value /\ 0 <= LAST
      BY LastIsNat
    <3>2. run(0, LAST) \in Run
      BY <3>1, RunOfRange
    <3> QED
      BY <3>2 DEF Leftover
  <2>2. halves \in [{"a", "b"} -> Seq(Run)]
    BY <1>1, <2>1
  <2>3. nr \in Nat /\ card \in 0 .. WIDTH
    BY <1>1, <1>6, InValues, RunsFacts
  <2>4. x \in Seq(Run) /\ y \in Seq(Run) /\ out \in Seq(Run) /\ Len(x) = 0 /\ Len(y) = 0
    BY <1>1, EmptySeq
  <2>5. ai \in 1 .. Len(x) + 1 /\ bi \in 1 .. Len(y) + 1 /\ bj \in 1 .. Len(y) + 1
    BY <1>1, <2>4
  <2>6. c \in [lo : 0 .. WIDTH, hi : Value] /\ c.lo \in 0 .. WIDTH /\ c.hi \in Value
    BY <1>1, LastIsNat DEF NoRange
  <2> QED
    BY <1>1, <1>2, <1>5, <2>2, <2>3, <2>4, <2>5, <2>6 DEF Types, TypeOK
<1>9. FoldInv
  <2>1. Values(source) = Folded(taken)
    BY <1>1, <1>3, <1>6, FoldedFirst
  <2>2. \A i \in 1 .. Len(rest) : rest[i] = ins[taken + i]
    <3>1. \A i \in 1 .. Len(rest) : i + 1 = taken + i
      BY <1>6
    <3> QED
      BY <1>5, <3>1
  <2>3. Len(rest) <= Len(ins) - 1
    BY <1>4, <1>5
  <2> QED
    BY <1>1, <1>6, <2>1, <2>2, <2>3 DEF FoldInv
<1>10. OutInv
  <2>1. 0 <= bound
    BY <1>1, EmptySeq DEF bound
  <2> QED
    BY <1>1, <1>7, <2>1 DEF OutInv
<1>11. KernelInv
  BY <1>1 DEF KernelInv
<1> QED
  BY <1>3, <1>8, <1>9, <1>10, <1>11 DEF IInv

LEMMA NextKeeps ==
  ASSUME IInv, [Next]_vars
  PROVE  IInv'
<1>1. CASE Call
  BY <1>1, CallKeeps
<1>2. CASE Copy
  BY <1>2, CopyKeeps
<1>3. CASE Intersect
  BY <1>3, IntersectKeeps
<1>4. CASE Union
  BY <1>4, UnionKeeps
<1>5. CASE Diff
  BY <1>5, DiffKeeps
<1>6. CASE Cut
  BY <1>6, CutKeeps
<1>7. CASE CutDone
  BY <1>7, CutDoneKeeps
<1>8. CASE KernelDone
  BY <1>8, KernelDoneKeeps
<1>9. CASE FoldDone
  BY <1>9, FoldDoneKeeps
<1>10. CASE UNCHANGED vars
  <2>1. UNCHANGED << op, ins, rest, phase, halves, in_b, nr, card, x, y, out, ai, bi, bj, c >>
    BY <1>10 DEF vars
  <2>2. InputsInv' /\ Types' /\ Gaps' = Gaps /\ taken' = taken /\ bound' = bound /\ copies' = copies
    BY <2>1 DEF IInv, InputsInv, Types, TypeOK, Gaps, taken, bound, copies
  <2>3. Kept(x)' /\ Kept(y)' <=> Kept(x) /\ Kept(y)
    BY <2>1, <2>2 DEF Kept
  <2>4. Kept(out)' <=> Kept(out)
    BY <2>1, <2>2 DEF Kept
  <2>5. source' = source
    BY <2>1 DEF source
  <2>6. Kept(source)' <=> Kept(source)
    BY <2>2, <2>5 DEF Kept
  <2>7. /\ Folded(taken)' = Folded(taken) /\ Folded(taken - 1)' = Folded(taken - 1)
        /\ Folded(Len(ins))' = Folded(Len(ins))
    BY <2>1, <2>2 DEF Folded
  <2>8. Kept(x)' <=> Kept(x)
    BY <2>1, <2>2 DEF Kept
  <2>9. Kept(y)' <=> Kept(y)
    BY <2>1, <2>2 DEF Kept
  <2>10. FoldInv'
    BY <2>1, <2>2, <2>5, <2>6, <2>7, <2>8, <2>9 DEF IInv, FoldInv
  <2>11. OutInv'
    BY <2>1, <2>2, <2>4 DEF IInv, OutInv
  <2>12. KernelInv'
    BY <2>1, <2>2 DEF IInv, KernelInv, IntersectInv, UnionInv, DiffInv, CutInv, Before
  <2> QED
    BY <2>2, <2>10, <2>11, <2>12 DEF IInv
<1> QED
  BY <1>1, <1>2, <1>3, <1>4, <1>5, <1>6, <1>7, <1>8, <1>9, <1>10 DEF Next

LEMMA Invariant == Spec => []IInv
<1>1. Init => IInv
  BY InitHolds
<1>2. IInv /\ [Next]_vars => IInv'
  BY NextKeeps
<1> QED
  BY <1>1, <1>2, PTL DEF Spec

----------------------------------------------------------------------------
\* No kernel of run.rs writes a run more than its output has room for, the sum
\* of its inputs' runs, and so none writes outside the half it is given.
THEOREM WritesInRoom == Spec => []WritesFit
<1>1. IInv => WritesFit
  BY DEF IInv, OutInv, WritesFit
<1> QED
  BY <1>1, Invariant, PTL

\* Whatever is in the output of a kernel of run.rs at any turn of its loop are
\* runs that do not wrap past the last value, ascend and do not overlap, with
\* the count kept beside them exact; and they are the shortest form of the set
\* if the containers folded are.
THEOREM RunsWritten == Spec => []OutputIsRuns
<1>1. IInv => OutputIsRuns
  <2> SUFFICES ASSUME IInv PROVE OutputIsRuns
    OBVIOUS
  <2>1. TypeOK /\ Kept(out) /\ InputsInv
    BY DEF IInv, Types, OutInv
  <2>2. /\ Runs(out) /\ Len(out) \in Nat /\ DOMAIN out = 1 .. Len(out) /\ Gaps \subseteq {0, 1}
    BY <2>1, InputFacts, RunsFacts
  <2>3. IsRuns(out)
    <3> SUFFICES ASSUME NEW i \in 1 .. Len(out) - 1 PROVE end(out[i]) < out[i + 1].start
      BY <2>2 DEF IsRuns, Runs, NoWrap
    <3>1. end(out[i]) + 0 < out[i + 1].start /\ i \in 1 .. Len(out)
      BY <2>2 DEF Runs, Apart
    <3>2. end(out[i]) \in Int
      BY <2>2, <3>1, RunsFacts
    <3> QED
      BY <3>1, <3>2
  <2>4. phase # "fold" => card = Cardinality(Values(out))
    BY DEF IInv, OutInv
  <2>5. ASSUME \A i \in DOMAIN ins : Coalesced(ins[i])
        PROVE  Coalesced(out)
    <3>1. DOMAIN ins = 1 .. Len(ins)
      BY <2>1, InputFacts, LenProperties
    <3>2. 1 \in Gaps
      BY <2>5, <3>1 DEF Gaps, Coalesced, Apart
    <3>3. Apart(out, 1)
      BY <2>1, <3>2 DEF Kept
    <3> QED
      BY <3>3 DEF Apart, Coalesced
  <2> QED
    BY <2>1, <2>3, <2>4, <2>5 DEF OutputIsRuns
<1> QED
  BY <1>1, Invariant, PTL

\* What run_fold and run_fold_diff leave is the operation on the containers
\* folded, with its exact count, for every last value, every number of
\* containers and whatever lies in the two halves beyond the accumulator.
THEOREM FoldIsExact == Spec => []FoldExact
<1>1. IInv => FoldExact
  <2> SUFFICES ASSUME IInv, phase = "done" PROVE FoldExact
    BY DEF FoldExact
  <2>1. Values(out) = Folded(Len(ins)) /\ card = Cardinality(Values(out))
    BY DEF IInv, FoldInv, OutInv
  <2>2. DOMAIN ins = 1 .. Len(ins)
    BY InputFacts, LenProperties DEF IInv
  <2> QED
    BY <2>1, <2>2 DEF FoldExact, Folded
<1> QED
  BY <1>1, Invariant, PTL

=============================================================================
