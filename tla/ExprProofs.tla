----------------------------- MODULE ExprProofs -----------------------------
(***************************************************************************)
(* Expression trees evaluate to what they denote, for every leaf, every    *)
(* shape of tree and every number of operands but zero.                    *)
(*                                                                         *)
(* A manifest is read as the stacks it passes through when no guard fires, *)
(* its trace.  For every manifest that the constructors build, and under   *)
(* every mask an AND above may push down, there is one that ends with what *)
(* the expression denotes at the live keys, and a guard whose operand is   *)
(* empty jumps to where its trace is.  An execution then follows the trace *)
(* of what it runs.                                                        *)
(***************************************************************************)
EXTENDS Expr, TLAPS, SequenceTheorems, FiniteSetTheorems, WellFoundedInduction

Universe == UNION ToSet(Leaves)
Sets     == SUBSET Universe
AllKeys  == KeysOf(Universe)

\* What a mask leaves of a bitmap.
cut(bitmap, K) == {p \in bitmap : p[1] \in K}

\* A stack without its n topmost operands, and those.
Below(a, n) == SubSeq(a, 1, Len(a) - n)
Above(a, n) == [i \in 1 .. n |-> a[Len(a) - n + i]]

TopEmpty(a) == a # << >> /\ Last(a) = {}

----------------------------------------------------------------------------
\* Sequences.
LEMMA SeqIs ==
  ASSUME NEW S, NEW n \in Nat, NEW f \in [1 .. n -> S]
  PROVE  f \in Seq(S) /\ Len(f) = n
<1>1. f \in Seq(S)
  BY SeqDef
<1>2. DOMAIN f = 1 .. n /\ DOMAIN f = 1 .. Len(f) /\ Len(f) \in Nat
  BY <1>1, LenProperties
<1> QED
  BY <1>1, <1>2

LEMMA EmptyIs ==
  ASSUME NEW S
  PROVE  /\ << >> \in Seq(S) /\ Len(<< >>) = 0
         /\ \A s \in Seq(S) : Len(s) = 0 => s = << >>
BY EmptySeq

LEMMA OneIs ==
  ASSUME NEW S, NEW e \in S
  PROVE  << e >> \in Seq(S) /\ Len(<< e >>) = 1 /\ << e >>[1] = e /\ << e >> # << >>
OBVIOUS

LEMMA AppendIs ==
  ASSUME NEW S, NEW a \in Seq(S), NEW e \in S
  PROVE  /\ Append(a, e) \in Seq(S)
         /\ Len(Append(a, e)) = Len(a) + 1
         /\ \A i \in 1 .. Len(a) : Append(a, e)[i] = a[i]
         /\ Append(a, e)[Len(a) + 1] = e
         /\ Append(a, e) # << >> /\ Last(Append(a, e)) = e
         /\ Append(a, e) = a \o << e >>
<1>1. /\ Append(a, e) \in Seq(S) /\ Len(Append(a, e)) = Len(a) + 1
      /\ \A i \in 1 .. Len(a) : Append(a, e)[i] = a[i]
      /\ Append(a, e)[Len(a) + 1] = e
  BY AppendProperties
<1>2. Append(a, e) # << >> /\ Last(Append(a, e)) = e
  BY <1>1, EmptyIs, LenProperties DEF Last
<1>3. Append(a, e) = a \o << e >>
  BY AppendIsConcat
<1> QED
  BY <1>1, <1>2, <1>3

LEMMA ConcatIs ==
  ASSUME NEW S, NEW a \in Seq(S), NEW b \in Seq(S)
  PROVE  /\ a \o b \in Seq(S) /\ Len(a \o b) = Len(a) + Len(b)
         /\ \A i \in 1 .. Len(a) : (a \o b)[i] = a[i]
         /\ \A j \in 1 .. Len(b) : (a \o b)[Len(a) + j] = b[j]
<1>1. Len(a) \in Nat /\ Len(b) \in Nat
  BY LenProperties
<1>2. /\ a \o b \in Seq(S) /\ Len(a \o b) = Len(a) + Len(b)
      /\ \A i \in 1 .. Len(a) + Len(b) : (a \o b)[i] = IF i <= Len(a) THEN a[i] ELSE b[i - Len(a)]
  BY ConcatProperties
<1>3. \A i \in 1 .. Len(a) : i \in 1 .. Len(a) + Len(b) /\ i <= Len(a)
  BY <1>1
<1>4. \A j \in 1 .. Len(b) : /\ Len(a) + j \in 1 .. Len(a) + Len(b)
                             /\ ~ (Len(a) + j <= Len(a)) /\ (Len(a) + j) - Len(a) = j
  BY <1>1
<1> QED
  BY <1>2, <1>3, <1>4

LEMMA BelowIs ==
  ASSUME NEW S, NEW a \in Seq(S), NEW n \in 0 .. Len(a)
  PROVE  /\ Below(a, n) \in Seq(S) /\ Len(Below(a, n)) = Len(a) - n
         /\ \A i \in 1 .. Len(a) - n : Below(a, n)[i] = a[i]
         /\ Above(a, n) \in Seq(S) /\ Len(Above(a, n)) = n
         /\ \A i \in 1 .. n : Above(a, n)[i] = a[Len(a) - n + i] /\ Above(a, n)[i] \in S
<1>1. Len(a) \in Nat /\ n \in Nat /\ n <= Len(a) /\ Len(a) - n \in Nat
  BY LenProperties
<1>2. \A i \in 1 .. Len(a) : a[i] \in S
  BY ElementOfSeq
<1>3. /\ Below(a, n) \in Seq(S) /\ Len(Below(a, n)) = Len(a) - n
      /\ \A i \in 1 .. Len(a) - n : Below(a, n)[i] = a[i]
  BY <1>1, <1>2, SubSeqProperties DEF Below
<1>4. Above(a, n) \in [1 .. n -> S]
  BY <1>1, <1>2 DEF Above
<1>5. Above(a, n) \in Seq(S) /\ Len(Above(a, n)) = n
  BY <1>1, <1>4, SeqIs
<1> QED
  BY <1>3, <1>4, <1>5 DEF Above

\* What was pushed on a stack is above what was there.
LEMMA Pushed ==
  ASSUME NEW S, NEW a \in Seq(S), NEW x \in Seq(S)
  PROVE  /\ Below(a \o x, Len(x)) = a /\ Above(a \o x, Len(x)) = x
         /\ Len(x) \in 0 .. Len(a \o x)
<1>1. Len(a) \in Nat /\ Len(x) \in Nat
  BY LenProperties
<1>2. /\ a \o x \in Seq(S) /\ Len(a \o x) = Len(a) + Len(x)
      /\ \A i \in 1 .. Len(a) : (a \o x)[i] = a[i]
      /\ \A j \in 1 .. Len(x) : (a \o x)[Len(a) + j] = x[j]
  BY ConcatIs
<1> DEFINE c == a \o x
<1>3. Len(x) \in 0 .. Len(c) /\ Len(c) - Len(x) = Len(a)
  BY <1>1, <1>2
<1> HIDE DEF c
<1>4. c \in Seq(S) /\ Len(c) = Len(a) + Len(x) /\ (\A i \in 1 .. Len(a) : c[i] = a[i])
      /\ \A j \in 1 .. Len(x) : c[Len(a) + j] = x[j]
  BY <1>2 DEF c
<1>5. /\ Below(c, Len(x)) \in Seq(S) /\ Len(Below(c, Len(x))) = Len(a)
      /\ \A i \in 1 .. Len(a) : Below(c, Len(x))[i] = c[i]
      /\ Above(c, Len(x)) \in Seq(S) /\ Len(Above(c, Len(x))) = Len(x)
      /\ \A i \in 1 .. Len(x) : Above(c, Len(x))[i] = c[Len(a) + i]
  <2>1. PICK n \in 0 .. Len(c) : n = Len(x)
    BY <1>3
  <2>2. /\ Below(c, n) \in Seq(S) /\ Len(Below(c, n)) = Len(c) - n
        /\ \A i \in 1 .. Len(c) - n : Below(c, n)[i] = c[i]
        /\ Above(c, n) \in Seq(S) /\ Len(Above(c, n)) = n
        /\ \A i \in 1 .. n : Above(c, n)[i] = c[Len(c) - n + i] /\ Above(c, n)[i] \in S
    BY <1>4, BelowIs
  <2> QED
    BY <1>3, <2>1, <2>2
<1>6. Below(c, Len(x)) = a
  BY <1>4, <1>5, SeqEqual
<1>7. Above(c, Len(x)) = x
  BY <1>4, <1>5, SeqEqual
<1> QED
  BY <1>3, <1>6, <1>7 DEF c

----------------------------------------------------------------------------
\* Steps.

Folds == {"and", "or", "diff"}

LeafSteps  == [op : {"leaf"}, set : Sets]
GuardSteps == [op : {"guard"}, skip : Int, pop : Nat]
FoldSteps  == [op : {"combine"}, arity : Nat, fold : Folds, keys : SUBSET AllKeys,
               mask : {<< >>} \cup {<< K >> : K \in SUBSET AllKeys}]
Steps      == LeafSteps \cup GuardSteps \cup FoldSteps

LEMMA StepIs ==
  ASSUME NEW s \in Steps
  PROVE  /\ s.op \in {"leaf", "guard", "combine"}
         /\ s.op = "leaf" => s \in LeafSteps /\ s.set \in Sets
         /\ s.op = "guard" => s \in GuardSteps /\ s.skip \in Int /\ s.pop \in Nat
         /\ s.op = "combine" => /\ s \in FoldSteps /\ s.arity \in Nat /\ s.fold \in Folds
                                /\ s.keys \in SUBSET AllKeys
                                /\ s.mask = << >> \/ \E K \in SUBSET AllKeys : s.mask = << K >>
BY DEF Steps, LeafSteps, GuardSteps, FoldSteps

LEMMA LeafStepIs ==
  ASSUME NEW v \in Sets
  PROVE  LeafStep(v) \in Steps /\ LeafStep(v).op = "leaf" /\ LeafStep(v).set = v
BY DEF LeafStep, Steps, LeafSteps

LEMMA GuardStepIs ==
  ASSUME NEW n \in Nat
  PROVE  /\ GuardStep(n) \in Steps /\ GuardStep(n).op = "guard"
         /\ GuardStep(n).pop = n /\ GuardStep(n).skip = UNRESOLVED
BY DEF GuardStep, Steps, GuardSteps, UNRESOLVED

LEMMA CombineStepIs ==
  ASSUME NEW n \in Nat, NEW fold \in Folds, NEW keys \in SUBSET AllKeys
  PROVE  LET s == CombineStep(n, fold, keys)
         IN  /\ s \in Steps /\ s.op = "combine" /\ s.arity = n /\ s.fold = fold
             /\ s.keys = keys /\ s.mask = << >>
BY DEF CombineStep, Steps, FoldSteps

\* The keys a fold sees, K of them live above it.
Live(s, K) == IF s.mask = << >> THEN K ELSE s.mask[1]

\* A fold of the operands x through a mask.
Masked(x, K) == [i \in 1 .. Len(x) |-> cut(x[i], K)]

\* The keys a fold claims for the operands y, and what it makes of them.
Claims(s, y) ==
  CASE s.fold = "and" -> IF s.keys = {} THEN {} ELSE Intersection({KeysOf(y[i]) : i \in DOMAIN y})
    [] s.fold = "or" -> UNION {KeysOf(y[i]) : i \in DOMAIN y}
    [] s.fold = "diff" -> KeysOf(y[1])

Folded(s, y) == {p \in Denotes(s.fold, y) : p[1] \in Claims(s, y)}

----------------------------------------------------------------------------
\* Traces.

\* From a to b when no guard fires, the keys K being live.
Moves(s, K, a, b) ==
  /\ s.op = "leaf" => b = Append(a, s.set)
  /\ s.op = "guard" => b = a
  /\ s.op = "combine" =>
       LET y == Masked(Above(a, s.arity), Live(s, K))
       IN  /\ s.arity <= Len(a)
           /\ Claims(s, y) \subseteq s.keys
           /\ b = Append(Below(a, s.arity), Folded(s, y))

\* A guard that fires leaves what the fold it belongs to would have left.  That
\* fold leaves v on top of the stack b when it is not in the manifest yet.
Jumps(s, b, v, A, k, last) ==
  /\ s.pop <= Len(A[k])
  /\ IF s.skip = UNRESOLVED
     THEN Below(A[k], s.pop) = b /\ (TopEmpty(A[k]) => v = {})
     ELSE /\ s.skip \in Nat \ {0} /\ k + s.skip <= last
          /\ TopEmpty(A[k]) => A[k + s.skip] = Append(Below(A[k], s.pop), {})

\* A is the trace of these steps from the stack b, d operands deep at most.
Trace(steps, K, b, v, A, d) ==
  /\ steps \in Seq(Steps) /\ K \in SUBSET AllKeys /\ d \in Nat
  /\ A \in [1 .. Len(steps) + 1 -> Seq(Sets)]
  /\ A[1] = b
  /\ \A k \in 1 .. Len(steps) + 1 : Len(A[k]) <= Len(b) + d
  /\ \A k \in 1 .. Len(steps) : Moves(steps[k], K, A[k], A[k + 1])
  /\ \A k \in 1 .. Len(steps) :
       steps[k].op = "guard" => Jumps(steps[k], b, v, A, k, Len(steps) + 1)

End(steps, A) == A[Len(steps) + 1]

Resolved(steps) ==
  \A k \in 1 .. Len(steps) : steps[k].op = "guard" => steps[k].skip # UNRESOLVED

LEMMA StepAt ==
  ASSUME NEW steps \in Seq(Steps)
  PROVE  /\ Len(steps) \in Nat
         /\ \A k \in 1 .. Len(steps) : steps[k] \in Steps
BY LenProperties, ElementOfSeq

\* A jump is the same wherever its part of the trace stands.
LEMMA JumpsMoved ==
  ASSUME NEW s \in Steps, s.op = "guard", NEW b, NEW v, NEW b2, NEW v2, NEW A, NEW A2,
         NEW last \in Nat, NEW last2 \in Nat, NEW k \in 1 .. last, NEW o \in Nat,
         Jumps(s, b, v, A, k, last),
         s.skip = UNRESOLVED => b2 = b /\ v2 = v,
         o + last <= last2, \A j \in 1 .. last : A2[o + j] = A[j]
  PROVE  Jumps(s, b2, v2, A2, o + k, last2)
<1>1. s.skip \in Int /\ s.pop \in Nat
  BY StepIs
<1>2. A2[o + k] = A[k]
  OBVIOUS
<1>3. s.pop <= Len(A2[o + k])
  BY <1>2 DEF Jumps
<1>4. CASE s.skip = UNRESOLVED
  BY <1>2, <1>3, <1>4 DEF Jumps
<1>5. CASE s.skip # UNRESOLVED
  <2>1. /\ s.skip \in Nat \ {0} /\ k + s.skip <= last
        /\ TopEmpty(A[k]) => A[k + s.skip] = Append(Below(A[k], s.pop), {})
    BY <1>5 DEF Jumps
  <2>2. k + s.skip \in 1 .. last /\ o + (k + s.skip) = (o + k) + s.skip
    BY <2>1
  <2>3. A2[(o + k) + s.skip] = A[k + s.skip]
    BY <2>2
  <2>4. (o + k) + s.skip <= last2
    BY <2>1, <2>2
  <2> QED
    BY <1>2, <1>3, <1>5, <2>1, <2>3, <2>4 DEF Jumps
<1> QED
  BY <1>4, <1>5

\* No step has been taken.
LEMMA TraceOfNone ==
  ASSUME NEW K \in SUBSET AllKeys, NEW b \in Seq(Sets), NEW v
  PROVE  \E A : Trace(<< >>, K, b, v, A, 0) /\ End(<< >>, A) = b
<1> DEFINE A == [k \in 1 .. 1 |-> b]
<1>1. << >> \in Seq(Steps) /\ Len(<< >>) = 0 /\ Len(b) \in Nat
  BY EmptyIs, LenProperties
<1>2. A \in [1 .. 1 -> Seq(Sets)] /\ A[1] = b /\ \A k \in 1 .. 1 : A[k] = b
  OBVIOUS
<1> HIDE DEF A
<1>3. Trace(<< >>, K, b, v, A, 0)
  <2>1. 1 .. 0 = {} /\ 0 + 1 = 1
    OBVIOUS
  <2> QED
    BY <1>1, <1>2, <2>1 DEF Trace
<1>4. End(<< >>, A) = b
  BY <1>1, <1>2 DEF End
<1> QED
  BY <1>3, <1>4

\* More room does no harm.
LEMMA TraceWithin ==
  ASSUME NEW steps, NEW K, NEW b, Len(b) \in Nat, NEW v, NEW A, NEW d, NEW d2 \in Nat, d <= d2,
         Trace(steps, K, b, v, A, d)
  PROVE  Trace(steps, K, b, v, A, d2)
<1>1. \A k \in 1 .. Len(steps) + 1 : Len(A[k]) <= Len(b) + d2
  <2> SUFFICES ASSUME NEW k \in 1 .. Len(steps) + 1 PROVE Len(A[k]) <= Len(b) + d2
    OBVIOUS
  <2>1. A[k] \in Seq(Sets) /\ Len(A[k]) <= Len(b) + d /\ d \in Nat
    BY DEF Trace
  <2>2. Len(A[k]) \in Nat
    BY <2>1, LenProperties
  <2> QED
    BY <2>1, <2>2
<1> QED
  BY <1>1 DEF Trace

\* One more step.
LEMMA TraceExtends ==
  ASSUME NEW steps, NEW K, NEW b, NEW v, NEW A, NEW d, Trace(steps, K, b, v, A, d),
         NEW s \in Steps, NEW c \in Seq(Sets), Len(c) <= Len(b) + d,
         Moves(s, K, End(steps, A), c),
         s.op = "guard" => /\ s.skip = UNRESOLVED /\ s.pop <= Len(End(steps, A))
                           /\ Below(End(steps, A), s.pop) = b
                           /\ TopEmpty(End(steps, A)) => v = {}
  PROVE  \E A2 : /\ Trace(Append(steps, s), K, b, v, A2, d) /\ End(Append(steps, s), A2) = c
                 /\ A2[Len(steps) + 1] = End(steps, A)
<1> DEFINE n == Len(steps)
           t == Append(steps, s)
           A2 == [k \in 1 .. n + 2 |-> IF k <= n + 1 THEN A[k] ELSE c]
<1>1. /\ steps \in Seq(Steps) /\ n \in Nat /\ (\A k \in 1 .. n : steps[k] \in Steps)
      /\ A \in [1 .. n + 1 -> Seq(Sets)] /\ A[1] = b /\ d \in Nat
      /\ \A k \in 1 .. n + 1 : A[k] \in Seq(Sets) /\ Len(A[k]) <= Len(b) + d
  BY StepAt DEF Trace
<1>2. /\ t \in Seq(Steps) /\ Len(t) = n + 1 /\ t[n + 1] = s
      /\ \A k \in 1 .. n : t[k] = steps[k]
  BY <1>1, AppendIs
<1>3. /\ \A k \in 1 .. n : Moves(steps[k], K, A[k], A[k + 1])
      /\ \A k \in 1 .. n : steps[k].op = "guard" => Jumps(steps[k], b, v, A, k, n + 1)
  BY DEF Trace
<1>4. /\ A2 \in [1 .. n + 2 -> Seq(Sets)] /\ A2[n + 2] = c
      /\ \A k \in 1 .. n + 1 : A2[k] = A[k] /\ A2[0 + k] = A[k]
  BY <1>1
<1>5. End(steps, A) = A[n + 1] /\ A2[n + 1] = A[n + 1]
  BY <1>1, <1>4 DEF End
<1> HIDE DEF A2, t, n
<1>6. \A k \in 1 .. n + 1 : k \in 1 .. n \/ k = n + 1
  BY <1>1
<1>7. ASSUME NEW k \in 1 .. n + 1 PROVE Moves(t[k], K, A2[k], A2[k + 1])
  <2>1. CASE k \in 1 .. n
    <3>1. k \in 1 .. n + 1 /\ k + 1 \in 1 .. n + 1
      BY <1>1, <2>1
    <3> QED
      BY <1>2, <1>3, <1>4, <2>1, <3>1
  <2>2. CASE k = n + 1
    <3>1. k + 1 = n + 2
      BY <1>1, <2>2
    <3> QED
      BY <1>2, <1>4, <1>5, <2>2, <3>1
  <2> QED
    BY <1>6, <2>1, <2>2
<1>8. ASSUME NEW k \in 1 .. n + 1, t[k].op = "guard" PROVE Jumps(t[k], b, v, A2, k, n + 2)
  <2>1. CASE k \in 1 .. n
    <3>1. Jumps(steps[k], b, v, A, k, n + 1) /\ steps[k] \in Steps /\ steps[k].op = "guard"
      BY <1>1, <1>2, <1>3, <1>8, <2>1
    <3>2. n + 1 \in Nat /\ n + 2 \in Nat /\ k \in 1 .. n + 1 /\ 0 + (n + 1) <= n + 2 /\ 0 + k = k
      BY <1>1, <2>1
    <3>3. Jumps(steps[k], b, v, A2, 0 + k, n + 2)
      BY <1>4, <3>1, <3>2, JumpsMoved
    <3> QED
      BY <1>2, <2>1, <3>2, <3>3
  <2>2. CASE k = n + 1
    BY <1>2, <1>4, <1>5, <1>8, <2>2 DEF Jumps
  <2> QED
    BY <1>6, <2>1, <2>2
<1>9. \A k \in 1 .. n + 2 : Len(A2[k]) <= Len(b) + d
  <2>1. \A k \in 1 .. n + 2 : k \in 1 .. n + 1 \/ k = n + 2
    BY <1>1
  <2> QED
    BY <1>1, <1>4, <2>1
<1>10. A2[1] = b /\ Len(t) + 1 = n + 2
  BY <1>1, <1>2, <1>4
<1>11. Trace(t, K, b, v, A2, d)
  <2>1. K \in SUBSET AllKeys
    BY DEF Trace
  <2> QED
    BY <1>1, <1>2, <1>4, <1>7, <1>8, <1>9, <1>10, <2>1 DEF Trace
<1>12. End(t, A2) = c
  BY <1>4, <1>10 DEF End
<1> QED
  BY <1>5, <1>11, <1>12 DEF t, n

\* A guard of a fold that is still to come, which leaves v on top of b.
Waits(s, b, v, c) ==
  /\ s.op = "guard" /\ s.skip = UNRESOLVED
  /\ s.pop <= Len(c) /\ Below(c, s.pop) = b /\ (TopEmpty(c) => v = {})

LEMMA TraceExtendsGuard ==
  ASSUME NEW steps, NEW K, NEW b, NEW v, NEW A, NEW d, Trace(steps, K, b, v, A, d),
         NEW s \in Steps, Waits(s, b, v, End(steps, A))
  PROVE  \E A2 : Trace(Append(steps, s), K, b, v, A2, d) /\ End(Append(steps, s), A2) = End(steps, A)
<1>1. PICK c : c = End(steps, A)
  OBVIOUS
<1>2. c \in Seq(Sets) /\ Len(c) <= Len(b) + d
  <2>1. Len(steps) + 1 \in 1 .. Len(steps) + 1
    BY StepAt DEF Trace
  <2> QED
    BY <1>1, <2>1 DEF Trace, End
<1>3. Moves(s, K, End(steps, A), c)
  BY <1>1 DEF Moves, Waits
<1>4. /\ s.skip = UNRESOLVED /\ s.pop <= Len(End(steps, A)) /\ Below(End(steps, A), s.pop) = b
      /\ TopEmpty(End(steps, A)) => v = {}
  BY DEF Waits
<1>5. \E A2 : /\ Trace(Append(steps, s), K, b, v, A2, d) /\ End(Append(steps, s), A2) = c
              /\ A2[Len(steps) + 1] = End(steps, A)
  BY <1>2, <1>3, <1>4, TraceExtends
<1> QED
  BY <1>1, <1>5

LEMMA TraceExtendsBy ==
  ASSUME NEW steps, NEW K, NEW b, NEW v, NEW A, NEW d, Trace(steps, K, b, v, A, d),
         NEW s \in Steps, NEW c \in Seq(Sets), Len(c) <= Len(b) + d,
         Moves(s, K, End(steps, A), c), s.op # "guard"
  PROVE  \E A2 : /\ Trace(Append(steps, s), K, b, v, A2, d) /\ End(Append(steps, s), A2) = c
                 /\ A2[Len(steps) + 1] = End(steps, A)
BY TraceExtends

\* One manifest after another, the second of which leaves no guard to resolve.
LEMMA TraceConcat ==
  ASSUME NEW s, NEW t, NEW K, NEW b \in Seq(Sets), NEW v, NEW w, NEW A1, NEW A2, NEW d, NEW d2,
         Trace(s, K, b, v, A1, d), Trace(t, K, End(s, A1), w, A2, d2),
         Resolved(t), Len(End(s, A1)) + d2 <= Len(b) + d
  PROVE  \E A : Trace(s \o t, K, b, v, A, d) /\ End(s \o t, A) = End(t, A2)
<1> DEFINE n == Len(s)
           m == Len(t)
           u == s \o t
           A == [k \in 1 .. n + m + 1 |-> IF k <= n + 1 THEN A1[k] ELSE A2[k - n]]
<1>1. /\ s \in Seq(Steps) /\ n \in Nat /\ (\A k \in 1 .. n : s[k] \in Steps)
      /\ A1 \in [1 .. n + 1 -> Seq(Sets)] /\ A1[1] = b /\ d \in Nat
      /\ \A k \in 1 .. n + 1 : A1[k] \in Seq(Sets) /\ Len(A1[k]) <= Len(b) + d
  BY StepAt DEF Trace
<1>2. /\ t \in Seq(Steps) /\ m \in Nat /\ (\A k \in 1 .. m : t[k] \in Steps)
      /\ A2 \in [1 .. m + 1 -> Seq(Sets)] /\ A2[1] = A1[n + 1] /\ d2 \in Nat
      /\ \A k \in 1 .. m + 1 : A2[k] \in Seq(Sets) /\ Len(A2[k]) <= Len(A1[n + 1]) + d2
  BY StepAt DEF Trace, End
<1>3. /\ u \in Seq(Steps) /\ Len(u) = n + m
      /\ \A k \in 1 .. n : u[k] = s[k]
      /\ \A k \in 1 .. m : u[n + k] = t[k]
  BY <1>1, <1>2, ConcatIs
<1>4. \A k \in 1 .. n + 1 : A[k] = A1[k] /\ A[0 + k] = A1[k]
  BY <1>1, <1>2
<1>5. \A k \in 1 .. m + 1 : A[n + k] = A2[k]
  <2> SUFFICES ASSUME NEW k \in 1 .. m + 1 PROVE A[n + k] = A2[k]
    OBVIOUS
  <2>1. n + k \in 1 .. n + m + 1 /\ (n + k) - n = k
    BY <1>1, <1>2
  <2>2. CASE k = 1
    BY <1>2, <1>4, <2>2
  <2>3. CASE k # 1
    <3>1. ~ (n + k <= n + 1)
      BY <1>1, <1>2, <2>3
    <3> QED
      BY <2>1, <3>1
  <2> QED
    BY <2>2, <2>3
<1>6. \A k \in 1 .. n + m + 1 : k \in 1 .. n + 1 \/ \E j \in 1 .. m + 1 : k = n + j
  <2> SUFFICES ASSUME NEW k \in 1 .. n + m + 1, ~ (k \in 1 .. n + 1)
               PROVE  \E j \in 1 .. m + 1 : k = n + j
    OBVIOUS
  <2>1. k - n \in 1 .. m + 1 /\ k = n + (k - n)
    BY <1>1, <1>2
  <2> QED
    BY <2>1
<1>7. \A k \in 1 .. n + m : k \in 1 .. n \/ \E j \in 1 .. m : k = n + j
  <2> SUFFICES ASSUME NEW k \in 1 .. n + m, ~ (k \in 1 .. n)
               PROVE  \E j \in 1 .. m : k = n + j
    OBVIOUS
  <2>1. k - n \in 1 .. m /\ k = n + (k - n)
    BY <1>1, <1>2
  <2> QED
    BY <2>1
<1>8. A \in [1 .. n + m + 1 -> Seq(Sets)]
  <2>1. \A k \in 1 .. n + m + 1 : A[k] \in Seq(Sets)
    BY <1>1, <1>2, <1>4, <1>5, <1>6
  <2>2. A = [k \in 1 .. n + m + 1 |-> A[k]]
    OBVIOUS
  <2> HIDE DEF A
  <2> QED
    BY <2>1, <2>2
<1> HIDE DEF A, u, n, m
<1>9. \A k \in 1 .. n + m + 1 : Len(A[k]) <= Len(b) + d
  <2> SUFFICES ASSUME NEW k \in 1 .. n + m + 1 PROVE Len(A[k]) <= Len(b) + d
    OBVIOUS
  <2>1. Len(b) \in Nat /\ End(s, A1) = A1[n + 1] /\ A1[n + 1] \in Seq(Sets)
    BY <1>1, LenProperties DEF End, n
  <2>2. Len(A1[n + 1]) \in Nat
    BY <2>1, LenProperties
  <2>3. CASE k \in 1 .. n + 1
    <3>1. A[k] = A1[k] /\ A1[k] \in Seq(Sets) /\ Len(A1[k]) <= Len(b) + d
      BY <1>1, <1>4, <2>3
    <3>2. Len(A1[k]) \in Nat
      BY <3>1, LenProperties
    <3> QED
      BY <1>1, <2>1, <3>1, <3>2
  <2>4. ASSUME NEW j \in 1 .. m + 1, k = n + j PROVE Len(A[k]) <= Len(b) + d
    <3>1. A[k] = A2[j] /\ A2[j] \in Seq(Sets) /\ Len(A2[j]) <= Len(A1[n + 1]) + d2
      BY <1>2, <1>5, <2>4
    <3>2. Len(A2[j]) \in Nat
      BY <3>1, LenProperties
    <3> QED
      BY <1>1, <1>2, <2>1, <2>2, <3>1, <3>2
  <2> QED
    BY <1>6, <2>3, <2>4
<1>10. ASSUME NEW k \in 1 .. n + m PROVE Moves(u[k], K, A[k], A[k + 1])
  <2>1. CASE k \in 1 .. n
    <3>1. k \in 1 .. n + 1 /\ k + 1 \in 1 .. n + 1
      BY <1>1, <2>1
    <3>2. Moves(s[k], K, A1[k], A1[k + 1])
      BY <2>1 DEF Trace, n
    <3> QED
      BY <1>3, <1>4, <2>1, <3>1, <3>2
  <2>2. ASSUME NEW j \in 1 .. m, k = n + j PROVE Moves(u[k], K, A[k], A[k + 1])
    <3>1. j \in 1 .. m + 1 /\ j + 1 \in 1 .. m + 1 /\ k + 1 = n + (j + 1)
      BY <1>1, <1>2, <2>2
    <3>2. Moves(t[j], K, A2[j], A2[j + 1])
      BY DEF Trace, m
    <3>3. A[k] = A2[j] /\ A[k + 1] = A2[j + 1] /\ u[k] = t[j]
      BY <1>3, <1>5, <2>2, <3>1
    <3> QED
      BY <3>2, <3>3
  <2> QED
    BY <1>7, <2>1, <2>2
<1>11. ASSUME NEW k \in 1 .. n + m, u[k].op = "guard" PROVE Jumps(u[k], b, v, A, k, n + m + 1)
  <2>0. n + 1 \in Nat /\ m + 1 \in Nat /\ n + m + 1 \in Nat
    BY <1>1, <1>2
  <2>1. CASE k \in 1 .. n
    <3>1. Jumps(s[k], b, v, A1, k, n + 1) /\ s[k] \in Steps /\ s[k].op = "guard" /\ u[k] = s[k]
      BY <1>1, <1>3, <1>11, <2>1 DEF Trace, n
    <3>2. k \in 1 .. n + 1 /\ 0 + (n + 1) <= n + m + 1 /\ 0 + k = k
      BY <1>1, <1>2, <2>1
    <3>3. Jumps(s[k], b, v, A, 0 + k, n + m + 1)
      <4>1. PICK h \in Nat : h = n + 1
        BY <2>0
      <4>2. PICK g \in Nat : g = n + m + 1
        BY <2>0
      <4>3. /\ Jumps(s[k], b, v, A1, k, h) /\ k \in 1 .. h /\ 0 + h <= g /\ 0 \in Nat
            /\ \A j \in 1 .. h : A[0 + j] = A1[j]
        BY <1>1, <1>4, <3>1, <3>2, <4>1, <4>2
      <4> QED
        BY <3>1, <4>2, <4>3, JumpsMoved
    <3> QED
      BY <3>1, <3>2, <3>3
  <2>2. ASSUME NEW j \in 1 .. m, k = n + j PROVE Jumps(u[k], b, v, A, k, n + m + 1)
    <3>1. Jumps(t[j], End(s, A1), w, A2, j, m + 1) /\ t[j] \in Steps /\ t[j].op = "guard" /\ u[k] = t[j]
      BY <1>2, <1>3, <1>11, <2>2 DEF Trace, m
    <3>2. j \in 1 .. m + 1 /\ n + (m + 1) <= n + m + 1 /\ n \in Nat
      BY <1>1, <1>2
    <3>3. t[j].skip # UNRESOLVED
      BY <3>1 DEF Resolved, m
    <3>4. Jumps(t[j], b, v, A, n + j, n + m + 1)
      BY <1>5, <2>0, <3>1, <3>2, <3>3, JumpsMoved
    <3> QED
      BY <2>2, <3>1, <3>4
  <2> QED
    BY <1>7, <2>1, <2>2
<1>12. A[1] = b /\ Len(u) + 1 = n + m + 1
  BY <1>1, <1>2, <1>3, <1>4
<1>13. Trace(u, K, b, v, A, d)
  <2>1. K \in SUBSET AllKeys
    BY DEF Trace
  <2> QED
    BY <1>3, <1>8, <1>9, <1>10, <1>11, <1>12, <2>1 DEF Trace
<1>14. End(u, A) = End(t, A2)
  <2>1. m + 1 \in 1 .. m + 1 /\ n + (m + 1) = n + m + 1
    BY <1>1, <1>2
  <2>2. A[n + m + 1] = A2[m + 1]
    BY <1>5, <2>1
  <2> QED
    BY <1>12, <2>2 DEF End, m
<1> QED
  BY <1>13, <1>14 DEF u

----------------------------------------------------------------------------
\* Guards find their targets.
LEMMA PatchedIs ==
  ASSUME NEW steps \in Seq(Steps), NEW target \in Nat, Len(steps) < target
  PROVE  LET t == patch_guards(steps, target)
         IN  /\ t \in Seq(Steps) /\ Len(t) = Len(steps) /\ Resolved(t)
             /\ \A k \in 1 .. Len(steps) :
                  /\ t[k].op = steps[k].op
                  /\ steps[k].op # "guard" => t[k] = steps[k]
                  /\ steps[k].op = "guard" =>
                       /\ t[k].pop = steps[k].pop
                       /\ t[k].skip = IF steps[k].skip = UNRESOLVED THEN target - k ELSE steps[k].skip
<1> DEFINE n == Len(steps)
           t == patch_guards(steps, target)
<1>1. n \in Nat /\ \A k \in 1 .. n : steps[k] \in Steps
  BY StepAt
<1>2. /\ DOMAIN t = 1 .. n /\ t = [k \in 1 .. n |-> t[k]]
      /\ \A k \in 1 .. n : t[k] = IF steps[k].op = "guard" /\ steps[k].skip = UNRESOLVED
                                  THEN [steps[k] EXCEPT !.skip = target - k] ELSE steps[k]
  BY DEF patch_guards, IsGuard
<1> HIDE DEF t
<1>3. ASSUME NEW k \in 1 .. n
      PROVE  /\ t[k] \in Steps /\ t[k].op = steps[k].op
             /\ steps[k].op # "guard" => t[k] = steps[k]
             /\ steps[k].op = "guard" =>
                  /\ t[k].pop = steps[k].pop
                  /\ t[k].skip = IF steps[k].skip = UNRESOLVED THEN target - k ELSE steps[k].skip
                  /\ t[k].skip # UNRESOLVED
  <2>1. CASE steps[k].op = "guard" /\ steps[k].skip = UNRESOLVED
    <3>1. t[k] = [steps[k] EXCEPT !.skip = target - k]
      BY <1>2, <2>1
    <3>2. steps[k] \in GuardSteps
      BY <1>1, <2>1, StepIs
    <3>3. target - k \in Int /\ target - k # UNRESOLVED
      BY <1>1 DEF UNRESOLVED
    <3>4. t[k] \in GuardSteps /\ t[k].skip = target - k /\ t[k].pop = steps[k].pop /\ t[k].op = "guard"
      BY <3>1, <3>2, <3>3 DEF GuardSteps
    <3> QED
      BY <2>1, <3>3, <3>4 DEF Steps
  <2>2. CASE ~ (steps[k].op = "guard" /\ steps[k].skip = UNRESOLVED)
    <3>1. t[k] = steps[k]
      BY <1>2, <2>2
    <3> QED
      BY <1>1, <2>2, <3>1
  <2> QED
    BY <2>1, <2>2
<1>4. t \in [1 .. n -> Steps]
  BY <1>2, <1>3
<1>5. t \in Seq(Steps) /\ Len(t) = n
  BY <1>1, <1>4, SeqIs
<1>6. Resolved(t)
  BY <1>3, <1>5 DEF Resolved
<1> QED
  BY <1>3, <1>5, <1>6 DEF t

LEMMA TracePatched ==
  ASSUME NEW steps, NEW K, NEW b, NEW v, NEW A, NEW d, Trace(steps, K, b, v, A, d),
         End(steps, A) = Append(b, v)
  PROVE  Trace(patch_guards(steps, Len(steps) + 1), K, b, {}, A, d)
<1> DEFINE n == Len(steps)
           t == patch_guards(steps, n + 1)
<1>1. /\ steps \in Seq(Steps) /\ n \in Nat /\ (\A k \in 1 .. n : steps[k] \in Steps)
      /\ A \in [1 .. n + 1 -> Seq(Sets)] /\ A[1] = b /\ d \in Nat /\ K \in SUBSET AllKeys
      /\ \A k \in 1 .. n + 1 : Len(A[k]) <= Len(b) + d
  BY StepAt DEF Trace
<1>2. n + 1 \in Nat /\ n < n + 1
  BY <1>1
<1>3. /\ t \in Seq(Steps) /\ Len(t) = n /\ Resolved(t)
      /\ \A k \in 1 .. n :
           /\ t[k].op = steps[k].op
           /\ steps[k].op # "guard" => t[k] = steps[k]
           /\ steps[k].op = "guard" =>
                /\ t[k].pop = steps[k].pop
                /\ t[k].skip = IF steps[k].skip = UNRESOLVED THEN (n + 1) - k ELSE steps[k].skip
  BY <1>1, <1>2, PatchedIs
<1> HIDE DEF t
<1>4. ASSUME NEW k \in 1 .. n PROVE Moves(t[k], K, A[k], A[k + 1])
  <2>1. Moves(steps[k], K, A[k], A[k + 1])
    BY DEF Trace, n
  <2>2. CASE steps[k].op = "guard"
    <3>1. A[k + 1] = A[k] /\ t[k].op = "guard"
      BY <1>3, <2>1, <2>2 DEF Moves
    <3> QED
      BY <3>1 DEF Moves
  <2>3. CASE steps[k].op # "guard"
    BY <1>3, <2>1, <2>3
  <2> QED
    BY <2>2, <2>3
<1>5. ASSUME NEW k \in 1 .. n, t[k].op = "guard" PROVE Jumps(t[k], b, {}, A, k, n + 1)
  <2>1. Jumps(steps[k], b, v, A, k, n + 1) /\ steps[k].op = "guard" /\ steps[k] \in Steps
    BY <1>1, <1>3, <1>5 DEF Trace, n
  <2>2. t[k].pop = steps[k].pop
    BY <1>3, <2>1
  <2>3. CASE steps[k].skip = UNRESOLVED
    <3>1. t[k].skip = (n + 1) - k
      BY <1>3, <2>1, <2>3
    <3>2. t[k].skip \in Nat \ {0} /\ k + t[k].skip = n + 1 /\ t[k].skip # UNRESOLVED
      BY <1>1, <3>1 DEF UNRESOLVED
    <3>3. Below(A[k], t[k].pop) = b /\ (TopEmpty(A[k]) => v = {}) /\ t[k].pop <= Len(A[k])
      BY <2>1, <2>2, <2>3 DEF Jumps
    <3>4. A[n + 1] = Append(b, v)
      BY DEF End
    <3> QED
      BY <1>1, <3>2, <3>3, <3>4 DEF Jumps
  <2>4. CASE steps[k].skip # UNRESOLVED
    <3>1. t[k].skip = steps[k].skip
      BY <1>3, <2>1, <2>4
    <3> QED
      BY <2>1, <2>2, <2>4, <3>1 DEF Jumps
  <2> QED
    BY <2>3, <2>4
<1> QED
  BY <1>1, <1>3, <1>4, <1>5 DEF Trace, t

\* A mask is pushed down.
LEMMA MaskedIs ==
  ASSUME NEW steps \in Seq(Steps), NEW E \in SUBSET AllKeys
  PROVE  LET t == mask_folds(steps, E)
         IN  /\ t \in Seq(Steps) /\ Len(t) = Len(steps)
             /\ \A k \in 1 .. Len(steps) :
                  /\ t[k].op = steps[k].op
                  /\ steps[k].op # "combine" => t[k] = steps[k]
                  /\ steps[k].op = "combine" =>
                       /\ t[k].arity = steps[k].arity /\ t[k].fold = steps[k].fold
                       /\ t[k].keys = steps[k].keys
                       /\ t[k].mask = IF steps[k].mask = << >> THEN << E >> ELSE steps[k].mask
<1> DEFINE n == Len(steps)
           t == mask_folds(steps, E)
<1>1. n \in Nat /\ \A k \in 1 .. n : steps[k] \in Steps
  BY StepAt
<1>2. /\ DOMAIN t = 1 .. n /\ t = [k \in 1 .. n |-> t[k]]
      /\ \A k \in 1 .. n : t[k] = IF steps[k].op = "combine" /\ steps[k].mask = << >>
                                  THEN [steps[k] EXCEPT !.mask = << E >>] ELSE steps[k]
  BY DEF mask_folds
<1> HIDE DEF t
<1>3. ASSUME NEW k \in 1 .. n
      PROVE  /\ t[k] \in Steps /\ t[k].op = steps[k].op
             /\ steps[k].op # "combine" => t[k] = steps[k]
             /\ steps[k].op = "combine" =>
                  /\ t[k].arity = steps[k].arity /\ t[k].fold = steps[k].fold
                  /\ t[k].keys = steps[k].keys
                  /\ t[k].mask = IF steps[k].mask = << >> THEN << E >> ELSE steps[k].mask
  <2>1. CASE steps[k].op = "combine" /\ steps[k].mask = << >>
    <3>1. t[k] = [steps[k] EXCEPT !.mask = << E >>]
      BY <1>2, <2>1
    <3>2. steps[k] \in FoldSteps
      BY <1>1, <2>1, StepIs
    <3>3. << E >> \in {<< >>} \cup {<< K >> : K \in SUBSET AllKeys}
      OBVIOUS
    <3>4. /\ t[k] \in FoldSteps /\ t[k].mask = << E >> /\ t[k].op = "combine"
          /\ t[k].arity = steps[k].arity /\ t[k].fold = steps[k].fold /\ t[k].keys = steps[k].keys
      BY <3>1, <3>2, <3>3 DEF FoldSteps
    <3> QED
      BY <2>1, <3>4 DEF Steps
  <2>2. CASE ~ (steps[k].op = "combine" /\ steps[k].mask = << >>)
    <3>1. t[k] = steps[k]
      BY <1>2, <2>2
    <3> QED
      BY <1>1, <2>2, <3>1
  <2> QED
    BY <2>1, <2>2
<1>4. t \in [1 .. n -> Steps]
  BY <1>2, <1>3
<1>5. t \in Seq(Steps) /\ Len(t) = n
  BY <1>1, <1>4, SeqIs
<1> QED
  BY <1>3, <1>5 DEF t

LEMMA TraceMasked ==
  ASSUME NEW steps, NEW E \in SUBSET AllKeys, NEW K \in SUBSET AllKeys, NEW b, NEW v, NEW A, NEW d,
         Trace(steps, E, b, v, A, d)
  PROVE  Trace(mask_folds(steps, E), K, b, v, A, d)
<1> DEFINE n == Len(steps)
           t == mask_folds(steps, E)
<1>1. /\ steps \in Seq(Steps) /\ n \in Nat /\ (\A k \in 1 .. n : steps[k] \in Steps)
      /\ A \in [1 .. n + 1 -> Seq(Sets)] /\ A[1] = b /\ d \in Nat
      /\ \A k \in 1 .. n + 1 : Len(A[k]) <= Len(b) + d
  BY StepAt DEF Trace
<1>2. /\ t \in Seq(Steps) /\ Len(t) = n
      /\ \A k \in 1 .. n :
           /\ t[k].op = steps[k].op
           /\ steps[k].op # "combine" => t[k] = steps[k]
           /\ steps[k].op = "combine" =>
                /\ t[k].arity = steps[k].arity /\ t[k].fold = steps[k].fold
                /\ t[k].keys = steps[k].keys
                /\ t[k].mask = IF steps[k].mask = << >> THEN << E >> ELSE steps[k].mask
  BY <1>1, MaskedIs
<1> HIDE DEF t
<1>3. ASSUME NEW k \in 1 .. n PROVE Moves(t[k], K, A[k], A[k + 1])
  <2>1. Moves(steps[k], E, A[k], A[k + 1])
    BY DEF Trace, n
  <2>2. CASE steps[k].op # "combine"
    <3>1. t[k] = steps[k] /\ t[k].op # "combine"
      BY <1>2, <2>2
    <3> QED
      BY <2>1, <3>1 DEF Moves
  <2>3. CASE steps[k].op = "combine"
    <3>1. /\ t[k].op = "combine" /\ t[k].arity = steps[k].arity /\ t[k].fold = steps[k].fold
          /\ t[k].keys = steps[k].keys
          /\ t[k].mask = IF steps[k].mask = << >> THEN << E >> ELSE steps[k].mask
      BY <1>2, <2>3
    <3>2. Live(t[k], K) = Live(steps[k], E)
      <4>1. << E >> # << >> /\ << E >>[1] = E
        BY OneIs
      <4> QED
        BY <3>1, <4>1 DEF Live
    <3>3. \A y : Claims(t[k], y) = Claims(steps[k], y)
      BY <3>1 DEF Claims
    <3>4. \A y : Folded(t[k], y) = Folded(steps[k], y)
      BY <3>1, <3>3 DEF Folded
    <3>5. LET y == Masked(Above(A[k], steps[k].arity), Live(steps[k], E))
          IN  /\ steps[k].arity <= Len(A[k])
              /\ Claims(steps[k], y) \subseteq steps[k].keys
              /\ A[k + 1] = Append(Below(A[k], steps[k].arity), Folded(steps[k], y))
      BY <2>1, <2>3 DEF Moves
    <3>6. LET y == Masked(Above(A[k], t[k].arity), Live(t[k], K))
          IN  /\ t[k].arity <= Len(A[k])
              /\ Claims(t[k], y) \subseteq t[k].keys
              /\ A[k + 1] = Append(Below(A[k], t[k].arity), Folded(t[k], y))
      BY <3>1, <3>2, <3>3, <3>4, <3>5
    <3> QED
      BY <3>1, <3>6 DEF Moves
  <2> QED
    BY <2>2, <2>3
<1>4. ASSUME NEW k \in 1 .. n, t[k].op = "guard" PROVE Jumps(t[k], b, v, A, k, n + 1)
  <2>1. steps[k].op = "guard" /\ t[k] = steps[k]
    BY <1>2, <1>4
  <2> QED
    BY <2>1 DEF Trace, n
<1> QED
  BY <1>1, <1>2, <1>3, <1>4 DEF Trace, t

\* Counting up.
LEMMA LeastExists ==
  ASSUME NEW S \in SUBSET Nat, S # {}
  PROVE  \E n \in S : \A m \in S : n <= m
<1>1. PICK n \in S : \A m \in S : ~ (<< m, n >> \in OpToRel(<, Nat))
  BY WFMin, NatLessThanWellFounded
<1>2. \A m \in S : ~ (m < n)
  BY <1>1 DEF OpToRel
<1> QED
  BY <1>2

LEMMA SetInduction ==
  ASSUME NEW S, 0 \in S, \A n \in Nat : n \in S => n + 1 \in S
  PROVE  Nat \subseteq S
<1> DEFINE missing == {n \in Nat : n \notin S}
<1>1. ASSUME missing # {} PROVE FALSE
  <2>1. missing \in SUBSET Nat
    OBVIOUS
  <2> HIDE DEF missing
  <2>2. PICK n \in missing : \A m \in missing : n <= m
    BY <1>1, <2>1, LeastExists
  <2>3. n \in Nat /\ n # 0 /\ n \notin S
    BY <2>2 DEF missing
  <2>4. n - 1 \in Nat /\ (n - 1) + 1 = n
    BY <2>3
  <2>5. n - 1 \in missing
    BY <2>3, <2>4 DEF missing
  <2> QED
    BY <2>2, <2>3, <2>4, <2>5
<1> QED
  BY <1>1

----------------------------------------------------------------------------
\* A sub-plan is inlined without its guards.

\* u holds what is left of the beginnings of the steps.
UnguardedUpto(steps, n, u) ==
  u = [k \in 0 .. n |-> IF k = 0 THEN << >>
                        ELSE IF IsGuard(steps[k]) THEN u[k - 1] ELSE Append(u[k - 1], steps[k])]

LEMMA UnguardedExists ==
  ASSUME NEW steps
  PROVE  \A n \in Nat : \E u : UnguardedUpto(steps, n, u)
<1> DEFINE S == {n \in Nat : \E u : UnguardedUpto(steps, n, u)}
<1>1. 0 \in S
  <2>1. UnguardedUpto(steps, 0, [k \in 0 .. 0 |-> << >>])
    BY DEF UnguardedUpto
  <2> QED
    BY <2>1
<1>2. ASSUME NEW n \in Nat, n \in S PROVE n + 1 \in S
  <2>1. PICK u : UnguardedUpto(steps, n, u)
    BY <1>2
  <2> DEFINE g == [k \in 0 .. n + 1 |-> IF k \in 0 .. n THEN u[k]
                     ELSE IF IsGuard(steps[k]) THEN u[n] ELSE Append(u[n], steps[k])]
  <2>2. \A k \in 0 .. n : u[k] = IF k = 0 THEN << >>
                                 ELSE IF IsGuard(steps[k]) THEN u[k - 1] ELSE Append(u[k - 1], steps[k])
    BY <2>1, Zenon DEF UnguardedUpto
  <2>3. \A k \in 0 .. n + 1 : k # 0 => k - 1 \in 0 .. n /\ k - 1 \in 0 .. n + 1
    OBVIOUS
  <2>4. \A k \in 0 .. n : g[k] = u[k]
    OBVIOUS
  <2>5. \A k \in 0 .. n + 1 : ~ (k \in 0 .. n) => k = n + 1 /\ k # 0 /\ k - 1 = n
    OBVIOUS
  <2>6. \A k \in 0 .. n + 1 : g[k] = IF k = 0 THEN << >>
                                     ELSE IF IsGuard(steps[k]) THEN g[k - 1] ELSE Append(g[k - 1], steps[k])
    <3>1. TAKE k \in 0 .. n + 1
    <3>2. CASE k \in 0 .. n
      BY <2>2, <2>3, <2>4, <3>2
    <3>3. CASE ~ (k \in 0 .. n)
      <4>1. k = n + 1 /\ k # 0 /\ k - 1 = n /\ g[k - 1] = u[n]
        BY <2>4, <2>5, <3>3
      <4> QED
        BY <3>3, <4>1
    <3> QED
      BY <3>2, <3>3
  <2> HIDE DEF g
  <2>7. g = [k \in 0 .. n + 1 |-> g[k]]
    BY DEF g
  <2>8. UnguardedUpto(steps, n + 1, g)
    BY <2>6, <2>7 DEF UnguardedUpto
  <2> QED
    BY <2>8
<1> HIDE DEF S
<1>3. Nat \subseteq S
  BY <1>1, <1>2, SetInduction
<1> QED
  BY <1>3 DEF S

LEMMA UnguardedIs ==
  ASSUME NEW steps \in Seq(Steps)
  PROVE  \E u : /\ unguarded(steps) = u[Len(steps)]
                /\ u[0] = << >>
                /\ \A k \in 1 .. Len(steps) :
                     u[k] = IF steps[k].op = "guard" THEN u[k - 1] ELSE Append(u[k - 1], steps[k])
<1> DEFINE n == Len(steps)
           u == CHOOSE f : UnguardedUpto(steps, n, f)
<1>1. n \in Nat
  BY LenProperties
<1>2. UnguardedUpto(steps, n, u)
  BY <1>1, UnguardedExists
<1>3. unguarded(steps) = u[n]
  BY DEF unguarded, UnguardedUpto
<1> HIDE DEF u
<1>4. 0 \in 0 .. n /\ \A k \in 1 .. n : k \in 0 .. n /\ k # 0
  BY <1>1
<1>5. \A k \in 0 .. n : u[k] = IF k = 0 THEN << >>
                               ELSE IF IsGuard(steps[k]) THEN u[k - 1] ELSE Append(u[k - 1], steps[k])
  BY <1>2, Zenon DEF UnguardedUpto
<1>6. u[0] = << >> /\ \A k \in 1 .. n :
        u[k] = IF steps[k].op = "guard" THEN u[k - 1] ELSE Append(u[k - 1], steps[k])
  BY <1>4, <1>5 DEF IsGuard
<1> QED
  BY <1>3, <1>6

\* A trace, guards left aside.
Path(steps, K, b, A, d) ==
  /\ A \in [1 .. Len(steps) + 1 -> Seq(Sets)] /\ A[1] = b
  /\ \A k \in 1 .. Len(steps) + 1 : Len(A[k]) <= Len(b) + d
  /\ \A k \in 1 .. Len(steps) : Moves(steps[k], K, A[k], A[k + 1])

\* Inlined, a manifest that has yet to fold its operands has the same trace
\* but for the places of its guards.
LEMMA TraceUnguarded ==
  ASSUME NEW steps \in Seq(Steps),
         NEW K \in SUBSET AllKeys, NEW b \in Seq(Sets), NEW A, NEW d \in Nat,
         Path(steps, K, b, A, d)
  PROVE  \E A2 : Trace(unguarded(steps), K, b, {}, A2, d) /\ End(unguarded(steps), A2) = End(steps, A)
<1> DEFINE n == Len(steps)
<1>1. n \in Nat /\ \A k \in 1 .. n : steps[k] \in Steps
  BY StepAt
<1>7. /\ A \in [1 .. n + 1 -> Seq(Sets)] /\ A[1] = b
      /\ \A k \in 1 .. n + 1 : Len(A[k]) <= Len(b) + d
      /\ \A k \in 1 .. n : Moves(steps[k], K, A[k], A[k + 1])
  BY DEF Path
<1>2. PICK u : /\ unguarded(steps) = u[n]
               /\ u[0] = << >>
               /\ \A k \in 1 .. n :
                    u[k] = IF steps[k].op = "guard" THEN u[k - 1] ELSE Append(u[k - 1], steps[k])
  BY UnguardedIs
<1> DEFINE Good(k) == \E A2 : Trace(u[k], K, b, {}, A2, d) /\ End(u[k], A2) = A[k + 1]
           S == {k \in Nat : k <= n => Good(k)}
<1>3. 0 \in S
  <2>1. PICK A2 : Trace(<< >>, K, b, {}, A2, 0) /\ End(<< >>, A2) = b
    BY TraceOfNone
  <2>2. Len(b) \in Nat /\ 0 <= d
    BY LenProperties
  <2>3. Trace(<< >>, K, b, {}, A2, d)
    BY <2>1, <2>2, TraceWithin
  <2>4. Good(0)
    BY <1>2, <1>7, <2>1, <2>3
  <2> QED
    BY <2>4
<1>4. ASSUME NEW k \in Nat, k \in S PROVE k + 1 \in S
  <2> SUFFICES ASSUME k + 1 <= n PROVE Good(k + 1)
    OBVIOUS
  <2>1. k + 1 \in 1 .. n /\ (k + 1) - 1 = k /\ k <= n /\ k + 1 \in 1 .. n + 1 /\ (k + 1) + 1 \in 1 .. n + 1
    BY <1>1
  <2>2. Good(k)
    BY <1>4, <2>1
  <2> DEFINE s == steps[k + 1]
             w == u[k]
  <2>3. PICK A2 : Trace(w, K, b, {}, A2, d) /\ End(w, A2) = A[k + 1]
    BY <2>2
  <2>4. Moves(s, K, A[k + 1], A[(k + 1) + 1]) /\ s \in Steps
    BY <1>1, <1>7, <2>1
  <2>5. u[k + 1] = IF s.op = "guard" THEN w ELSE Append(w, s)
    BY <1>2, <2>1
  <2>6. A[(k + 1) + 1] \in Seq(Sets) /\ Len(A[(k + 1) + 1]) <= Len(b) + d
    BY <1>7, <2>1
  <2> HIDE DEF s, w
  <2>7. CASE s.op = "guard"
    <3>1. A[(k + 1) + 1] = A[k + 1]
      BY <2>4, <2>7 DEF Moves
    <3>2. u[k + 1] = w
      BY <2>5, <2>7
    <3> QED
      BY <2>3, <3>1, <3>2
  <2>8. CASE s.op # "guard"
    <3>0. PICK c \in Seq(Sets) : c = A[(k + 1) + 1]
      BY <2>6
    <3>1. Moves(s, K, End(w, A2), c) /\ Len(c) <= Len(b) + d
      BY <2>3, <2>4, <2>6, <3>0
    <3>2. PICK A3 : Trace(Append(w, s), K, b, {}, A3, d) /\ End(Append(w, s), A3) = c
      BY <2>3, <2>4, <2>8, <3>1, TraceExtendsBy
    <3>3. u[k + 1] = Append(w, s)
      BY <2>5, <2>8
    <3> QED
      BY <3>0, <3>2, <3>3
  <2> QED
    BY <2>7, <2>8
<1> HIDE DEF S
<1>5. n \in S
  BY <1>1, <1>3, <1>4, SetInduction
<1>6. Good(n)
  BY <1>1, <1>5 DEF S
<1> QED
  BY <1>2, <1>6 DEF End

LEMMA UnguardedResolved ==
  ASSUME NEW steps \in Seq(Steps)
  PROVE  unguarded(steps) \in Seq(Steps) /\ Resolved(unguarded(steps))
<1> DEFINE n == Len(steps)
<1>1. n \in Nat /\ \A k \in 1 .. n : steps[k] \in Steps
  BY StepAt
<1>2. PICK u : /\ unguarded(steps) = u[n]
               /\ u[0] = << >>
               /\ \A k \in 1 .. n :
                    u[k] = IF steps[k].op = "guard" THEN u[k - 1] ELSE Append(u[k - 1], steps[k])
  BY UnguardedIs
<1> DEFINE Good(k) == u[k] \in Seq(Steps) /\ \A j \in 1 .. Len(u[k]) : u[k][j].op # "guard"
           S == {k \in Nat : k <= n => Good(k)}
<1>3. 0 \in S
  <2>1. Len(<< >>) = 0 /\ << >> \in Seq(Steps) /\ 1 .. 0 = {}
    BY EmptyIs
  <2>2. Good(0)
    BY <1>2, <2>1
  <2> QED
    BY <2>2
<1>4. ASSUME NEW k \in Nat, k \in S PROVE k + 1 \in S
  <2> SUFFICES ASSUME k + 1 <= n PROVE Good(k + 1)
    OBVIOUS
  <2>1. k + 1 \in 1 .. n /\ (k + 1) - 1 = k /\ k <= n
    BY <1>1
  <2> DEFINE s == steps[k + 1]
             w == u[k]
             x == u[k + 1]
  <2>2. w \in Seq(Steps) /\ \A j \in 1 .. Len(w) : w[j].op # "guard"
    BY <1>4, <2>1
  <2>3. s \in Steps /\ x = IF s.op = "guard" THEN w ELSE Append(w, s)
    BY <1>1, <1>2, <2>1
  <2>4. Good(k + 1) <=> x \in Seq(Steps) /\ \A j \in 1 .. Len(x) : x[j].op # "guard"
    OBVIOUS
  <2> HIDE DEF s, w, x, Good
  <2>5. CASE s.op = "guard"
    BY <2>2, <2>3, <2>4, <2>5
  <2>6. CASE s.op # "guard"
    <3>1. /\ x \in Seq(Steps) /\ Len(x) = Len(w) + 1 /\ x[Len(w) + 1] = s /\ Len(w) \in Nat
          /\ \A j \in 1 .. Len(w) : x[j] = w[j]
      BY <2>2, <2>3, <2>6, AppendIs, LenProperties
    <3>2. \A j \in 1 .. Len(w) + 1 : j \in 1 .. Len(w) \/ j = Len(w) + 1
      BY <3>1
    <3> QED
      BY <2>2, <2>4, <2>6, <3>1, <3>2
  <2> QED
    BY <2>5, <2>6
<1> HIDE DEF S
<1>5. n \in S
  BY <1>1, <1>3, <1>4, SetInduction
<1>6. Good(n)
  BY <1>1, <1>5 DEF S
<1> QED
  BY <1>2, <1>6 DEF Resolved

----------------------------------------------------------------------------
\* What is denoted, pair by pair.
LEMMA RangeIs ==
  ASSUME NEW S, NEW x \in Seq(S)
  PROVE  /\ \A j \in 1 .. Len(x) : x[j] \in ToSet(x)
         /\ \A s \in ToSet(x) : \E j \in 1 .. Len(x) : x[j] = s
         /\ ToSet(x) \subseteq S
<1>1. DOMAIN x = 1 .. Len(x) /\ \A j \in 1 .. Len(x) : x[j] \in S
  BY LenProperties, ElementOfSeq
<1> QED
  BY <1>1 DEF ToSet

LEMMA AndIs ==
  ASSUME NEW S, NEW x \in Seq(S)
  PROVE  \A p : p \in Intersection(ToSet(x)) <=>
                  Len(x) # 0 /\ \A j \in 1 .. Len(x) : p \in x[j]
<1>1. Len(x) \in Nat
  BY LenProperties
<1> SUFFICES ASSUME NEW p
             PROVE  p \in Intersection(ToSet(x)) <=>
                      Len(x) # 0 /\ \A j \in 1 .. Len(x) : p \in x[j]
  OBVIOUS
<1>2. p \in Intersection(ToSet(x)) <=>
        (\E s \in ToSet(x) : p \in s) /\ \A s \in ToSet(x) : p \in s
  BY DEF Intersection
<1>3. ASSUME Len(x) # 0 PROVE 1 \in 1 .. Len(x)
  BY <1>1, <1>3
<1>4. ASSUME NEW j \in 1 .. Len(x) PROVE Len(x) # 0
  BY <1>1
<1> QED
  BY <1>2, <1>3, <1>4, RangeIs

LEMMA OrIs ==
  ASSUME NEW S, NEW x \in Seq(S)
  PROVE  \A p : p \in UNION ToSet(x) <=> \E j \in 1 .. Len(x) : p \in x[j]
BY RangeIs

LEMMA DiffIs ==
  ASSUME NEW S, NEW x \in Seq(S), Len(x) # 0
  PROVE  \A p : p \in Denotes("diff", x) <=> p \in x[1] /\ \A j \in 2 .. Len(x) : p \notin x[j]
<1>1. Len(x) \in Nat /\ x # << >>
  BY LenProperties, EmptyIs
<1>2. /\ Tail(x) \in Seq(S) /\ Len(Tail(x)) = Len(x) - 1
      /\ \A i \in 1 .. Len(Tail(x)) : Tail(x)[i] = x[i + 1]
  BY <1>1, HeadTailProperties
<1>3. \A p : p \in UNION ToSet(Tail(x)) <=> \E j \in 1 .. Len(Tail(x)) : p \in Tail(x)[j]
  BY <1>2, OrIs
<1>4. \A j \in 1 .. Len(x) - 1 : j + 1 \in 2 .. Len(x)
  BY <1>1
<1>5. \A j \in 2 .. Len(x) : j - 1 \in 1 .. Len(x) - 1 /\ (j - 1) + 1 = j
  BY <1>1
<1>6. \A p : p \in UNION ToSet(Tail(x)) <=> \E j \in 2 .. Len(x) : p \in x[j]
  BY <1>2, <1>3, <1>4, <1>5
<1> QED
  BY <1>6 DEF Denotes

LEMMA KeyIs ==
  ASSUME NEW b \in Sets
  PROVE  /\ \A p \in b : p[1] \in KeysOf(b)
         /\ KeysOf(b) \in SUBSET AllKeys
         /\ \A k \in KeysOf(b) : \E p \in b : p[1] = k
BY DEF KeysOf, Sets, AllKeys

\* The operands x stand for the bitmaps D, whose keys are within the shapes: an
\* operand has all of its bitmap that is live, and nothing else.
Stand(x, D, shapes, K) ==
  /\ x \in Seq(Sets) /\ D \in Seq(Sets) /\ shapes \in Seq(SUBSET AllKeys)
  /\ Len(x) = Len(D) /\ Len(shapes) = Len(D)
  /\ \A j \in 1 .. Len(D) :
       x[j] \subseteq D[j] /\ KeysOf(D[j]) \subseteq shapes[j] /\ cut(D[j], K) \subseteq x[j]

\* The keys of a fold over operands of these shapes.
Shaped(fold, keys, shapes) ==
  /\ fold = "and" => Len(shapes) # 0 /\ keys = Intersection(ToSet(shapes))
  /\ fold = "or" => keys = UNION ToSet(shapes)
  /\ fold = "diff" => Len(shapes) \notin {0, 1} /\ keys = shapes[1]

\* A fold makes of live operands what it denotes, where it is live, and claims
\* keys it has.
LEMMA FoldedIs ==
  ASSUME NEW s, s.fold \in Folds, NEW x, NEW D, NEW shapes, NEW K, Stand(x, D, shapes, K),
         Shaped(s.fold, s.keys, shapes)
  PROVE  /\ Claims(s, Masked(x, K)) \subseteq s.keys
         /\ Folded(s, Masked(x, K)) = cut(Denotes(s.fold, D), K)
         /\ Denotes(s.fold, D) \in Sets /\ KeysOf(Denotes(s.fold, D)) \subseteq s.keys
<1> DEFINE n == Len(D)
           y == Masked(x, K)
           M == Denotes(s.fold, D)
<1>1. /\ x \in Seq(Sets) /\ D \in Seq(Sets) /\ shapes \in Seq(SUBSET AllKeys)
      /\ n \in Nat /\ Len(x) = n /\ Len(shapes) = n
      /\ \A j \in 1 .. n : x[j] \in Sets /\ D[j] \in Sets /\ shapes[j] \in SUBSET AllKeys
      /\ \A j \in 1 .. n :
           x[j] \subseteq D[j] /\ KeysOf(D[j]) \subseteq shapes[j] /\ cut(D[j], K) \subseteq x[j]
  BY LenProperties, ElementOfSeq DEF Stand
<1>2. /\ y = [j \in 1 .. n |-> cut(x[j], K)] /\ DOMAIN y = 1 .. n
      /\ \A j \in 1 .. n : y[j] = cut(D[j], K)
  BY <1>1 DEF Masked, cut
<1>3. \A j \in 1 .. n : y[j] \in Sets
  BY <1>1, <1>2 DEF cut, Sets
<1> HIDE DEF y
<1>4. y \in Seq(Sets) /\ Len(y) = n
  BY <1>1, <1>2, <1>3, SeqIs
<1>5. \A j \in 1 .. n : \A p : p \in y[j] <=> p \in D[j] /\ p[1] \in K
  BY <1>2 DEF cut
<1>6. \A j \in 1 .. n : \A p \in D[j] : p[1] \in shapes[j]
  BY <1>1, KeyIs
<1>7. \A j \in 1 .. n : \A p \in y[j] : p[1] \in KeysOf(y[j])
  BY <1>3, KeyIs
<1>8. \A j \in 1 .. n : \A k \in KeysOf(y[j]) : k \in shapes[j]
  <2> SUFFICES ASSUME NEW j \in 1 .. n, NEW k \in KeysOf(y[j]) PROVE k \in shapes[j]
    OBVIOUS
  <2>1. PICK p \in y[j] : p[1] = k
    BY <1>3, KeyIs
  <2> QED
    BY <1>5, <1>6, <2>1
<1>9. CASE s.fold = "and"
  <2>1. n # 0 /\ s.keys = Intersection(ToSet(shapes))
    BY <1>1, <1>9 DEF Shaped
  <2>2. \A p : p \in M <=> \A j \in 1 .. n : p \in D[j]
    BY <1>1, <1>9, <2>1, AndIs DEF Denotes
  <2>3. \A p : p \in Denotes("and", y) <=> \A j \in 1 .. n : p \in y[j]
    BY <1>4, <2>1, AndIs DEF Denotes
  <2>4. \A k : k \in s.keys <=> \A j \in 1 .. n : k \in shapes[j]
    BY <1>1, <2>1, AndIs
  <2>5. 1 \in 1 .. n
    BY <1>1, <2>1
  <2>6. ASSUME NEW p \in M PROVE p[1] \in s.keys
    BY <1>6, <2>2, <2>4, <2>6
  <2>7. Claims(s, y) = IF s.keys = {} THEN {} ELSE Intersection({KeysOf(y[j]) : j \in 1 .. n})
    BY <1>2, <1>9 DEF Claims
  <2>8. \A k : k \in Intersection({KeysOf(y[j]) : j \in 1 .. n}) <=> \A j \in 1 .. n : k \in KeysOf(y[j])
    BY <2>5 DEF Intersection
  <2>9. Claims(s, y) \subseteq s.keys
    BY <1>8, <2>4, <2>7, <2>8
  <2>10. \A p : p \in Denotes("and", y) => p[1] \in Claims(s, y)
    <3> SUFFICES ASSUME NEW p, p \in Denotes("and", y) PROVE p[1] \in Claims(s, y)
      OBVIOUS
    <3>1. \A j \in 1 .. n : p \in y[j] /\ p \in D[j] /\ p[1] \in KeysOf(y[j])
      BY <1>5, <1>7, <2>3
    <3>2. s.keys # {}
      BY <2>2, <2>6, <3>1
    <3> QED
      BY <2>7, <2>8, <3>1, <3>2
  <2>11. \A p : p \in Denotes("and", y) <=> p \in M /\ p[1] \in K
    BY <1>5, <2>2, <2>3, <2>5
  <2>12. \A p : p \in Folded(s, y) <=> p \in M /\ p[1] \in K
    BY <1>9, <2>10, <2>11 DEF Folded
  <2>13. \A p : p \in cut(M, K) <=> p \in M /\ p[1] \in K
    BY DEF cut
  <2>14. M \in Sets
    BY <1>1, <2>2, <2>5 DEF Sets
  <2>15. KeysOf(M) \subseteq s.keys
    BY <2>6 DEF KeysOf
  <2> QED
    BY <2>9, <2>12, <2>13, <2>14, <2>15 DEF y
<1>10. CASE s.fold = "or"
  <2>1. s.keys = UNION ToSet(shapes)
    BY <1>10 DEF Shaped
  <2>2. \A p : p \in M <=> \E j \in 1 .. n : p \in D[j]
    BY <1>1, <1>10, OrIs DEF Denotes
  <2>3. \A p : p \in Denotes("or", y) <=> \E j \in 1 .. n : p \in y[j]
    BY <1>4, OrIs DEF Denotes
  <2>4. \A k : k \in s.keys <=> \E j \in 1 .. n : k \in shapes[j]
    BY <1>1, <2>1, OrIs
  <2>5. Claims(s, y) = UNION {KeysOf(y[j]) : j \in 1 .. n}
    BY <1>2, <1>10 DEF Claims
  <2>6. Claims(s, y) \subseteq s.keys
    BY <1>8, <2>4, <2>5
  <2>7. \A p : p \in Denotes("or", y) => p[1] \in Claims(s, y)
    BY <1>7, <2>3, <2>5
  <2>8. \A p : p \in Denotes("or", y) <=> p \in M /\ p[1] \in K
    BY <1>5, <2>2, <2>3
  <2>9. \A p : p \in Folded(s, y) <=> p \in M /\ p[1] \in K
    BY <1>10, <2>7, <2>8 DEF Folded
  <2>10. \A p : p \in cut(M, K) <=> p \in M /\ p[1] \in K
    BY DEF cut
  <2>11. M \in Sets
    BY <1>1, <2>2 DEF Sets
  <2>12. ASSUME NEW p \in M PROVE p[1] \in s.keys
    BY <1>6, <2>2, <2>4, <2>12
  <2>13. KeysOf(M) \subseteq s.keys
    BY <2>12 DEF KeysOf
  <2> QED
    BY <2>6, <2>9, <2>10, <2>11, <2>13 DEF y
<1>11. CASE s.fold = "diff"
  <2>1. n # 0 /\ s.keys = shapes[1] /\ 1 \in 1 .. n
    BY <1>1, <1>11 DEF Shaped
  <2>2. \A p : p \in M <=> p \in D[1] /\ \A j \in 2 .. n : p \notin D[j]
    BY <1>1, <1>11, <2>1, DiffIs
  <2>3. \A p : p \in Denotes("diff", y) <=> p \in y[1] /\ \A j \in 2 .. n : p \notin y[j]
    BY <1>4, <2>1, DiffIs
  <2>4. Claims(s, y) = KeysOf(y[1])
    BY <1>11 DEF Claims
  <2>5. Claims(s, y) \subseteq s.keys
    BY <1>8, <2>1, <2>4
  <2>6. \A p : p \in Denotes("diff", y) => p[1] \in Claims(s, y)
    BY <1>7, <2>1, <2>3, <2>4
  <2>7. \A j \in 2 .. n : j \in 1 .. n
    BY <1>1
  <2>8. \A p : p \in Denotes("diff", y) <=> p \in M /\ p[1] \in K
    BY <1>5, <2>1, <2>2, <2>3, <2>7
  <2>9. \A p : p \in Folded(s, y) <=> p \in M /\ p[1] \in K
    BY <1>11, <2>6, <2>8 DEF Folded
  <2>10. \A p : p \in cut(M, K) <=> p \in M /\ p[1] \in K
    BY DEF cut
  <2>11. M \in Sets
    BY <1>1, <2>1, <2>2 DEF Sets
  <2>12. ASSUME NEW p \in M PROVE p[1] \in s.keys
    BY <1>6, <2>1, <2>2, <2>12
  <2>13. KeysOf(M) \subseteq s.keys
    BY <2>12 DEF KeysOf
  <2> QED
    BY <2>5, <2>9, <2>10, <2>11, <2>13 DEF y
<1> QED
  BY <1>9, <1>10, <1>11 DEF Folds

LEMMA StandOne ==
  ASSUME NEW r \in Sets, NEW M \in Sets, NEW keys \in SUBSET AllKeys, NEW K,
         r \subseteq M, KeysOf(M) \subseteq keys, cut(M, K) \subseteq r
  PROVE  Stand(<< r >>, << M >>, << keys >>, K)
<1>1. << r >> \in Seq(Sets) /\ Len(<< r >>) = 1 /\ << r >>[1] = r
  BY OneIs
<1>2. << M >> \in Seq(Sets) /\ Len(<< M >>) = 1 /\ << M >>[1] = M
  BY OneIs
<1>3. << keys >> \in Seq(SUBSET AllKeys) /\ Len(<< keys >>) = 1 /\ << keys >>[1] = keys
  BY OneIs
<1>4. \A j \in 1 .. 1 : j = 1
  OBVIOUS
<1> QED
  BY <1>1, <1>2, <1>3, <1>4 DEF Stand

LEMMA StandTogether ==
  ASSUME NEW x, NEW D, NEW shapes, NEW x2, NEW D2, NEW shapes2, NEW K,
         Stand(x, D, shapes, K), Stand(x2, D2, shapes2, K)
  PROVE  Stand(x \o x2, D \o D2, shapes \o shapes2, K)
<1> DEFINE n == Len(D)
           m == Len(D2)
<1>1. /\ x \in Seq(Sets) /\ D \in Seq(Sets) /\ shapes \in Seq(SUBSET AllKeys)
      /\ n \in Nat /\ Len(x) = n /\ Len(shapes) = n
  BY LenProperties DEF Stand
<1>2. /\ x2 \in Seq(Sets) /\ D2 \in Seq(Sets) /\ shapes2 \in Seq(SUBSET AllKeys)
      /\ m \in Nat /\ Len(x2) = m /\ Len(shapes2) = m
  BY LenProperties DEF Stand
<1>3. /\ x \o x2 \in Seq(Sets) /\ Len(x \o x2) = n + m
      /\ \A j \in 1 .. n : (x \o x2)[j] = x[j]
      /\ \A j \in 1 .. m : (x \o x2)[n + j] = x2[j]
  <2>1. /\ x \o x2 \in Seq(Sets) /\ Len(x \o x2) = Len(x) + Len(x2)
        /\ \A j \in 1 .. Len(x) : (x \o x2)[j] = x[j]
        /\ \A j \in 1 .. Len(x2) : (x \o x2)[Len(x) + j] = x2[j]
    <3>1. x \in Seq(Sets) /\ x2 \in Seq(Sets)
      BY <1>1, <1>2
    <3> HIDE DEF n, m
    <3> QED
      BY <3>1, ConcatIs
  <2> QED
    BY <1>1, <1>2, <2>1
<1>4. /\ D \o D2 \in Seq(Sets) /\ Len(D \o D2) = n + m
      /\ \A j \in 1 .. n : (D \o D2)[j] = D[j]
      /\ \A j \in 1 .. m : (D \o D2)[n + j] = D2[j]
  BY <1>1, <1>2, ConcatIs
<1>5. /\ shapes \o shapes2 \in Seq(SUBSET AllKeys) /\ Len(shapes \o shapes2) = n + m
      /\ \A j \in 1 .. n : (shapes \o shapes2)[j] = shapes[j]
      /\ \A j \in 1 .. m : (shapes \o shapes2)[n + j] = shapes2[j]
  <2>1. /\ shapes \o shapes2 \in Seq(SUBSET AllKeys) /\ Len(shapes \o shapes2) = Len(shapes) + Len(shapes2)
        /\ \A j \in 1 .. Len(shapes) : (shapes \o shapes2)[j] = shapes[j]
        /\ \A j \in 1 .. Len(shapes2) : (shapes \o shapes2)[Len(shapes) + j] = shapes2[j]
    <3>1. shapes \in Seq(SUBSET AllKeys) /\ shapes2 \in Seq(SUBSET AllKeys)
      BY <1>1, <1>2
    <3> HIDE DEF n, m
    <3> QED
      BY <3>1, ConcatIs
  <2> QED
    BY <1>1, <1>2, <2>1
<1>6. \A j \in 1 .. n :
        x[j] \subseteq D[j] /\ KeysOf(D[j]) \subseteq shapes[j] /\ cut(D[j], K) \subseteq x[j]
  BY DEF Stand
<1>7. \A j \in 1 .. m :
        x2[j] \subseteq D2[j] /\ KeysOf(D2[j]) \subseteq shapes2[j] /\ cut(D2[j], K) \subseteq x2[j]
  BY DEF Stand
<1> DEFINE x3 == x \o x2
           D3 == D \o D2
           shapes3 == shapes \o shapes2
<1> HIDE DEF x3, D3, shapes3, n, m
<1>8. ASSUME NEW j \in 1 .. n + m
      PROVE  x3[j] \subseteq D3[j] /\ KeysOf(D3[j]) \subseteq shapes3[j] /\ cut(D3[j], K) \subseteq x3[j]
  <2>1. CASE j \in 1 .. n
    BY <1>3, <1>4, <1>5, <1>6, <2>1 DEF x3, D3, shapes3
  <2>2. CASE ~ (j \in 1 .. n)
    <3>1. PICK i \in 1 .. m : j = n + i
      <4>1. j - n \in 1 .. m /\ j = n + (j - n)
        BY <1>1, <1>2, <2>2
      <4> QED
        BY <4>1
    <3>2. x3[j] = x2[i] /\ D3[j] = D2[i] /\ shapes3[j] = shapes2[i]
      BY <1>3, <1>4, <1>5, <3>1 DEF x3, D3, shapes3
    <3> QED
      BY <1>7, <3>2
  <2> QED
    BY <2>1, <2>2
<1>9. /\ x3 \in Seq(Sets) /\ D3 \in Seq(Sets) /\ shapes3 \in Seq(SUBSET AllKeys)
      /\ Len(x3) = Len(D3) /\ Len(shapes3) = Len(D3) /\ Len(D3) = n + m
  BY <1>3, <1>4, <1>5 DEF x3, D3, shapes3
<1>10. Stand(x3, D3, shapes3, K)
  BY <1>8, <1>9 DEF Stand
<1> QED
  BY <1>10 DEF x3, D3, shapes3

----------------------------------------------------------------------------
\* Expressions.

LeafNodes == [node : {"leaf"}, set : Sets]
Plans     == [node : {"combined"}, steps : Seq(Steps), shape : SUBSET AllKeys,
              operands : Seq(SUBSET AllKeys), max_depth : Nat]

\* A plan ends in the fold of its operands, masked only if it narrows.
PlanOK(e) ==
  LET s == Last(e.steps)
  IN  /\ e \in Plans
      /\ Len(e.steps) # 0 /\ Resolved(e.steps)
      /\ s.op = "combine" /\ s.fold \in Folds /\ s.arity = Len(e.operands) /\ s.keys = e.shape
      /\ s.mask = << >> \/ (s.mask = << e.shape >> /\ s.fold = "and")
      /\ Shaped(s.fold, e.shape, e.operands)

\* Under any mask the last fold leaves what is live of M, its operands standing
\* for the bitmaps D.
Evaluates(e, D, M) ==
  LET s == Last(e.steps)
  IN  /\ D \in Seq(Sets) /\ Len(D) = Len(e.operands) /\ Denotes(s.fold, D) = M
      /\ \A K \in SUBSET AllKeys : \A b \in Seq(Sets) : \E A, x :
           /\ Trace(e.steps, K, b, {}, A, e.max_depth)
           /\ A[Len(e.steps)] = b \o x /\ Stand(x, D, e.operands, Live(s, K))
           /\ End(e.steps, A) = Append(b, cut(M, Live(s, K)))

\* The expression e denotes M.
Good(e, M) ==
  /\ M \in Sets
  /\ \/ e \in LeafNodes /\ e.set = M
     \/ PlanOK(e) /\ KeysOf(M) \subseteq e.shape /\ \E D : Evaluates(e, D, M)

----------------------------------------------------------------------------
\* What a child contributes.

\* The bitmaps D of its operands together are its own.
Means(op, D, M) ==
  /\ op = "and" => Len(D) # 0 /\ \A p : p \in M <=> \A j \in 1 .. Len(D) : p \in D[j]
  /\ op = "or" => \A p : p \in M <=> \E j \in 1 .. Len(D) : p \in D[j]
  /\ op = "diff_lhs" => /\ Len(D) # 0
                        /\ \A p : p \in M <=> p \in D[1] /\ \A j \in 2 .. Len(D) : p \notin D[j]
  /\ op = "diff" => D = << M >>

\* An AND with the keys S has all of them in each shape, and no live ones else.
Fits(op, K, S, shapes) ==
  op = "and" => \A keys \in ToSet(shapes) : S \subseteq keys /\ K \cap keys \subseteq S

PartOK(op, part, D, M) ==
  /\ part.steps \in Seq(Steps) /\ Resolved(part.steps)
  /\ part.shapes \in Seq(SUBSET AllKeys) /\ part.net = Len(part.shapes) /\ part.depth \in Nat
  /\ part.guardable \in BOOLEAN /\ (part.guardable => D = << M >>)
  /\ D \in Seq(Sets) /\ Len(D) = Len(part.shapes) /\ Means(op, D, M)
  /\ \A K \in SUBSET AllKeys : \A S : Fits(op, K, S, part.shapes) =>
       \A b \in Seq(Sets) : \E A, x :
         /\ Trace(part.steps, K, b, {}, A, part.depth)
         /\ End(part.steps, A) = b \o x /\ Stand(x, D, part.shapes, K)

LEMMA MeansItself ==
  ASSUME NEW op, NEW M
  PROVE  Means(op, << M >>, M)
<1>1. Len(<< M >>) = 1 /\ << M >>[1] = M /\ 1 .. 1 = {1} /\ 2 .. 1 = {}
  OBVIOUS
<1> QED
  BY <1>1 DEF Means

LEMMA LeafPart ==
  ASSUME NEW op, NEW child \in LeafNodes, NEW M \in Sets, child.set = M
  PROVE  PartOK(op, splice(child, op), << M >>, M)
<1> DEFINE part == splice(child, op)
           s == LeafStep(M)
           keys == KeysOf(M)
<1>1. /\ part.steps = << s >> /\ part.shapes = << keys >> /\ part.net = 1 /\ part.depth = 1
      /\ part.guardable = FALSE
  BY DEF splice, LeafNodes
<1>2. s \in Steps /\ s.op = "leaf" /\ s.set = M
  BY LeafStepIs
<1>3. keys \in SUBSET AllKeys
  BY KeyIs
<1>4. /\ << s >> \in Seq(Steps) /\ << keys >> \in Seq(SUBSET AllKeys) /\ Len(<< keys >>) = 1
      /\ << M >> \in Seq(Sets) /\ Len(<< M >>) = 1 /\ Len(<< s >>) = 1 /\ << s >>[1] = s
  BY <1>2, <1>3, OneIs
<1> HIDE DEF s, keys, part
<1>5. Resolved(<< s >>)
  <2>1. \A k \in 1 .. 1 : k = 1
    OBVIOUS
  <2> QED
    BY <1>2, <1>4, <2>1 DEF Resolved
<1>6. ASSUME NEW K \in SUBSET AllKeys, NEW b \in Seq(Sets)
      PROVE  \E A, x : /\ Trace(<< s >>, K, b, {}, A, 1) /\ End(<< s >>, A) = b \o x
                       /\ Stand(x, << M >>, << keys >>, K)
  <2>0. PICK e : e = << >>
    OBVIOUS
  <2>1. PICK A0 : Trace(e, K, b, {}, A0, 0) /\ End(e, A0) = b
    BY <2>0, TraceOfNone
  <2>2. Len(b) \in Nat
    BY LenProperties
  <2>10. PICK d \in Nat : d = 1
    OBVIOUS
  <2>3. Trace(e, K, b, {}, A0, d)
    BY <2>1, <2>2, <2>10, TraceWithin
  <2>4. /\ Append(b, M) \in Seq(Sets) /\ Len(Append(b, M)) <= Len(b) + 1
        /\ Append(b, M) = b \o << M >>
    BY <2>2, AppendIs
  <2>5. PICK c \in Seq(Sets) : c = Append(b, M)
    BY <2>4
  <2>6. Moves(s, K, End(e, A0), c) /\ s.op # "guard" /\ Len(c) <= Len(b) + d
    BY <1>2, <2>1, <2>4, <2>5, <2>10 DEF Moves
  <2>11. c = b \o << M >>
    BY <2>4, <2>5
  <2>9. PICK A : Trace(Append(e, s), K, b, {}, A, d) /\ End(Append(e, s), A) = c
    BY <1>2, <2>3, <2>6, TraceExtendsBy
  <2>7. Append(e, s) = << s >>
    BY <2>0
  <2>8. Stand(<< M >>, << M >>, << keys >>, K)
    BY <1>3, StandOne DEF keys, cut
  <2> QED
    BY <2>7, <2>8, <2>9, <2>10, <2>11
<1>7. Means(op, << M >>, M)
  BY MeansItself
<1>8. /\ part.steps \in Seq(Steps) /\ Resolved(part.steps)
      /\ part.shapes \in Seq(SUBSET AllKeys) /\ part.net = Len(part.shapes) /\ part.depth \in Nat
      /\ Len(<< M >>) = Len(part.shapes)
  BY <1>1, <1>4, <1>5
<1>11. part.guardable \in BOOLEAN /\ ~ part.guardable
  BY <1>1, Zenon
<1>9. \A K \in SUBSET AllKeys : \A b \in Seq(Sets) : \E A, x :
        /\ Trace(part.steps, K, b, {}, A, part.depth) /\ End(part.steps, A) = b \o x
        /\ Stand(x, << M >>, part.shapes, K)
  BY <1>1, <1>6
<1>10. PartOK(op, part, << M >>, M)
  BY <1>4, <1>7, <1>8, <1>9, <1>11 DEF PartOK
<1> QED
  BY <1>10 DEF part

LEMMA PlanIs ==
  ASSUME NEW e, PlanOK(e)
  PROVE  /\ e.node = "combined" /\ e.steps \in Seq(Steps) /\ Len(e.steps) \in Nat \ {0}
         /\ e.shape \in SUBSET AllKeys /\ e.operands \in Seq(SUBSET AllKeys) /\ e.max_depth \in Nat
         /\ Last(e.steps) = e.steps[Len(e.steps)] /\ Last(e.steps) \in Steps
         /\ root(e) = Last(e.steps).fold /\ root(e) \in Folds
         /\ \A K : \/ Live(Last(e.steps), K) = K
                   \/ Live(Last(e.steps), K) = e.shape /\ root(e) = "and"
<1>1. /\ e.node = "combined" /\ e.steps \in Seq(Steps) /\ e.shape \in SUBSET AllKeys
      /\ e.operands \in Seq(SUBSET AllKeys) /\ e.max_depth \in Nat
  BY DEF PlanOK, Plans
<1>2. Len(e.steps) \in Nat \ {0}
  BY <1>1, LenProperties DEF PlanOK
<1>3. Len(e.steps) \in 1 .. Len(e.steps)
  BY <1>2
<1>4. Last(e.steps) = e.steps[Len(e.steps)] /\ Last(e.steps) \in Steps
  BY <1>1, <1>3, ElementOfSeq DEF Last
<1>5. root(e) = Last(e.steps).fold /\ root(e) \in Folds
  BY DEF root, PlanOK
<1>6. \/ Last(e.steps).mask = << >>
      \/ Last(e.steps).mask = << e.shape >> /\ root(e) = "and"
  BY <1>5 DEF PlanOK
<1>7. << e.shape >> # << >> /\ << e.shape >>[1] = e.shape
  BY OneIs
<1>8. \A K : \/ Live(Last(e.steps), K) = K
             \/ Live(Last(e.steps), K) = e.shape /\ root(e) = "and"
  BY <1>6, <1>7 DEF Live
<1> QED
  BY <1>1, <1>2, <1>4, <1>5, <1>8

LEMMA NestedPart ==
  ASSUME NEW op, NEW child, PlanOK(child), NEW M \in Sets, KeysOf(M) \subseteq child.shape,
         NEW D, Evaluates(child, D, M), ~ flattens(op, root(child), chain_guarded(child))
  PROVE  PartOK(op, splice(child, op), << M >>, M)
<1> DEFINE part == splice(child, op)
           steps == child.steps
           s == Last(steps)
           keys == child.shape
           d == child.max_depth
<1>1. /\ child.node = "combined" /\ steps \in Seq(Steps) /\ keys \in SUBSET AllKeys /\ d \in Nat
      /\ \A K : Live(s, K) = K \/ Live(s, K) = keys
  BY PlanIs
<1>2. /\ part.steps = steps /\ part.shapes = << keys >> /\ part.net = 1 /\ part.depth = d
  BY <1>1 DEF splice
<1>3. part.guardable = TRUE
  BY <1>1, Zenon DEF splice
<1>4. Resolved(steps)
  BY DEF PlanOK
<1>5. /\ << keys >> \in Seq(SUBSET AllKeys) /\ Len(<< keys >>) = 1
      /\ << M >> \in Seq(Sets) /\ Len(<< M >>) = 1
  BY <1>1, OneIs
<1>6. ASSUME NEW K \in SUBSET AllKeys, NEW b \in Seq(Sets)
      PROVE  \E A, x : /\ Trace(steps, K, b, {}, A, d) /\ End(steps, A) = b \o x
                       /\ Stand(x, << M >>, << keys >>, K)
  <2>1. PICK A : /\ Trace(steps, K, b, {}, A, d)
                 /\ End(steps, A) = Append(b, cut(M, Live(s, K)))
    BY DEF Evaluates
  <2> DEFINE r == cut(M, Live(s, K))
  <2>2. r \in Sets /\ r \subseteq M
    BY DEF cut, Sets
  <2>3. \A p \in M : p[1] \in keys
    BY KeyIs
  <2>4. cut(M, K) \subseteq r
    BY <1>1, <2>3 DEF cut
  <2> HIDE DEF r
  <2>5. Append(b, r) = b \o << r >>
    BY <2>2, AppendIs
  <2>6. Stand(<< r >>, << M >>, << keys >>, K)
    BY <1>1, <2>2, <2>4, StandOne
  <2> QED
    BY <2>1, <2>5, <2>6 DEF r
<1>7. Means(op, << M >>, M)
  BY MeansItself
<1> HIDE DEF part, s, keys, d, steps
<1>8. /\ part.steps \in Seq(Steps) /\ Resolved(part.steps)
      /\ part.shapes \in Seq(SUBSET AllKeys) /\ part.net = Len(part.shapes) /\ part.depth \in Nat
      /\ Len(<< M >>) = Len(part.shapes)
  BY <1>1, <1>2, <1>4, <1>5
<1>9. part.guardable \in BOOLEAN
  BY <1>3, Zenon
<1>10. \A K \in SUBSET AllKeys : \A b \in Seq(Sets) : \E A, x :
        /\ Trace(part.steps, K, b, {}, A, part.depth) /\ End(part.steps, A) = b \o x
        /\ Stand(x, << M >>, part.shapes, K)
  BY <1>2, <1>6
<1>11. PartOK(op, part, << M >>, M)
  BY <1>5, <1>7, <1>8, <1>9, <1>10 DEF PartOK
<1> QED
  BY <1>11 DEF part

LEMMA InlinedPart ==
  ASSUME NEW op, NEW child, PlanOK(child), NEW M \in Sets,
         NEW D, Evaluates(child, D, M), flattens(op, root(child), chain_guarded(child))
  PROVE  PartOK(op, splice(child, op), D, M)
<1> DEFINE part == splice(child, op)
           steps == child.steps
           n == Len(steps)
           s == Last(steps)
           f == Front(steps)
           g == unguarded(f)
           shapes == child.operands
           d == child.max_depth
<1>1. /\ child.node = "combined" /\ steps \in Seq(Steps) /\ n \in Nat \ {0} /\ d \in Nat
      /\ child.shape \in SUBSET AllKeys /\ shapes \in Seq(SUBSET AllKeys)
      /\ root(child) = s.fold
      /\ \A K : Live(s, K) = K \/ (Live(s, K) = child.shape /\ s.fold = "and")
  BY PlanIs
<1>2. /\ part.steps = g /\ part.shapes = shapes /\ part.net = s.arity /\ part.depth = d
  BY <1>1 DEF splice
<1>3. part.guardable = FALSE
  BY <1>1, Zenon DEF splice
<1>4. \/ op = "and" /\ s.fold = "and"
      \/ op = "or" /\ s.fold = "or"
      \/ op = "diff_lhs" /\ s.fold = "diff"
  BY <1>1 DEF flattens
<1>5. s.arity = Len(shapes) /\ Shaped(s.fold, child.shape, shapes)
  BY DEF PlanOK
<1>6. D \in Seq(Sets) /\ Len(D) = Len(shapes) /\ Denotes(s.fold, D) = M /\ Len(D) \in Nat
  BY LenProperties DEF Evaluates
<1>7. f \in Seq(Steps) /\ Len(f) = n - 1 /\ \A k \in 1 .. n - 1 : f[k] = steps[k]
  <2>1. \A i \in 1 .. n - 1 : steps[i] \in Steps
    BY <1>1, ElementOfSeq
  <2>2. n - 1 \in 1 - 1 .. n /\ 1 \in 1 .. n + 1
    BY <1>1
  <2> QED
    BY <1>1, <2>1, <2>2, SubSeqProperties DEF Front
<1>8. g \in Seq(Steps) /\ Resolved(g)
  BY <1>7, UnguardedResolved
<1>9. Means(op, D, M)
  <2>1. CASE op = "and"
    <3>1. Len(D) # 0
      BY <1>4, <1>5, <1>6, <2>1 DEF Shaped
    <3>2. \A p : p \in M <=> \A j \in 1 .. Len(D) : p \in D[j]
      BY <1>4, <1>6, <2>1, <3>1, AndIs DEF Denotes
    <3> QED
      BY <2>1, <3>1, <3>2 DEF Means
  <2>2. CASE op = "or"
    <3>1. \A p : p \in M <=> \E j \in 1 .. Len(D) : p \in D[j]
      BY <1>4, <1>6, <2>2, OrIs DEF Denotes
    <3> QED
      BY <2>2, <3>1 DEF Means
  <2>3. CASE op = "diff_lhs"
    <3>1. Len(D) # 0
      BY <1>4, <1>5, <1>6, <2>3 DEF Shaped
    <3>2. \A p : p \in M <=> p \in D[1] /\ \A j \in 2 .. Len(D) : p \notin D[j]
      BY <1>4, <1>6, <2>3, <3>1, DiffIs
    <3> QED
      BY <2>3, <3>1, <3>2 DEF Means
  <2> QED
    BY <1>4, <2>1, <2>2, <2>3
<1> HIDE DEF f, g, s
<1>10. ASSUME NEW K \in SUBSET AllKeys, NEW S, Fits(op, K, S, shapes), NEW b \in Seq(Sets)
       PROVE  \E A, x : /\ Trace(g, K, b, {}, A, d) /\ End(g, A) = b \o x
                        /\ Stand(x, D, shapes, K)
  <2>1. PICK A, x : /\ Trace(steps, K, b, {}, A, d)
                    /\ A[n] = b \o x /\ Stand(x, D, shapes, Live(s, K))
    BY DEF Evaluates, s
  <2> DEFINE A1 == [k \in 1 .. n |-> A[k]]
  <2>2. /\ A \in [1 .. n + 1 -> Seq(Sets)] /\ A[1] = b
        /\ \A k \in 1 .. n + 1 : Len(A[k]) <= Len(b) + d
        /\ \A k \in 1 .. n : Moves(steps[k], K, A[k], A[k + 1])
    BY <2>1 DEF Trace
  <2>3. \A k \in 1 .. n : k \in 1 .. n + 1
    BY <1>1
  <2>4. /\ A1 \in [1 .. n -> Seq(Sets)] /\ A1[1] = b /\ A1[n] = b \o x
        /\ \A k \in 1 .. n : Len(A1[k]) <= Len(b) + d
    BY <1>1, <2>1, <2>2, <2>3
  <2>5. ASSUME NEW k \in 1 .. n - 1 PROVE Moves(f[k], K, A1[k], A1[k + 1])
    <3>1. k \in 1 .. n /\ k + 1 \in 1 .. n
      BY <1>1
    <3> QED
      BY <1>7, <2>2, <3>1
  <2> HIDE DEF A1
  <2>6. Len(f) + 1 = n
    BY <1>1, <1>7
  <2>7. /\ A1 \in [1 .. Len(f) + 1 -> Seq(Sets)]
        /\ \A k \in 1 .. Len(f) + 1 : Len(A1[k]) <= Len(b) + d
        /\ \A k \in 1 .. Len(f) : Moves(f[k], K, A1[k], A1[k + 1])
    BY <1>7, <2>4, <2>5, <2>6
  <2>8. PICK A2 : Trace(g, K, b, {}, A2, d) /\ End(g, A2) = End(f, A1)
    <3>1. Path(f, K, b, A1, d)
      BY <2>4, <2>7 DEF Path
    <3>2. \E A2 : Trace(unguarded(f), K, b, {}, A2, d) /\ End(unguarded(f), A2) = End(f, A1)
      BY <1>1, <1>7, <3>1, TraceUnguarded
    <3> QED
      BY <3>2 DEF g
  <2>9. End(g, A2) = b \o x
    BY <2>4, <2>6, <2>8 DEF End
  <2>10. Stand(x, D, shapes, K)
    <3>1. CASE Live(s, K) = K
      BY <2>1, <3>1
    <3>2. CASE Live(s, K) = child.shape /\ s.fold = "and"
      <4>1. op = "and" /\ child.shape = Intersection(ToSet(shapes))
        BY <1>4, <1>5, <3>2 DEF Shaped
      <4>2. \A keys \in ToSet(shapes) : S \subseteq keys /\ K \cap keys \subseteq S
        BY <1>10, <4>1 DEF Fits
      <4>3. S \subseteq child.shape \/ Len(shapes) = 0
        <5>1. \A j \in 1 .. Len(shapes) : shapes[j] \in ToSet(shapes)
          BY <1>1, RangeIs
        <5> QED
          BY <1>1, <4>1, <4>2, <5>1, AndIs
      <4>4. ASSUME NEW j \in 1 .. Len(D) PROVE cut(D[j], K) \subseteq x[j]
        <5>1. shapes[j] \in ToSet(shapes) /\ Len(shapes) # 0
          BY <1>1, <1>6, RangeIs
        <5>2. D[j] \in Sets /\ KeysOf(D[j]) \subseteq shapes[j] /\ cut(D[j], child.shape) \subseteq x[j]
          BY <1>6, <2>1, <3>2, ElementOfSeq DEF Stand
        <5>3. \A p \in D[j] : p[1] \in shapes[j]
          BY <5>2, KeyIs
        <5>4. cut(D[j], K) \subseteq cut(D[j], child.shape)
          BY <4>2, <4>3, <5>1, <5>3 DEF cut
        <5> QED
          BY <5>2, <5>4
      <4> QED
        BY <2>1, <4>4 DEF Stand
    <3> QED
      BY <1>1, <3>1, <3>2
  <2> QED
    BY <2>8, <2>9, <2>10
<1> HIDE DEF part, shapes, d, steps, n
<1>11. /\ part.steps \in Seq(Steps) /\ Resolved(part.steps)
       /\ part.shapes \in Seq(SUBSET AllKeys) /\ part.net = Len(part.shapes) /\ part.depth \in Nat
       /\ Len(D) = Len(part.shapes)
  BY <1>1, <1>2, <1>5, <1>6, <1>8
<1>12. part.guardable \in BOOLEAN /\ ~ part.guardable
  BY <1>3, Zenon
<1>13. \A K \in SUBSET AllKeys : \A S : Fits(op, K, S, part.shapes) =>
         \A b \in Seq(Sets) : \E A, x :
           /\ Trace(part.steps, K, b, {}, A, part.depth) /\ End(part.steps, A) = b \o x
           /\ Stand(x, D, part.shapes, K)
  BY <1>2, <1>10
<1>14. PartOK(op, part, D, M)
  BY <1>6, <1>9, <1>11, <1>12, <1>13 DEF PartOK
<1> QED
  BY <1>14 DEF part

\* Spliced, a child stands for what it denotes.
LEMMA SplicedPart ==
  ASSUME NEW op, NEW child, NEW M, Good(child, M)
  PROVE  \E D : PartOK(op, splice(child, op), D, M)
<1>1. M \in Sets
  BY DEF Good
<1>2. CASE child \in LeafNodes /\ child.set = M
  BY <1>1, <1>2, LeafPart
<1>3. ASSUME PlanOK(child), KeysOf(M) \subseteq child.shape, NEW D, Evaluates(child, D, M)
      PROVE  \E E : PartOK(op, splice(child, op), E, M)
  <2>1. CASE flattens(op, root(child), chain_guarded(child))
    BY <1>1, <1>3, <2>1, InlinedPart
  <2>2. CASE ~ flattens(op, root(child), chain_guarded(child))
    BY <1>1, <1>3, <2>2, NestedPart
  <2> QED
    BY <2>1, <2>2
<1> QED
  BY <1>2, <1>3 DEF Good

----------------------------------------------------------------------------
\* What the children of a combination contribute.

\* The bitmaps D of the operands together are the children's, which are X.
Gathers(op, D, X) ==
  /\ op = "and" => /\ X # {} => Len(D) # 0
                   /\ \A p : (\A j \in 1 .. Len(D) : p \in D[j]) <=> \A M \in X : p \in M
  /\ op = "or" => \A p : (\E j \in 1 .. Len(D) : p \in D[j]) <=> \E M \in X : p \in M

\* An AND is empty where a child is.
Dead(op, K, X, v) == op = "and" => \A M \in X : cut(M, K) = {} => v = {}

AccOK(op, a, D, X) ==
  /\ a.steps \in Seq(Steps) /\ a.shapes \in Seq(SUBSET AllKeys)
  /\ a.base = Len(a.shapes) /\ a.depth \in Nat
  /\ D \in Seq(Sets) /\ Len(D) = Len(a.shapes) /\ Gathers(op, D, X)
  /\ \A K \in SUBSET AllKeys : \A S, v : Fits(op, K, S, a.shapes) /\ Dead(op, K, X, v) =>
       \A b \in Seq(Sets) : \E A, x :
         /\ Trace(a.steps, K, b, v, A, a.depth)
         /\ End(a.steps, A) = b \o x /\ Stand(x, D, a.shapes, K)

LEMMA LargerIs ==
  ASSUME NEW m \in Nat, NEW n \in Nat
  PROVE  larger(m, n) \in Nat /\ m <= larger(m, n) /\ n <= larger(m, n)
BY DEF larger

LEMMA AccNone ==
  ASSUME NEW op, NEW a, a.steps = << >>, a.shapes = << >>, a.base = 0, a.depth = 0
  PROVE  AccOK(op, a, << >>, {})
<1>1. PICK e : e = << >>
  OBVIOUS
<1>2. /\ e \in Seq(Steps) /\ e \in Seq(SUBSET AllKeys) /\ e \in Seq(Sets)
      /\ Len(e) = 0 /\ 1 .. 0 = {}
  BY <1>1, EmptyIs
<1>3. a.steps = e /\ a.shapes = e
  BY <1>1
<1>4. Gathers(op, e, {})
  BY <1>2 DEF Gathers
<1>5. ASSUME NEW K \in SUBSET AllKeys, NEW v, NEW b \in Seq(Sets)
      PROVE  \E A, x : /\ Trace(a.steps, K, b, v, A, a.depth) /\ End(a.steps, A) = b \o x
                       /\ Stand(x, e, a.shapes, K)
  <2>1. PICK A : Trace(e, K, b, v, A, 0) /\ End(e, A) = b
    BY <1>1, TraceOfNone
  <2>2. b \o e = b
    BY <1>1, ConcatEmptySeq
  <2>3. Stand(e, e, e, K)
    BY <1>2 DEF Stand
  <2>4. /\ Trace(a.steps, K, b, v, A, a.depth) /\ End(a.steps, A) = b \o e
        /\ Stand(e, e, a.shapes, K)
    BY <1>3, <2>1, <2>2, <2>3
  <2> QED
    BY <2>4
<1>6. /\ a.steps \in Seq(Steps) /\ a.shapes \in Seq(SUBSET AllKeys)
      /\ a.base = Len(a.shapes) /\ a.depth \in Nat /\ Len(e) = Len(a.shapes)
  BY <1>2, <1>3
<1>7. \A K \in SUBSET AllKeys : \A S, v : Fits(op, K, S, a.shapes) /\ Dead(op, K, {}, v) =>
        \A b \in Seq(Sets) : \E A, x :
          /\ Trace(a.steps, K, b, v, A, a.depth)
          /\ End(a.steps, A) = b \o x /\ Stand(x, e, a.shapes, K)
  BY <1>5
<1>8. AccOK(op, a, e, {})
  BY <1>2, <1>4, <1>6, <1>7 DEF AccOK
<1> QED
  BY <1>1, <1>8

\* Two pieces of a sequence.
LEMMA EitherPiece ==
  ASSUME NEW S, NEW a \in Seq(S), NEW b \in Seq(S)
  PROVE  /\ \A p : (\A j \in 1 .. Len(a \o b) : p \in (a \o b)[j])
                     <=> (\A j \in 1 .. Len(a) : p \in a[j]) /\ \A j \in 1 .. Len(b) : p \in b[j]
         /\ \A p : (\E j \in 1 .. Len(a \o b) : p \in (a \o b)[j])
                     <=> (\E j \in 1 .. Len(a) : p \in a[j]) \/ \E j \in 1 .. Len(b) : p \in b[j]
<1> DEFINE c == a \o b
           n == Len(a)
           m == Len(b)
<1>1. /\ n \in Nat /\ m \in Nat /\ Len(c) = n + m
      /\ \A j \in 1 .. n : c[j] = a[j]
      /\ \A j \in 1 .. m : c[n + j] = b[j]
  BY ConcatIs, LenProperties
<1> HIDE DEF c, n, m
<1>2. \A j \in 1 .. n : j \in 1 .. n + m
  BY <1>1
<1>3. \A j \in 1 .. m : n + j \in 1 .. n + m
  BY <1>1
<1>4. ASSUME NEW j \in 1 .. n + m, ~ (j \in 1 .. n) PROVE \E i \in 1 .. m : j = n + i
  <2>1. j - n \in 1 .. m /\ j = n + (j - n)
    BY <1>1, <1>4
  <2> QED
    BY <2>1
<1>5. \A p : (\A j \in 1 .. n + m : p \in c[j])
               <=> (\A j \in 1 .. n : p \in a[j]) /\ \A j \in 1 .. m : p \in b[j]
  BY <1>1, <1>2, <1>3, <1>4
<1>6. \A p : (\E j \in 1 .. n + m : p \in c[j])
               <=> (\E j \in 1 .. n : p \in a[j]) \/ \E j \in 1 .. m : p \in b[j]
  BY <1>1, <1>2, <1>3, <1>4
<1> QED
  BY <1>1, <1>5, <1>6 DEF c, n, m

LEMMA GathersMore ==
  ASSUME NEW op, NEW D \in Seq(Sets), NEW X, Gathers(op, D, X),
         NEW E \in Seq(Sets), NEW M, Means(op, E, M)
  PROVE  Gathers(op, D \o E, X \cup {M})
<1>1. Len(D) \in Nat /\ Len(E) \in Nat /\ Len(D \o E) = Len(D) + Len(E)
  BY ConcatIs, LenProperties
<1>2. CASE op = "and"
  <2>1. /\ \A p : (\A j \in 1 .. Len(D) : p \in D[j]) <=> \A N \in X : p \in N
        /\ Len(E) # 0 /\ \A p : p \in M <=> \A j \in 1 .. Len(E) : p \in E[j]
    BY <1>2 DEF Gathers, Means
  <2>2. \A p : (\A N \in X \cup {M} : p \in N) <=> (\A N \in X : p \in N) /\ p \in M
    OBVIOUS
  <2>5. \A p : (\A j \in 1 .. Len(D \o E) : p \in (D \o E)[j])
                 <=> (\A j \in 1 .. Len(D) : p \in D[j]) /\ \A j \in 1 .. Len(E) : p \in E[j]
    BY EitherPiece
  <2>3. \A p : (\A j \in 1 .. Len(D \o E) : p \in (D \o E)[j]) <=> \A N \in X \cup {M} : p \in N
    <3>1. TAKE p
    <3>2. /\ (\A j \in 1 .. Len(D) : p \in D[j]) <=> \A N \in X : p \in N
          /\ p \in M <=> \A j \in 1 .. Len(E) : p \in E[j]
          /\ (\A N \in X \cup {M} : p \in N) <=> (\A N \in X : p \in N) /\ p \in M
          /\ (\A j \in 1 .. Len(D \o E) : p \in (D \o E)[j])
               <=> (\A j \in 1 .. Len(D) : p \in D[j]) /\ \A j \in 1 .. Len(E) : p \in E[j]
      BY <2>1, <2>2, <2>5
    <3> QED
      BY <3>2, Zenon
  <2>4. Len(D \o E) # 0
    BY <1>1, <2>1
  <2> QED
    BY <1>2, <2>3, <2>4 DEF Gathers
<1>3. CASE op = "or"
  <2>1. /\ \A p : (\E j \in 1 .. Len(D) : p \in D[j]) <=> \E N \in X : p \in N
        /\ \A p : p \in M <=> \E j \in 1 .. Len(E) : p \in E[j]
    BY <1>3 DEF Gathers, Means
  <2>2. \A p : (\E N \in X \cup {M} : p \in N) <=> (\E N \in X : p \in N) \/ p \in M
    OBVIOUS
  <2>5. \A p : (\E j \in 1 .. Len(D \o E) : p \in (D \o E)[j])
                 <=> (\E j \in 1 .. Len(D) : p \in D[j]) \/ \E j \in 1 .. Len(E) : p \in E[j]
    BY EitherPiece
  <2>3. \A p : (\E j \in 1 .. Len(D \o E) : p \in (D \o E)[j]) <=> \E N \in X \cup {M} : p \in N
    <3>1. TAKE p
    <3>2. /\ (\E j \in 1 .. Len(D) : p \in D[j]) <=> \E N \in X : p \in N
          /\ p \in M <=> \E j \in 1 .. Len(E) : p \in E[j]
          /\ (\E N \in X \cup {M} : p \in N) <=> (\E N \in X : p \in N) \/ p \in M
          /\ (\E j \in 1 .. Len(D \o E) : p \in (D \o E)[j])
               <=> (\E j \in 1 .. Len(D) : p \in D[j]) \/ \E j \in 1 .. Len(E) : p \in E[j]
      BY <2>1, <2>2, <2>5
    <3> QED
      BY <3>2, Zenon
  <2> QED
    BY <1>3, <2>3 DEF Gathers
<1>4. CASE op # "and" /\ op # "or"
  BY <1>4 DEF Gathers
<1> QED
  BY <1>2, <1>3, <1>4

LEMMA RangeTogether ==
  ASSUME NEW S, NEW a \in Seq(S), NEW b \in Seq(S)
  PROVE  ToSet(a) \subseteq ToSet(a \o b) /\ ToSet(b) \subseteq ToSet(a \o b)
<1>1. /\ a \o b \in Seq(S) /\ Len(a \o b) = Len(a) + Len(b) /\ Len(a) \in Nat /\ Len(b) \in Nat
      /\ \A i \in 1 .. Len(a) : (a \o b)[i] = a[i]
      /\ \A j \in 1 .. Len(b) : (a \o b)[Len(a) + j] = b[j]
  BY ConcatIs, LenProperties
<1>2. \A j \in 1 .. Len(a \o b) : (a \o b)[j] \in ToSet(a \o b)
  BY <1>1, RangeIs
<1>3. \A i \in 1 .. Len(a) : i \in 1 .. Len(a \o b)
  BY <1>1
<1>4. \A i \in 1 .. Len(b) : Len(a) + i \in 1 .. Len(a \o b)
  BY <1>1
<1>5. \A s \in ToSet(a) : \E j \in 1 .. Len(a) : a[j] = s
  BY RangeIs
<1>6. \A s \in ToSet(b) : \E j \in 1 .. Len(b) : b[j] = s
  BY RangeIs
<1>7. ASSUME NEW s \in ToSet(a) PROVE s \in ToSet(a \o b)
  <2>1. PICK j \in 1 .. Len(a) : a[j] = s
    BY <1>5
  <2> QED
    BY <1>1, <1>2, <1>3, <2>1
<1>8. ASSUME NEW s \in ToSet(b) PROVE s \in ToSet(a \o b)
  <2>1. PICK j \in 1 .. Len(b) : b[j] = s
    BY <1>6
  <2> QED
    BY <1>1, <1>2, <1>4, <2>1
<1> QED
  BY <1>7, <1>8

\* If the last of x is empty, so is v.
Dies(x, v) == Len(x) # 0 /\ (x[Len(x)] = {} => v = {})

\* The steps push x on the stack b.
Pushes(steps, A, b, x) == x \in Seq(Sets) /\ End(steps, A) = b \o x

\* The guard after a child: the AND is empty if the child is.
LEMMA GuardAfter ==
  ASSUME NEW steps, NEW K, NEW b \in Seq(Sets), NEW v, NEW A, NEW d, Trace(steps, K, b, v, A, d),
         NEW x, Pushes(steps, A, b, x), Dies(x, v)
  PROVE  \E A2 : /\ Trace(Append(steps, GuardStep(Len(x))), K, b, v, A2, d)
                 /\ Pushes(Append(steps, GuardStep(Len(x))), A2, b, x)
<1> DEFINE s == GuardStep(Len(x))
           c == b \o x
<1>1. x \in Seq(Sets) /\ Len(x) \in Nat /\ End(steps, A) = b \o x
  BY LenProperties DEF Pushes
<1>2. s \in Steps /\ s.op = "guard" /\ s.pop = Len(x) /\ s.skip = UNRESOLVED
  BY <1>1, GuardStepIs
<1>3. c \in Seq(Sets) /\ Below(c, Len(x)) = b /\ Len(x) \in 0 .. Len(c) /\ Len(c) \in Nat
  BY <1>1, ConcatIs, Pushed, LenProperties
<1>4. Last(c) = x[Len(x)]
  <2>1. Len(c) = Len(b) + Len(x) /\ \A j \in 1 .. Len(x) : c[Len(b) + j] = x[j]
    BY <1>1, ConcatIs
  <2>2. Len(x) \in 1 .. Len(x)
    BY <1>1 DEF Dies
  <2> QED
    BY <2>1, <2>2 DEF Last
<1>5. Waits(s, b, v, End(steps, A))
  <2>1. Waits(s, b, v, c)
    <3> HIDE DEF s, c
    <3> QED
      BY <1>2, <1>3, <1>4 DEF Waits, TopEmpty, Dies
  <2> QED
    BY <1>1, <2>1
<1> HIDE DEF s, c
<1>6. \E A2 : Trace(Append(steps, s), K, b, v, A2, d) /\ End(Append(steps, s), A2) = End(steps, A)
  <2>1. Trace(steps, K, b, v, A, d) /\ Waits(s, b, v, End(steps, A)) /\ s \in Steps
    BY <1>2, <1>5
  <2> QED
    BY ONLY <2>1, TraceExtendsGuard
<1> QED
  BY <1>1, <1>6 DEF s, c, Pushes

\* These steps leave on the stack operands that stand for D.
Yields(steps, K, b, v, d, D, shapes) ==
  \E A, x : Trace(steps, K, b, v, A, d) /\ End(steps, A) = b \o x /\ Stand(x, D, shapes, K)

\* One piece of a manifest after another.
LEMMA PiecesYield ==
  ASSUME NEW K, NEW b \in Seq(Sets), NEW v, NEW s, NEW d1, NEW D, NEW shapes,
         Yields(s, K, b, v, d1, D, shapes), NEW t, Resolved(t), NEW d2 \in Nat, NEW E, NEW shapes2,
         \A c \in Seq(Sets) : Yields(t, K, c, {}, d2, E, shapes2),
         NEW d \in Nat, d1 <= d, Len(shapes) + d2 <= d
  PROVE  Yields(s \o t, K, b, v, d, D \o E, shapes \o shapes2)
<1>1. PICK A1, x1 : Trace(s, K, b, v, A1, d1) /\ End(s, A1) = b \o x1 /\ Stand(x1, D, shapes, K)
  BY DEF Yields
<1>2. x1 \in Seq(Sets) /\ Len(x1) = Len(shapes) /\ Len(x1) \in Nat /\ Len(b) \in Nat
  BY <1>1, LenProperties DEF Stand
<1>3. PICK c \in Seq(Sets) : c = b \o x1 /\ Len(c) = Len(b) + Len(x1)
  <2>1. b \o x1 \in Seq(Sets) /\ Len(b \o x1) = Len(b) + Len(x1)
    BY <1>2, ConcatIs
  <2> QED
    BY <2>1
<1>4. Yields(t, K, c, {}, d2, E, shapes2)
  OBVIOUS
<1>5. PICK A2, x2 : Trace(t, K, c, {}, A2, d2) /\ End(t, A2) = c \o x2 /\ Stand(x2, E, shapes2, K)
  BY <1>4 DEF Yields
<1>6. \E A : Trace(s \o t, K, b, v, A, d) /\ End(s \o t, A) = End(t, A2)
  <2>1. Trace(s, K, b, v, A1, d)
    BY <1>1, <1>2, TraceWithin
  <2>2. /\ b \in Seq(Sets) /\ Trace(s, K, b, v, A1, d)
        /\ Trace(t, K, End(s, A1), {}, A2, d2) /\ Resolved(t)
        /\ Len(End(s, A1)) + d2 <= Len(b) + d
    BY <1>1, <1>2, <1>3, <1>5, <2>1
  <2> QED
    BY ONLY <2>2, TraceConcat
<1>7. x2 \in Seq(Sets)
  BY <1>5 DEF Stand
<1>8. c \o x2 = b \o (x1 \o x2)
  BY <1>2, <1>3, <1>7, ConcatAssociative
<1>9. Stand(x1 \o x2, D \o E, shapes \o shapes2, K)
  BY <1>1, <1>5, StandTogether
<1>10. PICK A : Trace(s \o t, K, b, v, A, d) /\ End(s \o t, A) = b \o (x1 \o x2)
  BY <1>5, <1>6, <1>8
<1> QED
  BY <1>9, <1>10 DEF Yields

\* A guard may follow where the last of the operands is empty only if the
\* fold's result is.
LEMMA GuardYields ==
  ASSUME NEW K, NEW b \in Seq(Sets), NEW v, NEW steps, NEW d, NEW D \in Seq(Sets), NEW M \in Sets,
         NEW shapes, Yields(steps, K, b, v, d, D \o << M >>, shapes), cut(M, K) = {} => v = {}
  PROVE  Yields(Append(steps, GuardStep(Len(D) + 1)), K, b, v, d, D \o << M >>, shapes)
<1>1. PICK A, x : /\ Trace(steps, K, b, v, A, d) /\ End(steps, A) = b \o x
                  /\ Stand(x, D \o << M >>, shapes, K)
  BY DEF Yields
<1>2. /\ D \o << M >> \in Seq(Sets) /\ Len(D \o << M >>) = Len(D) + 1
      /\ (D \o << M >>)[Len(D) + 1] = M /\ Len(D) \in Nat
  <2>1. << M >> \in Seq(Sets) /\ Len(<< M >>) = 1 /\ << M >>[1] = M
    BY OneIs
  <2> QED
    BY <2>1, ConcatIs, LenProperties
<1>3. /\ x \in Seq(Sets) /\ Len(x) = Len(D) + 1 /\ cut(M, K) \subseteq x[Len(x)]
  <2>1. x \in Seq(Sets) /\ Len(x) = Len(D) + 1
    BY <1>1, <1>2 DEF Stand
  <2>2. Len(D) + 1 \in 1 .. Len(D) + 1
    BY <1>2
  <2> QED
    BY <1>1, <1>2, <2>1, <2>2 DEF Stand
<1>4. Pushes(steps, A, b, x) /\ Dies(x, v)
  BY <1>1, <1>2, <1>3 DEF Dies, Pushes
<1>5. \E A2 : /\ Trace(Append(steps, GuardStep(Len(x))), K, b, v, A2, d)
              /\ Pushes(Append(steps, GuardStep(Len(x))), A2, b, x)
  <2>1. b \in Seq(Sets) /\ Trace(steps, K, b, v, A, d) /\ Pushes(steps, A, b, x) /\ Dies(x, v)
    BY <1>1, <1>4
  <2> QED
    BY ONLY <2>1, GuardAfter
<1> QED
  BY <1>1, <1>3, <1>5 DEF Yields, Pushes

LEMMA FitsPieces ==
  ASSUME NEW op, NEW K, NEW S, NEW a \in Seq(SUBSET AllKeys), NEW b \in Seq(SUBSET AllKeys),
         Fits(op, K, S, a \o b)
  PROVE  Fits(op, K, S, a) /\ Fits(op, K, S, b)
<1>1. ToSet(a) \subseteq ToSet(a \o b) /\ ToSet(b) \subseteq ToSet(a \o b)
  BY RangeTogether
<1> QED
  BY <1>1 DEF Fits

\* One more child.
LEMMA AccStep ==
  ASSUME NEW op \in {"and", "or"}, NEW a, NEW D, NEW X, AccOK(op, a, D, X),
         NEW child, NEW E, NEW M \in Sets, PartOK(op, splice(child, op), E, M)
  PROVE  AccOK(op, SpliceChild(op, a, child), D \o E, X \cup {M})
<1> DEFINE part == splice(child, op)
           guard == op = "and" /\ part.guardable
           base == a.base + part.net
           both == a.steps \o part.steps
           steps == IF guard THEN Append(both, GuardStep(base)) ELSE both
           shapes == a.shapes \o part.shapes
           d == peak(a.depth, a.base, part.depth)
           c == SpliceChild(op, a, child)
<1>1. /\ a.steps \in Seq(Steps) /\ a.shapes \in Seq(SUBSET AllKeys)
      /\ a.base = Len(a.shapes) /\ a.depth \in Nat
      /\ D \in Seq(Sets) /\ Len(D) = Len(a.shapes) /\ Gathers(op, D, X)
  BY DEF AccOK
<1>2. /\ part.steps \in Seq(Steps) /\ Resolved(part.steps)
      /\ part.shapes \in Seq(SUBSET AllKeys) /\ part.net = Len(part.shapes) /\ part.depth \in Nat
      /\ E \in Seq(Sets) /\ Len(E) = Len(part.shapes) /\ Means(op, E, M)
  BY DEF PartOK
<1>3. part.guardable \in BOOLEAN /\ (part.guardable => E = << M >>)
  BY Zenon DEF PartOK
<1>4. Len(D) \in Nat /\ Len(E) \in Nat /\ a.base = Len(D) /\ base = Len(D) + Len(E)
  BY <1>1, <1>2, LenProperties
<1>5. /\ D \o E \in Seq(Sets) /\ Len(D \o E) = base
      /\ shapes \in Seq(SUBSET AllKeys) /\ Len(shapes) = base
      /\ both \in Seq(Steps)
  <2>1. D \o E \in Seq(Sets) /\ Len(D \o E) = Len(D) + Len(E)
    BY <1>1, <1>2, ConcatIs
  <2>2. shapes \in Seq(SUBSET AllKeys) /\ Len(shapes) = Len(a.shapes) + Len(part.shapes)
    BY <1>1, <1>2, ConcatIs
  <2>3. both \in Seq(Steps)
    BY <1>1, <1>2, ConcatIs
  <2> HIDE DEF base, part, shapes, both
  <2> QED
    BY <1>1, <1>2, <1>4, <2>1, <2>2, <2>3
<1>6. d \in Nat /\ a.depth <= d /\ a.base + part.depth <= d
  <2>1. PICK n \in Nat : n = a.base + part.depth
    BY <1>1, <1>2, <1>4
  <2>2. PICK k \in Nat : k = a.depth
    BY <1>1
  <2>3. d = larger(k, n)
    BY <2>1, <2>2 DEF peak
  <2> HIDE DEF d, part
  <2> QED
    BY <2>1, <2>2, <2>3, LargerIs
<1>7. steps \in Seq(Steps)
  <2>1. GuardStep(base) \in Steps
    BY <1>4, GuardStepIs
  <2> QED
    BY <1>5, <2>1, AppendIs
<1>8. c.steps = steps /\ c.shapes = shapes /\ c.base = base /\ c.depth = d
  <2>1. c.shapes = shapes /\ c.base = base /\ c.depth = d
    BY DEF SpliceChild
  <2>2. c.steps = both \o (IF guard THEN << GuardStep(base) >> ELSE << >>)
    BY DEF SpliceChild
  <2>3. PICK g : g = GuardStep(base)
    OBVIOUS
  <2> HIDE DEF guard, both, c, base, shapes, d, part
  <2>4. g \in Steps
    <3>1. PICK n \in Nat : n = base
      BY <1>4
    <3> QED
      BY <2>3, <3>1, GuardStepIs
  <2>5. Append(both, g) = both \o << g >>
    BY <1>5, <2>4, AppendIs
  <2>6. both \o << >> = both
    BY <1>5, ConcatEmptySeq
  <2>7. c.steps = steps
    BY <2>2, <2>3, <2>5, <2>6
  <2> QED
    BY <2>1, <2>7
<1>9. Gathers(op, D \o E, X \cup {M})
  BY <1>1, <1>2, GathersMore
<1> HIDE DEF c, d, base, part
<1>10. ASSUME NEW K \in SUBSET AllKeys, NEW S, NEW v, Fits(op, K, S, shapes),
              Dead(op, K, X \cup {M}, v), NEW b \in Seq(Sets)
       PROVE  Yields(steps, K, b, v, d, D \o E, shapes)
  <2>1. Fits(op, K, S, a.shapes) /\ Fits(op, K, S, part.shapes)
    BY <1>1, <1>2, <1>10, FitsPieces
  <2>2. Dead(op, K, X, v) /\ (op = "and" => (cut(M, K) = {} => v = {}))
    BY <1>10 DEF Dead
  <2>3. Yields(a.steps, K, b, v, a.depth, D, a.shapes)
    BY <2>1, <2>2 DEF AccOK, Yields
  <2>4. \A z \in Seq(Sets) : Yields(part.steps, K, z, {}, part.depth, E, part.shapes)
    BY <2>1 DEF PartOK, Yields, part
  <2>5. Yields(both, K, b, v, d, D \o E, shapes)
    <3>1. Len(a.shapes) + part.depth <= d
      BY <1>1, <1>6
    <3>2. /\ b \in Seq(Sets) /\ Yields(a.steps, K, b, v, a.depth, D, a.shapes)
          /\ Resolved(part.steps) /\ part.depth \in Nat /\ d \in Nat /\ a.depth <= d
          /\ Len(a.shapes) + part.depth <= d
      BY <1>2, <1>6, <2>3, <3>1
    <3> QED
      BY <2>4, <3>2, PiecesYield
  <2>6. CASE guard
    <3>1. E = << M >> /\ Len(E) = 1
      BY <1>3, <2>6
    <3>2. Yields(both, K, b, v, d, D \o << M >>, shapes) /\ (cut(M, K) = {} => v = {})
      BY <2>2, <2>5, <2>6, <3>1
    <3>3. Yields(Append(both, GuardStep(Len(D) + 1)), K, b, v, d, D \o << M >>, shapes)
      BY <1>1, <3>2, GuardYields
    <3>4. base = Len(D) + 1
      BY <1>4, <3>1
    <3> HIDE DEF guard
    <3> QED
      BY <2>6, <3>1, <3>3, <3>4
  <2>7. CASE ~ guard
    BY <2>5, <2>7
  <2> QED
    BY <2>6, <2>7
<1> HIDE DEF steps, shapes, guard, both
<1>11. \A K \in SUBSET AllKeys : \A S, v : Fits(op, K, S, c.shapes) /\ Dead(op, K, X \cup {M}, v) =>
         \A b \in Seq(Sets) : Yields(c.steps, K, b, v, c.depth, D \o E, c.shapes)
  BY <1>8, <1>10
<1>12. /\ c.steps \in Seq(Steps) /\ c.shapes \in Seq(SUBSET AllKeys)
       /\ c.base = Len(c.shapes) /\ c.depth \in Nat
       /\ Len(D \o E) = Len(c.shapes)
  BY <1>5, <1>6, <1>7, <1>8
<1>13. AccOK(op, c, D \o E, X \cup {M})
  <2>1. \A K \in SUBSET AllKeys : \A S, v : Fits(op, K, S, c.shapes) /\ Dead(op, K, X \cup {M}, v) =>
          \A b \in Seq(Sets) : \E A, x :
            /\ Trace(c.steps, K, b, v, A, c.depth)
            /\ End(c.steps, A) = b \o x /\ Stand(x, D \o E, c.shapes, K)
    BY <1>11 DEF Yields
  <2> QED
    BY <1>5, <1>9, <1>12, <2>1 DEF AccOK
<1> QED
  BY <1>13 DEF c

----------------------------------------------------------------------------
\* One child after another.

SplicedUpto(op, children, n, acc) ==
  acc = [k \in 0 .. n |-> IF k = 0 THEN [steps |-> << >>, shapes |-> << >>, base |-> 0, depth |-> 0]
                          ELSE SpliceChild(op, acc[k - 1], children[k])]

LEMMA SplicedExists ==
  ASSUME NEW op, NEW children
  PROVE  \A n \in Nat : \E acc : SplicedUpto(op, children, n, acc)
<1> DEFINE S == {n \in Nat : \E acc : SplicedUpto(op, children, n, acc)}
           none == [steps |-> << >>, shapes |-> << >>, base |-> 0, depth |-> 0]
<1>1. 0 \in S
  <2>1. SplicedUpto(op, children, 0, [k \in 0 .. 0 |-> none])
    BY DEF SplicedUpto
  <2> QED
    BY <2>1
<1>2. ASSUME NEW n \in Nat, n \in S PROVE n + 1 \in S
  <2>1. PICK u : SplicedUpto(op, children, n, u)
    BY <1>2
  <2> DEFINE g == [k \in 0 .. n + 1 |-> IF k \in 0 .. n THEN u[k]
                                        ELSE SpliceChild(op, u[n], children[k])]
  <2>2. \A k \in 0 .. n : u[k] = IF k = 0 THEN none ELSE SpliceChild(op, u[k - 1], children[k])
    BY <2>1, Zenon DEF SplicedUpto
  <2>3. \A k \in 0 .. n + 1 : k # 0 => k - 1 \in 0 .. n /\ k - 1 \in 0 .. n + 1
    OBVIOUS
  <2>4. \A k \in 0 .. n : g[k] = u[k]
    OBVIOUS
  <2>5. \A k \in 0 .. n + 1 : ~ (k \in 0 .. n) => k = n + 1 /\ k # 0 /\ k - 1 = n
    OBVIOUS
  <2> HIDE DEF none
  <2>6. \A k \in 0 .. n + 1 : g[k] = IF k = 0 THEN none ELSE SpliceChild(op, g[k - 1], children[k])
    <3>1. TAKE k \in 0 .. n + 1
    <3>2. CASE k \in 0 .. n
      BY <2>2, <2>3, <2>4, <3>2
    <3>3. CASE ~ (k \in 0 .. n)
      <4>1. k = n + 1 /\ k # 0 /\ k - 1 = n /\ g[k - 1] = u[n]
        BY <2>4, <2>5, <3>3
      <4> QED
        BY <3>3, <4>1
    <3> QED
      BY <3>2, <3>3
  <2> HIDE DEF g
  <2>7. g = [k \in 0 .. n + 1 |-> g[k]]
    BY DEF g
  <2>8. SplicedUpto(op, children, n + 1, g)
    BY <2>6, <2>7 DEF SplicedUpto, none
  <2> QED
    BY <2>8
<1> HIDE DEF S
<1>3. Nat \subseteq S
  BY <1>1, <1>2, SetInduction
<1> QED
  BY <1>3 DEF S

LEMMA SplicedIs ==
  ASSUME NEW op, NEW children, Len(children) \in Nat
  PROVE  \E acc : /\ spliced(op, children) = acc[Len(children)]
                  /\ acc[0] = [steps |-> << >>, shapes |-> << >>, base |-> 0, depth |-> 0]
                  /\ \A k \in 1 .. Len(children) : acc[k] = SpliceChild(op, acc[k - 1], children[k])
<1> DEFINE n == Len(children)
           none == [steps |-> << >>, shapes |-> << >>, base |-> 0, depth |-> 0]
           acc == CHOOSE f : SplicedUpto(op, children, n, f)
<1>1. SplicedUpto(op, children, n, acc)
  BY SplicedExists
<1>2. spliced(op, children) = acc[n]
  BY DEF spliced, SplicedUpto
<1> HIDE DEF acc
<1>3. 0 \in 0 .. n /\ \A k \in 1 .. n : k \in 0 .. n /\ k # 0
  OBVIOUS
<1>4. \A k \in 0 .. n : acc[k] = IF k = 0 THEN none ELSE SpliceChild(op, acc[k - 1], children[k])
  BY <1>1, Zenon DEF SplicedUpto
<1> HIDE DEF none
<1>5. acc[0] = none /\ \A k \in 1 .. n : acc[k] = SpliceChild(op, acc[k - 1], children[k])
  BY <1>3, <1>4
<1> QED
  BY <1>2, <1>5 DEF none

\* Spliced together, children that denote m stand for all of m.
LEMMA SplicedAcc ==
  ASSUME NEW op \in {"and", "or"}, NEW children, NEW m, Len(children) \in Nat,
         \A i \in 1 .. Len(children) : Good(children[i], m[i])
  PROVE  \E D : AccOK(op, spliced(op, children), D, {m[i] : i \in 1 .. Len(children)})
<1> DEFINE n == Len(children)
           X(k) == {m[i] : i \in 1 .. k}
<1>1. PICK acc : /\ spliced(op, children) = acc[n]
                 /\ acc[0] = [steps |-> << >>, shapes |-> << >>, base |-> 0, depth |-> 0]
                 /\ \A k \in 1 .. n : acc[k] = SpliceChild(op, acc[k - 1], children[k])
  BY SplicedIs
<1> DEFINE Done(k) == k <= n => \E D : AccOK(op, acc[k], D, X(k))
           S == {k \in Nat : Done(k)}
<1>2. 0 \in S
  <2>1. /\ acc[0].steps = << >> /\ acc[0].shapes = << >> /\ acc[0].base = 0 /\ acc[0].depth = 0
    BY <1>1
  <2>2. AccOK(op, acc[0], << >>, {})
    BY <2>1, AccNone
  <2>3. X(0) = {}
    OBVIOUS
  <2> QED
    BY <2>2, <2>3
<1>3. ASSUME NEW k \in Nat, k \in S PROVE k + 1 \in S
  <2>0. SUFFICES Done(k + 1)
    <3> HIDE DEF Done
    <3> QED
      OBVIOUS
  <2>1. SUFFICES ASSUME k + 1 <= n PROVE \E D : AccOK(op, acc[k + 1], D, X(k + 1))
    OBVIOUS
  <2>2. k + 1 \in 1 .. n /\ (k + 1) - 1 = k /\ k <= n
    BY <2>1
  <2>3. PICK D : AccOK(op, acc[k], D, X(k))
    BY <1>3, <2>2
  <2>4. Good(children[k + 1], m[k + 1]) /\ m[k + 1] \in Sets
    BY <2>2 DEF Good
  <2>5. PICK E : PartOK(op, splice(children[k + 1], op), E, m[k + 1])
    BY <2>4, SplicedPart
  <2>6. AccOK(op, SpliceChild(op, acc[k], children[k + 1]), D \o E, X(k) \cup {m[k + 1]})
    BY <2>3, <2>4, <2>5, AccStep
  <2>7. X(k + 1) = X(k) \cup {m[k + 1]}
    <3>1. \A i : i \in 1 .. k + 1 <=> i \in 1 .. k \/ i = k + 1
      OBVIOUS
    <3> QED
      BY <3>1
  <2>8. acc[k + 1] = SpliceChild(op, acc[k], children[k + 1])
    BY <1>1, <2>2
  <2> HIDE DEF X
  <2> QED
    BY <2>6, <2>7, <2>8
<1> HIDE DEF S
<1>4. Nat \subseteq S
  BY <1>2, <1>3, SetInduction
<1>5. n \in S
  BY <1>4
<1>6. Done(n) /\ n <= n
  <2> HIDE DEF Done
  <2> QED
    BY <1>5 DEF S
<1> QED
  BY <1>1, <1>6

----------------------------------------------------------------------------
\* The fold of what was gathered.

\* The steps end in a fold that leaves v, its operands standing for D.
Settles(steps, K, live_keys, b, d, D, shapes, v) ==
  \E A, x : /\ Trace(steps, K, b, {}, A, d)
            /\ A[Len(steps)] = b \o x /\ Stand(x, D, shapes, live_keys)
            /\ End(steps, A) = Append(b, v)

\* The steps of a plan before its mask: the fold, and its guards aimed past it.
Finished(steps, fold, keys, shapes) ==
  patch_guards(Append(steps, CombineStep(Len(shapes), fold, keys)), Len(steps) + 2)

LEMMA FinishedIs ==
  ASSUME NEW steps \in Seq(Steps), NEW fold \in Folds, NEW keys \in SUBSET AllKeys,
         NEW shapes \in Seq(SUBSET AllKeys)
  PROVE  LET t == Finished(steps, fold, keys, shapes)
         IN  /\ t \in Seq(Steps) /\ Len(t) = Len(steps) + 1 /\ Resolved(t)
             /\ Last(t) = CombineStep(Len(shapes), fold, keys)
<1> DEFINE s == CombineStep(Len(shapes), fold, keys)
           raw == Append(steps, s)
           t == Finished(steps, fold, keys, shapes)
<1>1. Len(steps) \in Nat /\ Len(shapes) \in Nat
  BY LenProperties
<1>2. s \in Steps /\ s.op = "combine"
  BY <1>1, CombineStepIs
<1>3. raw \in Seq(Steps) /\ Len(raw) = Len(steps) + 1 /\ raw[Len(steps) + 1] = s
  BY <1>2, AppendIs
<1>4. t = patch_guards(raw, Len(raw) + 1)
  BY <1>1, <1>3 DEF Finished
<1> HIDE DEF s, raw, t
<1>5. /\ t \in Seq(Steps) /\ Len(t) = Len(raw) /\ Resolved(t)
      /\ \A k \in 1 .. Len(raw) : raw[k].op # "guard" => t[k] = raw[k]
  <2>1. Len(raw) + 1 \in Nat /\ Len(raw) < Len(raw) + 1
    BY <1>1, <1>3
  <2> QED
    BY <1>3, <1>4, <2>1, PatchedIs
<1>6. Len(steps) + 1 \in 1 .. Len(raw)
  BY <1>1, <1>3
<1>7. Last(t) = s
  BY <1>2, <1>3, <1>5, <1>6 DEF Last
<1> QED
  BY <1>3, <1>5, <1>7 DEF s, t

LEMMA FoldSettles ==
  ASSUME NEW K, NEW b \in Seq(Sets), NEW v, NEW steps, NEW d, NEW D, NEW shapes,
         Yields(steps, K, b, v, d, D, shapes),
         NEW fold \in Folds, NEW keys \in SUBSET AllKeys, Shaped(fold, keys, shapes),
         v = cut(Denotes(fold, D), K), NEW top \in Nat, d <= top, 1 <= top
  PROVE  Settles(Finished(steps, fold, keys, shapes), K, K, b, top, D, shapes, v)
<1> DEFINE s == CombineStep(Len(shapes), fold, keys)
           raw == Append(steps, s)
           c == Append(b, v)
<1>1. PICK A, x : Trace(steps, K, b, v, A, d) /\ End(steps, A) = b \o x /\ Stand(x, D, shapes, K)
  BY DEF Yields
<1>2. /\ x \in Seq(Sets) /\ Len(x) = Len(shapes) /\ Len(x) \in Nat /\ Len(b) \in Nat
      /\ steps \in Seq(Steps) /\ Len(steps) \in Nat /\ K \in SUBSET AllKeys
  BY <1>1, LenProperties DEF Stand, Trace
<1>3. s \in Steps /\ s.op = "combine" /\ s.arity = Len(x) /\ s.fold = fold /\ s.keys = keys /\ s.mask = << >>
  <2>1. PICK n \in Nat : n = Len(x)
    BY <1>2
  <2>2. s = CombineStep(n, fold, keys)
    BY <1>2, <2>1
  <2> HIDE DEF s
  <2> QED
    BY <2>1, <2>2, CombineStepIs
<1> HIDE DEF s
<1>4. /\ Claims(s, Masked(x, K)) \subseteq s.keys
      /\ Folded(s, Masked(x, K)) = v
      /\ v \in Sets
  <2>1. s.fold \in Folds /\ Shaped(s.fold, s.keys, shapes)
    BY <1>3
  <2>2. /\ Claims(s, Masked(x, K)) \subseteq s.keys
        /\ Folded(s, Masked(x, K)) = cut(Denotes(s.fold, D), K)
        /\ Denotes(s.fold, D) \in Sets
    BY ONLY <1>1, <2>1, FoldedIs
  <2> QED
    BY <1>3, <2>2 DEF cut, Sets
<1>5. c \in Seq(Sets) /\ Len(c) = Len(b) + 1 /\ Len(c) <= Len(b) + top
  BY <1>2, <1>4, AppendIs
<1>6. Moves(s, K, b \o x, c)
  <2>1. /\ Below(b \o x, Len(x)) = b /\ Above(b \o x, Len(x)) = x /\ Len(x) <= Len(b \o x)
    BY <1>2, Pushed, ConcatIs
  <2>2. Live(s, K) = K
    BY <1>3 DEF Live
  <2> HIDE DEF c
  <2>3. c = Append(b, Folded(s, Masked(x, K)))
    BY <1>4 DEF c
  <2> QED
    BY <1>3, <1>4, <2>1, <2>2, <2>3 DEF Moves
<1>7. Trace(steps, K, b, v, A, top)
  BY <1>1, <1>2, TraceWithin
<1> HIDE DEF c, raw
<1>8. \E A2 : Trace(raw, K, b, v, A2, top) /\ End(raw, A2) = c /\ A2[Len(steps) + 1] = b \o x
  <2>1. /\ Trace(steps, K, b, v, A, top) /\ s \in Steps /\ c \in Seq(Sets) /\ Len(c) <= Len(b) + top
        /\ Moves(s, K, End(steps, A), c) /\ s.op # "guard"
    BY <1>1, <1>3, <1>5, <1>6, <1>7
  <2>2. \E A2 : /\ Trace(Append(steps, s), K, b, v, A2, top) /\ End(Append(steps, s), A2) = c
                /\ A2[Len(steps) + 1] = End(steps, A)
    BY ONLY <2>1, TraceExtendsBy
  <2> QED
    BY <1>1, <2>2 DEF raw
<1>9. PICK A2 : Trace(raw, K, b, v, A2, top) /\ End(raw, A2) = c /\ A2[Len(steps) + 1] = b \o x
  BY <1>8
<1> DEFINE t == Finished(steps, fold, keys, shapes)
<1>10. Len(raw) = Len(steps) + 1
  BY <1>2, <1>3, AppendIs DEF raw
<1>11. t = patch_guards(raw, Len(raw) + 1)
  BY <1>2, <1>10 DEF Finished, raw, s
<1>12. Trace(t, K, b, {}, A2, top)
  BY <1>9, <1>11, TracePatched DEF c
<1>13. Len(t) = Len(raw)
  <2>1. shapes \in Seq(SUBSET AllKeys)
    BY <1>1 DEF Stand
  <2> QED
    BY <1>2, <1>10, <2>1, FinishedIs
<1> HIDE DEF t
<1>14. A2[Len(t)] = b \o x /\ End(t, A2) = c
  BY <1>9, <1>10, <1>13 DEF End
<1> QED
  BY <1>1, <1>12, <1>14 DEF Settles, c, t

\* What is live under a fold of these keys, if it narrows.
Under(narrow, keys, K) == IF narrow THEN keys ELSE K

\* The steps gather, for that fold, operands that stand for D.
Ready(narrow, steps, fold, keys, shapes, d, D) ==
  /\ steps \in Seq(Steps) /\ shapes \in Seq(SUBSET AllKeys) /\ keys \in SUBSET AllKeys
  /\ fold \in Folds /\ Shaped(fold, keys, shapes)
  /\ narrow \in BOOLEAN /\ (narrow => fold = "and")
  /\ \A K \in SUBSET AllKeys : \A b \in Seq(Sets) :
       Yields(steps, K, b, cut(Denotes(fold, D), K), d, D, shapes) \/ (narrow /\ K # keys)

\* The plan of that fold.
IsPlan(e, narrow, steps, fold, keys, shapes, d) ==
  /\ e = [node |-> "combined", steps |-> e.steps, shape |-> keys, operands |-> shapes,
          max_depth |-> e.max_depth]
  /\ e.max_depth \in Nat /\ d <= e.max_depth /\ 1 <= e.max_depth
  /\ e.steps = IF narrow THEN mask_folds(Finished(steps, fold, keys, shapes), keys)
                         ELSE Finished(steps, fold, keys, shapes)

\* A plan of what was gathered denotes what its operands do.
LEMMA PlanGood ==
  ASSUME NEW narrow, NEW steps, NEW fold, NEW keys, NEW shapes, NEW d, NEW D,
         Ready(narrow, steps, fold, keys, shapes, d, D),
         NEW e, IsPlan(e, narrow, steps, fold, keys, shapes, d)
  PROVE  Good(e, Denotes(fold, D))
<1>0. /\ steps \in Seq(Steps) /\ shapes \in Seq(SUBSET AllKeys) /\ keys \in SUBSET AllKeys
      /\ fold \in Folds /\ Shaped(fold, keys, shapes)
  BY DEF Ready
<1>10. narrow \in BOOLEAN /\ (narrow => fold = "and")
  BY DEF Ready
<1>11. \A K \in SUBSET AllKeys : \A b \in Seq(Sets) :
         Yields(steps, K, b, cut(Denotes(fold, D), K), d, D, shapes) \/ (narrow /\ K # keys)
  BY DEF Ready
<1>12. /\ e.node = "combined" /\ e.shape = keys /\ e.operands = shapes
       /\ e = [node |-> "combined", steps |-> e.steps, shape |-> keys, operands |-> shapes,
               max_depth |-> e.max_depth]
  BY DEF IsPlan
<1>13. e.max_depth \in Nat /\ d <= e.max_depth /\ 1 <= e.max_depth
  BY DEF IsPlan
<1>14. e.steps = IF narrow THEN mask_folds(Finished(steps, fold, keys, shapes), keys)
                           ELSE Finished(steps, fold, keys, shapes)
  BY DEF IsPlan
<1> DEFINE top == e.max_depth
<1> DEFINE M == Denotes(fold, D)
           raw == Finished(steps, fold, keys, shapes)
           s == CombineStep(Len(shapes), fold, keys)
           t == e.steps
<1> USE <1>0, <1>10, <1>12, <1>13, <1>14
<1>1. /\ raw \in Seq(Steps) /\ Len(raw) = Len(steps) + 1 /\ Resolved(raw)
      /\ Last(raw) = s /\ Len(steps) \in Nat /\ Len(shapes) \in Nat
  BY FinishedIs, LenProperties
<1>2. /\ s.op = "combine" /\ s.arity = Len(shapes) /\ s.fold = fold /\ s.keys = keys /\ s.mask = << >>
  BY <1>1, CombineStepIs
<1> HIDE DEF raw, s
<1>3. /\ t \in Seq(Steps) /\ Len(t) = Len(raw) /\ Resolved(t)
      /\ Last(t).op = "combine" /\ Last(t).fold = fold /\ Last(t).arity = Len(shapes)
      /\ Last(t).keys = keys /\ Last(t).mask = IF narrow THEN << keys >> ELSE << >>
  <2>1. CASE narrow
    <3>1. t = mask_folds(raw, keys)
      BY <2>1 DEF raw
    <3>2. /\ t \in Seq(Steps) /\ Len(t) = Len(raw)
          /\ \A k \in 1 .. Len(raw) :
               /\ t[k].op = raw[k].op
               /\ raw[k].op # "combine" => t[k] = raw[k]
               /\ raw[k].op = "combine" =>
                    /\ t[k].arity = raw[k].arity /\ t[k].fold = raw[k].fold
                    /\ t[k].keys = raw[k].keys
                    /\ t[k].mask = IF raw[k].mask = << >> THEN << keys >> ELSE raw[k].mask
      BY <1>1, <3>1, MaskedIs
    <3> HIDE DEF t
    <3>3. Resolved(t)
      <4>1. ASSUME NEW k \in 1 .. Len(raw), t[k].op = "guard" PROVE t[k].skip # UNRESOLVED
        BY <1>1, <3>2, <4>1 DEF Resolved
      <4> QED
        BY <3>2, <4>1 DEF Resolved
    <3>4. Len(raw) \in 1 .. Len(raw) /\ raw[Len(raw)] = s /\ Last(t) = t[Len(raw)]
      BY <1>1, <3>2 DEF Last
    <3> QED
      BY <1>2, <2>1, <3>2, <3>3, <3>4
  <2>2. CASE ~ narrow
    <3>1. t = raw
      BY <2>2 DEF raw
    <3> QED
      BY <1>1, <1>2, <2>2, <3>1
  <2> QED
    BY <2>1, <2>2
<1>4. PlanOK(e)
  <2>1. e \in Plans
    BY <1>3 DEF Plans
  <2>2. Last(t).mask = << >> \/ (Last(t).mask = << keys >> /\ fold = "and")
    BY <1>3
  <2>3. Len(t) # 0
    BY <1>1, <1>3
  <2> QED
    BY <1>3, <2>1, <2>2, <2>3 DEF PlanOK
<1>5. ASSUME NEW K \in SUBSET AllKeys
      PROVE  Live(Last(t), K) = Under(narrow, keys, K) /\ Under(narrow, keys, K) \in SUBSET AllKeys
  <2>1. << keys >> # << >> /\ << keys >>[1] = keys
    OBVIOUS
  <2> QED
    BY <1>3, <2>1 DEF Live, Under
<1>6. ASSUME NEW K \in SUBSET AllKeys, NEW b \in Seq(Sets)
      PROVE  LET U == Under(narrow, keys, K)
             IN  Settles(t, K, U, b, top, D, shapes, cut(M, U))
  <2>1. PICK U \in SUBSET AllKeys : U = Under(narrow, keys, K)
    BY <1>5
  <2>2. Yields(steps, U, b, cut(M, U), d, D, shapes)
    <3>1. narrow => U = keys
      BY <2>1 DEF Under
    <3> QED
      BY <1>11, <3>1
  <2>3. PICK v : v = cut(M, U)
    OBVIOUS
  <2>4. Settles(raw, U, U, b, top, D, shapes, v)
    <3>1. Yields(steps, U, b, v, d, D, shapes) /\ v = cut(Denotes(fold, D), U)
      BY <2>2, <2>3
    <3> QED
      BY <3>1, FoldSettles DEF raw
  <2>5. PICK A, x : /\ Trace(raw, U, b, {}, A, top)
                    /\ A[Len(raw)] = b \o x /\ Stand(x, D, shapes, U)
                    /\ End(raw, A) = Append(b, v)
    BY <2>4 DEF Settles
  <2>6. Trace(t, K, b, {}, A, top)
    <3>1. CASE narrow
      <4>1. t = mask_folds(raw, keys) /\ U = keys
        BY <2>1, <3>1 DEF raw, Under
      <4> HIDE DEF t
      <4> QED
        BY <2>5, <4>1, TraceMasked
    <3>2. CASE ~ narrow
      <4>1. t = raw /\ U = K
        BY <2>1, <3>2 DEF raw, Under
      <4> HIDE DEF t
      <4> QED
        BY <2>5, <4>1
    <3> QED
      BY <3>1, <3>2
  <2> HIDE DEF t
  <2>7. End(t, A) = Append(b, v) /\ A[Len(t)] = b \o x
    BY <1>3, <2>5 DEF End
  <2> QED
    BY <2>1, <2>3, <2>5, <2>6, <2>7 DEF Settles
<1>7. D \in Seq(Sets) /\ Len(D) = Len(shapes) /\ M \in Sets /\ KeysOf(M) \subseteq keys
  <2>1. << >> \in Seq(Sets)
    BY EmptyIs
  <2>2. PICK U \in SUBSET AllKeys : U = keys
    OBVIOUS
  <2>3. Yields(steps, U, << >>, cut(M, U), d, D, shapes)
    BY <1>11, <2>1, <2>2
  <2>4. PICK x : Stand(x, D, shapes, U)
    BY <2>3 DEF Yields
  <2>5. s.fold \in Folds /\ Shaped(s.fold, s.keys, shapes)
    BY <1>2
  <2>6. Denotes(s.fold, D) \in Sets /\ KeysOf(Denotes(s.fold, D)) \subseteq s.keys
    BY ONLY <2>4, <2>5, FoldedIs
  <2> QED
    BY <1>2, <2>4, <2>6 DEF Stand
<1>8. Evaluates(e, D, M)
  <2>1. ASSUME NEW K \in SUBSET AllKeys, NEW b \in Seq(Sets)
        PROVE  \E A, x : /\ Trace(t, K, b, {}, A, top)
                         /\ A[Len(t)] = b \o x /\ Stand(x, D, shapes, Live(Last(t), K))
                         /\ End(t, A) = Append(b, cut(M, Live(Last(t), K)))
    <3>1. PICK U : U = Under(narrow, keys, K)
      OBVIOUS
    <3>2. Settles(t, K, U, b, top, D, shapes, cut(M, U)) /\ Live(Last(t), K) = U
      BY <1>5, <1>6, <3>1
    <3> QED
      BY <3>2 DEF Settles
  <2>2. Denotes(Last(t).fold, D) = M
    BY <1>3
  <2> QED
    BY <1>7, <2>1, <2>2 DEF Evaluates
<1> QED
  BY <1>4, <1>7, <1>8 DEF Good

----------------------------------------------------------------------------
\* Every constructor makes a plan that denotes what its children do together.

LEMMA FiniteKeys ==
  IsFiniteSet(AllKeys)
<1>1. Leaves \in Seq(SUBSET (Nat \X Nat)) /\ \A i \in DOMAIN Leaves : IsFiniteSet(Leaves[i])
  BY ExprAssumption
<1>2. Len(Leaves) \in Nat /\ DOMAIN Leaves = 1 .. Len(Leaves)
  BY <1>1, LenProperties
<1>3. IsFiniteSet(1 .. Len(Leaves))
  BY <1>2, FS_Interval
<1>4. IsFiniteSet(ToSet(Leaves))
  <2> DEFINE f == [i \in 1 .. Len(Leaves) |-> Leaves[i]]
  <2>1. f \in Surjection(1 .. Len(Leaves), ToSet(Leaves))
    BY <1>2 DEF Surjection, ToSet
  <2> HIDE DEF f
  <2> QED
    BY <1>3, <2>1, FS_Surjection
<1>5. \A s \in ToSet(Leaves) : IsFiniteSet(s)
  BY <1>1 DEF ToSet
<1>6. IsFiniteSet(Universe)
  BY <1>4, <1>5, FS_UNION DEF Universe
<1> QED
  <2> DEFINE f == [p \in Universe |-> p[1]]
  <2>1. f \in Surjection(Universe, AllKeys)
    BY DEF Surjection, AllKeys, KeysOf
  <2> HIDE DEF f
  <2> QED
    BY <1>6, <2>1, FS_Surjection

\* Where an AND does not narrow, its operands have the same keys.
LEMMA SameShapes ==
  ASSUME NEW all, all.shapes \in Seq(SUBSET AllKeys), all.base = Len(all.shapes), all.base # 0,
         NEW shape, shape = Intersection(ToSet(all.shapes)), ~ narrows("and", all, shape)
  PROVE  \A keys \in ToSet(all.shapes) : keys = shape
<1> DEFINE shapes == all.shapes
           n == Len(shapes)
<1>1. n \in Nat /\ DOMAIN shapes = 1 .. n
  BY LenProperties
<1>2. \A p : p \in shape <=> \A j \in 1 .. n : p \in shapes[j]
  BY AndIs
<1>3. \A j \in 1 .. n : shapes[j] \in SUBSET AllKeys
  BY ElementOfSeq
<1>4. \A j \in 1 .. n : shape \in SUBSET shapes[j]
  BY <1>2
<1>6. all.base = n /\ n # 0
  OBVIOUS
<1> HIDE DEF n, shapes
<1>5. ASSUME NEW j \in 1 .. n PROVE shapes[j] = shape
  <2>1. CASE all.base < 2
    <3>1. n = 1
      BY <1>1, <1>6, <2>1
    <3>2. j = 1 /\ \A i \in 1 .. n : i = 1
      BY <3>1, <1>5
    <3> QED
      BY <1>2, <1>5, <3>2
  <2>2. CASE ~ (all.base < 2)
    <3>1. all.base >= 2
      BY <1>1, <1>6, <2>2
    <3>2. ~ (Cardinality(shape) < Cardinality(shapes[j]))
      BY <1>1, <1>5, <3>1 DEF narrows, n, shapes
    <3>3. PICK big \in SUBSET AllKeys : big = shapes[j]
      BY <1>3, <1>5
    <3>4. IsFiniteSet(big) /\ shape \in SUBSET big
      BY <1>4, <1>5, <3>3, FiniteKeys, FS_Subset
    <3>5. /\ IsFiniteSet(shape) /\ Cardinality(shape) <= Cardinality(big)
          /\ Cardinality(big) = Cardinality(shape) => big = shape
      BY <3>4, FS_Subset
    <3>6. Cardinality(shape) \in Nat /\ Cardinality(big) \in Nat
      BY <3>4, <3>5, FS_CardinalityType
    <3> QED
      BY <3>2, <3>3, <3>5, <3>6
  <2> QED
    BY <2>1, <2>2
<1> QED
  BY <1>5, RangeIs DEF n, shapes

\* What the operands denote together is what the children do.
LEMMA GatheredDenote ==
  ASSUME NEW op \in {"and", "or"}, NEW m, NEW n \in Nat, DOMAIN m = 1 .. n, op = "and" => n # 0,
         NEW D \in Seq(Sets), Gathers(op, D, {m[i] : i \in 1 .. n})
  PROVE  /\ Denotes(op, D) = Denotes(op, m)
         /\ op = "and" => Len(D) # 0
         /\ op = "and" => \A i \in 1 .. n : Denotes(op, m) \subseteq m[i]
<1> DEFINE X == {m[i] : i \in 1 .. n}
<1>1. ToSet(m) = X
  BY DEF ToSet
<1> HIDE DEF X
<1>2. CASE op = "and"
  <2>1. 1 \in 1 .. n
    BY <1>2
  <2>2. m[1] \in X
    BY <2>1 DEF X
  <2>3. Len(D) # 0 /\ \A p : (\A j \in 1 .. Len(D) : p \in D[j]) <=> \A M \in X : p \in M
    BY <1>2, <2>2 DEF Gathers, X
  <2>4. \A p : p \in Intersection(ToSet(D)) <=> Len(D) # 0 /\ \A j \in 1 .. Len(D) : p \in D[j]
    BY AndIs
  <2>5. \A p : p \in Intersection(X) <=> \A M \in X : p \in M
    BY <2>2 DEF Intersection
  <2>6. Intersection(ToSet(D)) = Intersection(X)
    BY <2>3, <2>4, <2>5
  <2>7. \A i \in 1 .. n : Intersection(X) \subseteq m[i]
    BY <2>5 DEF X
  <2> QED
    BY <1>1, <1>2, <2>3, <2>6, <2>7 DEF Denotes
<1>3. CASE op = "or"
  <2>1. \A p : (\E j \in 1 .. Len(D) : p \in D[j]) <=> \E M \in X : p \in M
    BY <1>3 DEF Gathers, X
  <2>2. \A p : p \in UNION ToSet(D) <=> \E j \in 1 .. Len(D) : p \in D[j]
    BY OrIs
  <2>3. UNION ToSet(D) = UNION X
    BY <2>1, <2>2
  <2> QED
    BY <1>1, <1>3, <2>3 DEF Denotes
<1> QED
  BY <1>2, <1>3

LEMMA CombineGood ==
  ASSUME NEW op \in {"and", "or"}, NEW children, NEW m, NEW n \in Nat, Len(children) = n,
         DOMAIN m = 1 .. n, op = "and" => n # 0, \A i \in 1 .. n : Good(children[i], m[i])
  PROVE  Good(combine(op, children), Denotes(op, m))
<1> DEFINE all == spliced(op, children)
           X == {m[i] : i \in 1 .. n}
           shape == combined_shape(op, all.shapes)
           narrow == narrows(op, all, shape)
           inner == larger(all.depth, all.base)
           top == larger(inner, 1)
           raw == Append(all.steps, CombineStep(all.base, op, shape))
           patched == patch_guards(raw, patch_target(all.steps))
           e == combine(op, children)
<1>1. PICK D : AccOK(op, all, D, X)
  BY SplicedAcc
<1>2. /\ all.steps \in Seq(Steps) /\ all.shapes \in Seq(SUBSET AllKeys)
      /\ all.base = Len(all.shapes) /\ all.depth \in Nat
      /\ D \in Seq(Sets) /\ Len(D) = Len(all.shapes) /\ Gathers(op, D, X)
  BY <1>1 DEF AccOK
<1>3. e = [node |-> "combined",
           steps |-> IF narrow THEN mask_folds(patched, shape) ELSE patched,
           shape |-> shape, operands |-> all.shapes, max_depth |-> top]
  BY DEF combine
<1>4. /\ e.node = "combined" /\ e.shape = shape /\ e.operands = all.shapes /\ e.max_depth = top
      /\ e = [node |-> "combined", steps |-> e.steps, shape |-> shape, operands |-> all.shapes,
              max_depth |-> top]
  BY <1>3
<1>5. e.steps = IF narrow THEN mask_folds(patched, shape) ELSE patched
  BY <1>3
<1>6. narrow \in BOOLEAN
  BY DEF narrows
<1>7. narrow => op = "and"
  BY DEF narrows
<1>8. Len(all.steps) \in Nat /\ Len(all.shapes) \in Nat /\ all.base \in Nat
  BY <1>2, LenProperties
<1> HIDE DEF all, X, e, narrow
<1>9. shape \in SUBSET AllKeys /\ Shaped(op, shape, all.shapes) /\ op \in Folds
  <2>1. op = "and" => Len(D) # 0 /\ shape = Intersection(ToSet(all.shapes))
    BY <1>2, GatheredDenote DEF X, combined_shape, intersect_shape
  <2>2. op = "or" => shape = UNION ToSet(all.shapes)
    BY DEF combined_shape, union_shape
  <2>3. ToSet(all.shapes) \subseteq SUBSET AllKeys
    BY <1>2, RangeIs
  <2>4. shape \in SUBSET AllKeys
    BY <2>1, <2>2, <2>3 DEF Intersection
  <2> QED
    BY <1>2, <2>1, <2>2, <2>4 DEF Shaped, Folds
<1>10. top \in Nat /\ all.depth <= top /\ 1 <= top
  <2>1. inner \in Nat /\ all.depth <= inner
    BY <1>2, <1>8, LargerIs
  <2> HIDE DEF inner
  <2>2. top \in Nat /\ inner <= top /\ 1 <= top
    BY <2>1, LargerIs
  <2> HIDE DEF top
  <2> QED
    BY <1>2, <2>1, <2>2
<1>11. patched = Finished(all.steps, op, shape, all.shapes)
  BY <1>2 DEF Finished, patch_target
<1> HIDE DEF shape, top, patched, inner, raw
<1>12. /\ Denotes(op, D) = Denotes(op, m)
       /\ op = "and" => all.base # 0 /\ \A N \in X : Denotes(op, m) \subseteq N
  <2>1. /\ Denotes(op, D) = Denotes(op, m)
        /\ op = "and" => Len(D) # 0
        /\ op = "and" => \A i \in 1 .. n : Denotes(op, m) \subseteq m[i]
    BY <1>2, GatheredDenote DEF X
  <2> QED
    BY <1>2, <2>1 DEF X
<1>13. ASSUME NEW K \in SUBSET AllKeys, NEW b \in Seq(Sets), narrow => K = shape
       PROVE  Yields(all.steps, K, b, cut(Denotes(op, D), K), all.depth, D, all.shapes)
  <2>1. Fits(op, K, shape, all.shapes)
    <3> SUFFICES ASSUME op = "and", NEW keys \in ToSet(all.shapes)
                 PROVE  shape \subseteq keys /\ K \cap keys \subseteq shape
      BY DEF Fits
    <3>1. shape = Intersection(ToSet(all.shapes))
      BY <1>9 DEF Shaped
    <3>2. shape \subseteq keys
      BY <3>1 DEF Intersection
    <3>3. CASE narrow
      BY <1>13, <3>2, <3>3
    <3>4. CASE ~ narrow
      <4>1. ~ narrows("and", all, shape)
        BY <3>4 DEF narrow, shape
      <4>2. keys = shape
        BY <1>2, <1>12, <3>1, <4>1, SameShapes
      <4> QED
        BY <4>2
    <3> QED
      BY <3>3, <3>4
  <2>2. Dead(op, K, X, cut(Denotes(op, D), K))
    BY <1>12 DEF Dead, cut
  <2>3. PICK v : v = cut(Denotes(op, D), K)
    OBVIOUS
  <2>4. Dead(op, K, X, v)
    BY <2>2, <2>3
  <2>5. Yields(all.steps, K, b, v, all.depth, D, all.shapes)
    BY <1>1, <2>1, <2>4 DEF AccOK, Yields
  <2> QED
    BY <2>3, <2>5
<1>14. Ready(narrow, all.steps, op, shape, all.shapes, all.depth, D)
  BY <1>2, <1>6, <1>7, <1>9, <1>13 DEF Ready
<1>15. IsPlan(e, narrow, all.steps, op, shape, all.shapes, all.depth)
  BY <1>4, <1>5, <1>10, <1>11 DEF IsPlan
<1>16. Good(e, Denotes(op, D))
  BY ONLY <1>14, <1>15, PlanGood
<1> QED
  BY <1>12, <1>16 DEF e

\* A manifest with no guard to resolve serves any fold that comes after.
LEMMA YieldsAny ==
  ASSUME NEW steps, NEW K, NEW b, NEW w, NEW v, NEW d, NEW D, NEW shapes,
         Yields(steps, K, b, w, d, D, shapes), Resolved(steps)
  PROVE  Yields(steps, K, b, v, d, D, shapes)
<1>1. PICK A, x : Trace(steps, K, b, w, A, d) /\ End(steps, A) = b \o x /\ Stand(x, D, shapes, K)
  BY DEF Yields
<1>2. ASSUME NEW k \in 1 .. Len(steps), steps[k].op = "guard"
      PROVE  Jumps(steps[k], b, v, A, k, Len(steps) + 1)
  <2>1. Jumps(steps[k], b, w, A, k, Len(steps) + 1) /\ steps[k].skip # UNRESOLVED
    BY <1>1, <1>2 DEF Trace, Resolved
  <2> QED
    BY <2>1 DEF Jumps
<1>3. Trace(steps, K, b, v, A, d)
  BY <1>1, <1>2 DEF Trace
<1> QED
  BY <1>1, <1>3 DEF Yields

LEMMA DifferenceIs ==
  ASSUME NEW D \in Seq(Sets), NEW M \in Sets, NEW N \in Sets, Means("diff_lhs", D, M)
  PROVE  /\ Denotes("diff", D \o << N >>) = Denotes("diff", << M, N >>)
         /\ Denotes("diff", << M, N >>) \subseteq M
         /\ Len(D) # 0
<1>1. Len(D) # 0 /\ \A p : p \in M <=> p \in D[1] /\ \A j \in 2 .. Len(D) : p \notin D[j]
  BY DEF Means
<1>2. << N >> \in Seq(Sets) /\ Len(<< N >>) = 1 /\ << N >>[1] = N
  BY OneIs
<1>3. PICK E : E = D \o << N >>
  OBVIOUS
<1>4. /\ E \in Seq(Sets) /\ Len(E) = Len(D) + 1 /\ Len(D) \in Nat
      /\ \A j \in 1 .. Len(D) : E[j] = D[j]
      /\ E[Len(D) + 1] = N
  <2>1. /\ E \in Seq(Sets) /\ Len(E) = Len(D) + Len(<< N >>)
        /\ \A j \in 1 .. Len(D) : E[j] = D[j]
        /\ \A j \in 1 .. Len(<< N >>) : E[Len(D) + j] = << N >>[j]
    BY <1>2, <1>3, ConcatIs
  <2>2. 1 \in 1 .. 1 /\ Len(D) \in Nat
    BY LenProperties
  <2> QED
    BY <1>2, <2>1, <2>2
<1>5. PICK F \in Seq(Sets) : F = << M, N >> /\ Len(F) = 2 /\ F[1] = M /\ F[2] = N
  <2>1. /\ << M, N >> \in Seq(Sets) /\ Len(<< M, N >>) = 2
        /\ << M, N >>[1] = M /\ << M, N >>[2] = N
    OBVIOUS
  <2> QED
    BY <2>1
<1>6. \A p : p \in Denotes("diff", E) <=> p \in E[1] /\ \A j \in 2 .. Len(E) : p \notin E[j]
  <2>1. Len(E) # 0
    BY <1>4
  <2> QED
    BY <1>4, <2>1, DiffIs
<1>7. \A p : p \in Denotes("diff", F) <=> p \in F[1] /\ \A j \in 2 .. Len(F) : p \notin F[j]
  <2>1. Len(F) # 0
    BY <1>5
  <2> QED
    BY <2>1, DiffIs
<1>8. \A p : p \in Denotes("diff", F) <=> p \in M /\ p \notin N
  <2>1. 2 .. 2 = {2}
    OBVIOUS
  <2> QED
    BY <1>5, <1>7, <2>1
<1>9. \A p : p \in Denotes("diff", E) <=> p \in M /\ p \notin N
  <2>1. 1 \in 1 .. Len(D) /\ (\A j \in 2 .. Len(D) : j \in 1 .. Len(D) /\ j \in 2 .. Len(E))
        /\ Len(D) + 1 \in 2 .. Len(E)
    BY <1>1, <1>4
  <2>2. \A j \in 2 .. Len(E) : j \in 2 .. Len(D) \/ j = Len(D) + 1
    BY <1>1, <1>4
  <2>3. E[1] = D[1] /\ \A j \in 2 .. Len(D) : E[j] = D[j]
    BY <1>4, <2>1
  <2>4. ASSUME NEW p PROVE (\A j \in 2 .. Len(E) : p \notin E[j])
                             <=> (\A j \in 2 .. Len(D) : p \notin D[j]) /\ p \notin N
    BY <1>4, <2>1, <2>2, <2>3
  <2> QED
    BY <1>1, <1>6, <2>3, <2>4
<1>10. Denotes("diff", E) = Denotes("diff", F)
  <2>1. \A p : p \in Denotes("diff", E) <=> p \in Denotes("diff", F)
    BY <1>8, <1>9
  <2> QED
    BY <2>1 DEF Denotes
<1> QED
  BY <1>1, <1>3, <1>5, <1>8, <1>10

LEMMA DiffGood ==
  ASSUME NEW lhs, NEW rhs, NEW M, NEW N, Good(lhs, M), Good(rhs, N)
  PROVE  Good(diff(lhs, rhs), Denotes("diff", << M, N >>))
<1> DEFINE l == splice(lhs, "diff_lhs")
           r == splice(rhs, "diff")
           shapes == l.shapes \o r.shapes
           left == l.steps \o (IF l.guardable THEN << GuardStep(1) >> ELSE << >>)
           before == left \o r.steps
           shape == diff_shape(shapes)
           inner == larger(l.depth, l.net + r.depth)
           top == larger(inner, l.net + 1)
           steps == patch_guards(Append(before, CombineStep(l.net + 1, "diff", shape)),
                                 patch_target(before))
           e == diff(lhs, rhs)
           V == Denotes("diff", << M, N >>)
<1>1. M \in Sets /\ N \in Sets
  BY DEF Good
<1>2. PICK D : PartOK("diff_lhs", l, D, M)
  BY SplicedPart
<1>3. PICK E : PartOK("diff", r, E, N)
  BY SplicedPart
<1>4. e = [node |-> "combined", steps |-> steps, shape |-> shape, operands |-> shapes,
           max_depth |-> top]
  BY DEF diff
<1>5. /\ e.steps = steps /\ e.max_depth = top
      /\ e = [node |-> "combined", steps |-> e.steps, shape |-> shape, operands |-> shapes,
              max_depth |-> e.max_depth]
  BY <1>4
<1> HIDE DEF l, r, e
<1>6. /\ l.steps \in Seq(Steps) /\ Resolved(l.steps)
      /\ l.shapes \in Seq(SUBSET AllKeys) /\ l.net = Len(l.shapes) /\ l.depth \in Nat
      /\ D \in Seq(Sets) /\ Len(D) = Len(l.shapes) /\ Means("diff_lhs", D, M)
  BY <1>2 DEF PartOK
<1>7. l.guardable \in BOOLEAN /\ (l.guardable => D = << M >>)
  BY <1>2, Zenon DEF PartOK
<1>8. /\ r.steps \in Seq(Steps) /\ Resolved(r.steps)
      /\ r.shapes \in Seq(SUBSET AllKeys) /\ r.depth \in Nat
      /\ E \in Seq(Sets) /\ Len(E) = Len(r.shapes) /\ E = << N >>
  BY <1>3 DEF PartOK, Means
<1>9. /\ Denotes("diff", D \o E) = V /\ V \subseteq M /\ Len(D) # 0
  BY <1>1, <1>6, <1>8, DifferenceIs
<1>10. Len(D) \in Nat \ {0} /\ l.net = Len(D) /\ Len(r.shapes) = 1
  <2>1. Len(<< N >>) = 1
    OBVIOUS
  <2> QED
    BY <1>6, <1>8, <1>9, <2>1, LenProperties
<1>11. shapes \in Seq(SUBSET AllKeys) /\ Len(shapes) = l.net + 1
  <2>1. shapes \in Seq(SUBSET AllKeys) /\ Len(shapes) = Len(l.shapes) + Len(r.shapes)
    BY <1>6, <1>8, ConcatIs
  <2> HIDE DEF shapes
  <2> QED
    BY <1>6, <1>10, <2>1
<1>12. left \in Seq(Steps) /\ before \in Seq(Steps) /\ Len(before) \in Nat
  <2>1. GuardStep(1) \in Steps
    BY GuardStepIs
  <2>2. << GuardStep(1) >> \in Seq(Steps) /\ << >> \in Seq(Steps)
    BY <2>1, OneIs, EmptyIs
  <2>3. l.steps \o << GuardStep(1) >> \in Seq(Steps) /\ l.steps \o << >> \in Seq(Steps)
    BY <1>6, <2>2, ConcatIs
  <2>4. left \in Seq(Steps)
    BY <2>3
  <2> HIDE DEF left
  <2> QED
    BY <1>8, <2>4, ConcatIs, LenProperties
<1>13. shape \in SUBSET AllKeys /\ Shaped("diff", shape, shapes)
  <2> HIDE DEF shapes
  <2>1. 1 \in 1 .. Len(shapes) /\ Len(shapes) \notin {0, 1}
    BY <1>10, <1>11
  <2>2. shapes[1] \in SUBSET AllKeys
    BY <1>11, <2>1, ElementOfSeq
  <2> QED
    BY <2>1, <2>2 DEF Shaped, diff_shape
<1>14. /\ inner \in Nat /\ l.depth <= inner /\ Len(l.shapes) + r.depth <= inner
       /\ top \in Nat /\ inner <= top /\ 1 <= top
  <2>1. PICK n \in Nat : n = l.net + r.depth
    BY <1>8, <1>10
  <2>2. inner = larger(l.depth, n)
    BY <2>1
  <2>3. PICK k \in Nat : k = l.net + 1 /\ 1 <= k
    BY <1>10
  <2>4. top = larger(inner, k)
    BY <2>3
  <2> HIDE DEF inner, top
  <2>5. inner \in Nat /\ l.depth <= inner /\ n <= inner
    BY <1>6, <2>2, LargerIs
  <2>6. top \in Nat /\ inner <= top /\ k <= top
    BY <2>3, <2>4, <2>5, LargerIs
  <2> QED
    BY <1>6, <2>1, <2>3, <2>5, <2>6
<1>15. steps = Finished(before, "diff", shape, shapes)
  <2> HIDE DEF before, shape, shapes
  <2> QED
    BY <1>11 DEF Finished, patch_target
<1> HIDE DEF shapes, shape, inner, top, steps, V
<1>16. ASSUME NEW K \in SUBSET AllKeys, NEW b \in Seq(Sets)
       PROVE  Yields(before, K, b, cut(V, K), inner, D \o E, shapes)
  <2>1. PICK v : v = cut(V, K)
    OBVIOUS
  <2>2. Yields(l.steps, K, b, v, l.depth, D, l.shapes)
    <3>1. Fits("diff_lhs", K, {}, l.shapes)
      BY DEF Fits
    <3>2. Yields(l.steps, K, b, {}, l.depth, D, l.shapes)
      BY <1>2, <3>1 DEF PartOK, Yields
    <3> QED
      BY <1>6, <3>2, YieldsAny
  <2>3. Yields(left, K, b, v, l.depth, D, l.shapes)
    <3>1. CASE l.guardable
      <4>1. D = << M >>
        BY <1>7, <3>1
      <4>2. PICK none \in Seq(Sets) : none = << >>
        BY EmptyIs
      <4>3. << M >> \in Seq(Sets)
        BY <1>1, OneIs
      <4>4. none \o << M >> = D /\ Len(none) + 1 = 1
        BY <4>1, <4>2, <4>3, ConcatEmptySeq, EmptyIs
      <4>5. cut(M, K) = {} => v = {}
        BY <1>9, <2>1 DEF cut
      <4>6. Yields(l.steps, K, b, v, l.depth, none \o << M >>, l.shapes)
        BY <2>2, <4>4
      <4>7. Yields(Append(l.steps, GuardStep(Len(none) + 1)), K, b, v, l.depth, none \o << M >>, l.shapes)
        BY <1>1, <4>5, <4>6, GuardYields
      <4>8. Append(l.steps, GuardStep(1)) = left
        <5>1. GuardStep(1) \in Steps
          BY GuardStepIs
        <5>2. Append(l.steps, GuardStep(1)) = l.steps \o << GuardStep(1) >>
          BY <1>6, <5>1, AppendIs
        <5> QED
          BY <3>1, <5>2
      <4> HIDE DEF left
      <4> QED
        BY <4>4, <4>7, <4>8
    <3>2. CASE ~ l.guardable
      <4>1. l.steps \o << >> = l.steps
        BY <1>6, ConcatEmptySeq
      <4>2. left = l.steps
        BY <3>2, <4>1
      <4> HIDE DEF left
      <4> QED
        BY <2>2, <4>2
    <3> QED
      BY <3>1, <3>2
  <2>4. \A c \in Seq(Sets) : Yields(r.steps, K, c, {}, r.depth, E, r.shapes)
    <3>1. Fits("diff", K, {}, r.shapes)
      BY DEF Fits
    <3> QED
      BY <1>3, <3>1 DEF PartOK, Yields
  <2> HIDE DEF left
  <2>5. Yields(before, K, b, v, inner, D \o E, l.shapes \o r.shapes)
    BY <1>8, <1>14, <2>3, <2>4, PiecesYield
  <2> QED
    BY <2>1, <2>5 DEF shapes
<1> HIDE DEF before
<1>17. Ready(FALSE, before, "diff", shape, shapes, inner, D \o E)
  <2>1. \A K \in SUBSET AllKeys : \A b \in Seq(Sets) :
          Yields(before, K, b, cut(Denotes("diff", D \o E), K), inner, D \o E, shapes)
    BY <1>9, <1>16
  <2> QED
    BY <1>11, <1>12, <1>13, <2>1 DEF Ready, Folds
<1>18. IsPlan(e, FALSE, before, "diff", shape, shapes, inner)
  BY <1>5, <1>14, <1>15 DEF IsPlan
<1>19. Good(e, Denotes("diff", D \o E))
  BY ONLY <1>17, <1>18, PlanGood
<1> QED
  BY <1>9, <1>19 DEF e, V

----------------------------------------------------------------------------
\* Executions.

\* Run at the step `at` with this stack, the plan is on its way to M.
Follows(e, M, at, s) ==
  \E A : /\ Trace(e.steps, AllKeys, << >>, {}, A, e.max_depth)
         /\ at \in 1 .. Len(e.steps) + 1 /\ s = A[at]
         /\ End(e.steps, A) = << M >>

\* Every expression at hand denotes what its history says.
Sound ==
  /\ exprs \in Seq(LeafNodes \cup Plans) /\ meaning \in Seq(Sets)
  /\ Len(meaning) = Len(exprs) /\ Len(exprs) <= MaxExprs
  /\ \A i \in 1 .. Len(exprs) : Good(exprs[i], meaning[i])

Idle == run = 0 /\ pc = 1 /\ stack = << >> /\ answer = << >>

LeafAnswered ==
  /\ run \in 1 .. Len(exprs) /\ plan.node = "leaf"
  /\ pc = 1 /\ stack = << >> /\ answer = << meaning[run] >>

OnTrace ==
  /\ run \in 1 .. Len(exprs) /\ plan.node = "combined"
  /\ PlanOK(plan) /\ Follows(plan, meaning[run], pc, stack) /\ answer = << >>

Answered ==
  /\ run \in 1 .. Len(exprs) /\ plan.node = "combined"
  /\ PlanOK(plan) /\ pc = Len(plan.steps) + 1 /\ stack = << >> /\ answer = << meaning[run] >>

\* The inductive invariant.
ExprInv == Sound /\ (Idle \/ LeafAnswered \/ OnTrace \/ Answered)

LEMMA GoodIs ==
  ASSUME NEW e, NEW M, Good(e, M)
  PROVE  /\ e \in LeafNodes \cup Plans /\ M \in Sets
         /\ e.node = "leaf" => e.set = M
         /\ e.node = "combined" => PlanOK(e)
         /\ e.node \in {"leaf", "combined"}
<1>1. CASE e \in LeafNodes /\ e.set = M
  BY <1>1 DEF Good, LeafNodes
<1>2. CASE PlanOK(e)
  BY <1>2 DEF Good, PlanOK, Plans
<1> QED
  BY <1>1, <1>2 DEF Good

\* A plan is run from an empty stack, all keys live.
LEMMA PlanRuns ==
  ASSUME NEW e, NEW M, Good(e, M), e.node = "combined"
  PROVE  PlanOK(e) /\ Follows(e, M, 1, << >>)
<1>1. PlanOK(e) /\ KeysOf(M) \subseteq e.shape /\ M \in Sets
  BY DEF Good, LeafNodes
<1>2. PICK D : Evaluates(e, D, M)
  BY DEF Good, LeafNodes
<1>3. << >> \in Seq(Sets) /\ AllKeys \in SUBSET AllKeys
  BY EmptyIs
<1>4. PICK A : /\ Trace(e.steps, AllKeys, << >>, {}, A, e.max_depth)
               /\ End(e.steps, A) = Append(<< >>, cut(M, Live(Last(e.steps), AllKeys)))
  BY <1>2, <1>3 DEF Evaluates
<1>5. Live(Last(e.steps), AllKeys) = AllKeys \/ Live(Last(e.steps), AllKeys) = e.shape
  BY <1>1, PlanIs
<1>6. \A p \in M : p[1] \in AllKeys /\ p[1] \in e.shape
  BY <1>1, KeyIs
<1>7. cut(M, Live(Last(e.steps), AllKeys)) = M
  BY <1>5, <1>6 DEF cut
<1>8. Append(<< >>, M) = << M >>
  OBVIOUS
<1>9. A[1] = << >> /\ 1 \in 1 .. Len(e.steps) + 1
  BY <1>4, LenProperties DEF Trace
<1> QED
  BY <1>1, <1>4, <1>7, <1>8, <1>9 DEF Follows

\* The step that is about to run, on the trace A.
StepOn(e, M, at, s, A) ==
  /\ Trace(e.steps, AllKeys, << >>, {}, A, e.max_depth)
  /\ End(e.steps, A) = << M >>
  /\ at \in 1 .. Len(e.steps) /\ at + 1 \in 1 .. Len(e.steps) + 1
  /\ s = A[at] /\ s \in Seq(Sets) /\ e.steps[at] \in Steps
  /\ Moves(e.steps[at], AllKeys, s, A[at + 1])
  /\ e.steps[at].op = "guard" =>
       /\ e.steps[at].skip \in Nat \ {0} /\ e.steps[at].pop <= Len(s)
       /\ at + e.steps[at].skip \in 1 .. Len(e.steps) + 1
       /\ TopEmpty(s) => A[at + e.steps[at].skip] = Append(Below(s, e.steps[at].pop), {})

LEMMA AtStep ==
  ASSUME NEW e, PlanOK(e), NEW M, NEW at, NEW s, Follows(e, M, at, s), at <= Len(e.steps)
  PROVE  \E A : StepOn(e, M, at, s, A)
<1>1. PICK A : /\ Trace(e.steps, AllKeys, << >>, {}, A, e.max_depth)
               /\ at \in 1 .. Len(e.steps) + 1 /\ s = A[at]
               /\ End(e.steps, A) = << M >>
  BY DEF Follows
<1>2. /\ e.steps \in Seq(Steps) /\ Len(e.steps) \in Nat /\ Resolved(e.steps)
      /\ \A k \in 1 .. Len(e.steps) : e.steps[k] \in Steps
  BY <1>1, StepAt DEF Trace, PlanOK
<1>3. at \in 1 .. Len(e.steps) /\ at + 1 \in 1 .. Len(e.steps) + 1
  BY <1>1, <1>2
<1>4. s \in Seq(Sets) /\ Moves(e.steps[at], AllKeys, s, A[at + 1])
  BY <1>1, <1>3 DEF Trace
<1>5. ASSUME e.steps[at].op = "guard"
      PROVE  /\ e.steps[at].skip \in Nat \ {0} /\ e.steps[at].pop <= Len(s)
             /\ at + e.steps[at].skip \in 1 .. Len(e.steps) + 1
             /\ TopEmpty(s) => A[at + e.steps[at].skip] = Append(Below(s, e.steps[at].pop), {})
  <2>1. Jumps(e.steps[at], << >>, {}, A, at, Len(e.steps) + 1) /\ e.steps[at].skip # UNRESOLVED
    BY <1>1, <1>2, <1>3, <1>5 DEF Trace, Resolved
  <2>2. /\ e.steps[at].skip \in Nat \ {0} /\ at + e.steps[at].skip <= Len(e.steps) + 1
        /\ e.steps[at].pop <= Len(s)
        /\ TopEmpty(s) => A[at + e.steps[at].skip] = Append(Below(s, e.steps[at].pop), {})
    BY <1>1, <2>1 DEF Jumps
  <2> QED
    BY <1>2, <1>3, <2>2
<1> QED
  BY <1>1, <1>2, <1>3, <1>4, <1>5 DEF StepOn

LEMMA InvInit ==
  ASSUME Init PROVE ExprInv
<1>1. /\ Leaves \in Seq(SUBSET (Nat \X Nat)) /\ Len(Leaves) \in Nat /\ Len(Leaves) <= MaxExprs
      /\ DOMAIN Leaves = 1 .. Len(Leaves)
  BY ExprAssumption, LenProperties
<1> DEFINE n == Len(Leaves)
<1>2. \A i \in 1 .. n : Leaves[i] \in Sets
  <2>1. \A i \in 1 .. n : Leaves[i] \in ToSet(Leaves)
    BY <1>1 DEF ToSet
  <2> QED
    BY <2>1 DEF Sets, Universe
<1>3. meaning = Leaves /\ Leaves \in [1 .. n -> Sets]
  <2>1. Leaves = [i \in 1 .. n |-> Leaves[i]]
    BY <1>1, SeqDef
  <2> QED
    BY <1>2, <2>1 DEF Init
<1>4. meaning \in Seq(Sets) /\ Len(meaning) = n
  BY <1>1, <1>3, SeqIs
<1>5. exprs = [i \in 1 .. n |-> LeafNode(Leaves[i])]
  BY <1>1 DEF Init
<1>6. \A i \in 1 .. n : exprs[i] \in LeafNodes /\ exprs[i].set = meaning[i] /\ meaning[i] \in Sets
  BY <1>2, <1>3, <1>5 DEF LeafNode, LeafNodes
<1>7. exprs \in [1 .. n -> LeafNodes \cup Plans]
  BY <1>5, <1>6
<1>8. exprs \in Seq(LeafNodes \cup Plans) /\ Len(exprs) = n
  BY <1>1, <1>7, SeqIs
<1>9. Sound
  BY <1>1, <1>4, <1>6, <1>8 DEF Sound, Good
<1>10. Idle
  BY DEF Init, Idle
<1> QED
  BY <1>9, <1>10 DEF ExprInv

\* A new expression joins those at hand.
LEMMA BuiltSound ==
  ASSUME ExprInv, NEW e, NEW M, Build(e, M), Good(e, M)
  PROVE  ExprInv'
<1>1. /\ exprs \in Seq(LeafNodes \cup Plans) /\ meaning \in Seq(Sets)
      /\ Len(meaning) = Len(exprs) /\ Len(exprs) <= MaxExprs /\ Len(exprs) \in Nat
      /\ \A i \in 1 .. Len(exprs) : Good(exprs[i], meaning[i])
  BY LenProperties DEF ExprInv, Sound
<1>2. /\ run = 0 /\ Len(exprs) < MaxExprs /\ exprs' = Append(exprs, e) /\ meaning' = Append(meaning, M)
      /\ run' = run /\ pc' = pc /\ stack' = stack /\ answer' = answer
  BY DEF Build
<1>3. e \in LeafNodes \cup Plans /\ M \in Sets
  BY GoodIs
<1>4. /\ exprs' \in Seq(LeafNodes \cup Plans) /\ Len(exprs') = Len(exprs) + 1
      /\ exprs'[Len(exprs) + 1] = e /\ \A i \in 1 .. Len(exprs) : exprs'[i] = exprs[i]
  BY <1>1, <1>2, <1>3, AppendIs
<1>5. /\ meaning' \in Seq(Sets) /\ Len(meaning') = Len(exprs) + 1
      /\ meaning'[Len(exprs) + 1] = M /\ \A i \in 1 .. Len(exprs) : meaning'[i] = meaning[i]
  BY <1>1, <1>2, <1>3, AppendIs
<1>6. \A i \in 1 .. Len(exprs) + 1 : Good(exprs'[i], meaning'[i])
  <2>1. \A i \in 1 .. Len(exprs) + 1 : i \in 1 .. Len(exprs) \/ i = Len(exprs) + 1
    BY <1>1
  <2> QED
    BY <1>1, <1>4, <1>5, <2>1
<1>7. Len(exprs') <= MaxExprs
  BY <1>1, <1>2, <1>4, ExprAssumption
<1>8. Sound'
  BY <1>4, <1>5, <1>6, <1>7 DEF Sound
<1>9. Idle
  <2>1. ~ (run \in 1 .. Len(exprs))
    BY <1>1, <1>2
  <2> QED
    BY <2>1 DEF ExprInv, LeafAnswered, OnTrace, Answered
<1>10. Idle'
  BY <1>2, <1>9 DEF Idle
<1> QED
  BY <1>8, <1>10 DEF ExprInv

LEMMA ChildrenGood ==
  ASSUME Sound, NEW n \in Nat, NEW c \in [1 .. n -> DOMAIN exprs],
         NEW op \in {"and", "or"}, op = "and" => n # 0
  PROVE  Good(combine(op, [k \in DOMAIN c |-> exprs[c[k]]]), Denotes(op, [k \in DOMAIN c |-> meaning[c[k]]]))
<1> DEFINE children == [k \in DOMAIN c |-> exprs[c[k]]]
           m == [k \in DOMAIN c |-> meaning[c[k]]]
<1>1. DOMAIN exprs = 1 .. Len(exprs) /\ DOMAIN c = 1 .. n
  BY LenProperties DEF Sound
<1>2. DOMAIN m = 1 .. n /\ \A i \in 1 .. n : Good(children[i], m[i]) /\ children[i] \in LeafNodes \cup Plans
  BY <1>1, ElementOfSeq DEF Sound
<1>3. children \in [1 .. n -> LeafNodes \cup Plans]
  BY <1>1, <1>2
<1> HIDE DEF children, m
<1>4. Len(children) = n
  BY <1>3, SeqIs
<1>5. Good(combine(op, children), Denotes(op, m))
  BY <1>2, <1>4, CombineGood
<1> QED
  BY <1>5 DEF children, m

\* What there is to know of a step that runs.
LEMMA RunningIs ==
  ASSUME ExprInv, Running
  PROVE  Sound /\ OnTrace /\ pc <= Len(plan.steps)
<1>1. Sound /\ (Idle \/ LeafAnswered \/ OnTrace \/ Answered)
  BY DEF ExprInv
<1>2. run # 0 /\ plan.node = "combined" /\ pc <= Len(plan.steps)
  BY DEF Running, Executing
<1>3. ~ Idle /\ ~ LeafAnswered
  BY <1>2 DEF Idle, LeafAnswered
<1>4. ASSUME Answered PROVE FALSE
  <2>1. pc = Len(plan.steps) + 1 /\ Len(plan.steps) \in Nat
    BY <1>4, PlanIs DEF Answered
  <2> QED
    BY <1>2, <2>1
<1> QED
  BY <1>1, <1>2, <1>3, <1>4

\* The plan at hand goes on along its trace.
LEMMA GoesOn ==
  ASSUME Sound, OnTrace, UNCHANGED << built, run, answer >>,
         NEW A, Trace(plan.steps, AllKeys, << >>, {}, A, plan.max_depth),
         End(plan.steps, A) = << meaning[run] >>,
         pc' \in 1 .. Len(plan.steps) + 1, stack' = A[pc']
  PROVE  ExprInv'
<1>1. exprs' = exprs /\ meaning' = meaning /\ run' = run /\ answer' = answer
  BY DEF built
<1>2. Sound'
  BY <1>1 DEF Sound
<1>3. Follows(plan, meaning[run], pc', stack')
  BY DEF Follows
<1>4. plan' = plan /\ meaning'[run'] = meaning[run]
  BY <1>1 DEF plan
<1>5. OnTrace'
  BY <1>1, <1>3, <1>4 DEF OnTrace
<1> QED
  BY <1>2, <1>5 DEF ExprInv

LEMMA DropIs ==
  ASSUME NEW n
  PROVE  Drop(n) = Below(stack, n) /\ top_empty = TopEmpty(stack)
BY DEF Drop, Below, top_empty, TopEmpty

\* A fold sees and claims what its trace says.
LEMMA InputsAre ==
  ASSUME stack \in Seq(Sets), step \in Steps, step.op = "combine", step.arity <= Len(stack)
  PROVE  /\ inputs = Masked(Above(stack, step.arity), Live(step, AllKeys))
         /\ claims = Claims(step, inputs)
<1>1. step.arity \in Nat /\ Len(stack) \in Nat
  BY StepIs, LenProperties
<1>2. PICK n \in 0 .. Len(stack) : n = step.arity
  BY <1>1
<1> DEFINE x == Above(stack, n)
           K == Live(step, AllKeys)
<1>3. /\ Len(x) = n
      /\ \A i \in 1 .. n : x[i] = stack[Len(stack) - n + i] /\ x[i] \in Sets
  BY BelowIs
<1> HIDE DEF x
<1>4. \A i \in 1 .. n : live(stack[Len(stack) - n + i], step.mask) = cut(x[i], K)
  <2> TAKE i \in 1 .. n
  <2>1. x[i] = stack[Len(stack) - n + i] /\ x[i] \in Sets
    BY <1>3
  <2>2. \A p \in x[i] : p[1] \in AllKeys
    BY <2>1, KeyIs
  <2>3. CASE step.mask = << >>
    <3>1. live(x[i], step.mask) = x[i] /\ K = AllKeys
      BY <2>3 DEF live, Live
    <3>2. cut(x[i], AllKeys) = x[i]
      BY <2>2 DEF cut
    <3> QED
      BY <2>1, <3>1, <3>2
  <2>4. CASE step.mask # << >>
    BY <2>1, <2>4 DEF live, Live, cut
  <2> QED
    BY <2>3, <2>4
<1>5. inputs = [i \in 1 .. n |-> live(stack[Len(stack) - n + i], step.mask)]
  BY <1>2 DEF inputs
<1> HIDE DEF K
<1>6. Masked(x, K) = [i \in 1 .. n |-> cut(x[i], K)]
  BY <1>3 DEF Masked
<1>7. inputs = Masked(x, K)
  BY <1>4, <1>5, <1>6
<1>8. claims = Claims(step, inputs)
  BY DEF claims, Claims
<1> QED
  BY <1>2, <1>7, <1>8 DEF x, K

\* Every action keeps the invariant.
LEMMA InvNext ==
  ASSUME 0 \notin AndArities, ExprInv, [Next]_vars
  PROVE  ExprInv'
<1>1. ASSUME NEW n \in AndArities, NEW c \in [1 .. n -> DOMAIN exprs], BuildCombine("and", c)
      PROVE  ExprInv'
  <2>1. n \in Nat /\ n # 0 /\ Sound
    BY <1>1, ExprAssumption DEF ExprInv
  <2>2. Good(combine("and", [k \in DOMAIN c |-> exprs[c[k]]]),
             Denotes("and", [k \in DOMAIN c |-> meaning[c[k]]]))
    BY <2>1, ChildrenGood
  <2> QED
    BY <1>1, <2>2, BuiltSound DEF BuildCombine
<1>2. ASSUME NEW n \in OrArities, NEW c \in [1 .. n -> DOMAIN exprs], BuildCombine("or", c)
      PROVE  ExprInv'
  <2>1. n \in Nat /\ Sound
    BY <1>2, ExprAssumption DEF ExprInv
  <2>2. Good(combine("or", [k \in DOMAIN c |-> exprs[c[k]]]),
             Denotes("or", [k \in DOMAIN c |-> meaning[c[k]]]))
    BY <2>1, ChildrenGood
  <2> QED
    BY <1>2, <2>2, BuiltSound DEF BuildCombine
<1>3. ASSUME NEW lhs \in DOMAIN exprs, NEW rhs \in DOMAIN exprs, BuildDifference(lhs, rhs)
      PROVE  ExprInv'
  <2>1. Good(exprs[lhs], meaning[lhs]) /\ Good(exprs[rhs], meaning[rhs])
    BY LenProperties DEF ExprInv, Sound
  <2>2. Good(diff(exprs[lhs], exprs[rhs]), Denotes("diff", << meaning[lhs], meaning[rhs] >>))
    BY <2>1, DiffGood
  <2> QED
    BY <1>3, <2>2, BuiltSound DEF BuildDifference
<1>4. ASSUME run = 0 PROVE Sound /\ Idle
  <2>1. Len(exprs) \in Nat
    BY LenProperties DEF ExprInv, Sound
  <2>2. ~ (run \in 1 .. Len(exprs))
    BY <1>4, <2>1
  <2> QED
    BY <2>2 DEF ExprInv, LeafAnswered, OnTrace, Answered
<1>5. ASSUME NEW i \in DOMAIN exprs, MaterializeLeaf(i) PROVE ExprInv'
  <2>1. Sound /\ Idle /\ i \in 1 .. Len(exprs)
    BY <1>4, <1>5, LenProperties DEF MaterializeLeaf, Sound
  <2>2. exprs[i].node = "leaf" /\ exprs[i].set = meaning[i]
    BY <1>5, <2>1, GoodIs DEF MaterializeLeaf, Sound
  <2>3. Sound'
    BY <1>5, <2>1 DEF MaterializeLeaf, Sound, built
  <2>4. LeafAnswered'
    BY <1>5, <2>1, <2>2 DEF MaterializeLeaf, LeafAnswered, Idle, plan, built
  <2> QED
    BY <2>3, <2>4 DEF ExprInv
<1>6. ASSUME NEW i \in DOMAIN exprs, Materialize(i) PROVE ExprInv'
  <2>1. Sound /\ Idle /\ i \in 1 .. Len(exprs)
    BY <1>4, <1>6, LenProperties DEF Materialize, Sound
  <2>2. /\ exprs[i].node = "combined" /\ PlanOK(exprs[i])
        /\ Follows(exprs[i], meaning[i], 1, << >>)
    BY <1>6, <2>1, PlanRuns DEF Materialize, Sound
  <2>3. Sound'
    BY <1>6, <2>1 DEF Materialize, Sound, built
  <2>4. OnTrace'
    BY <1>6, <2>1, <2>2 DEF Materialize, OnTrace, Idle, plan, built
  <2> QED
    BY <2>3, <2>4 DEF ExprInv
<1>7. ASSUME Running
      PROVE  \E A : /\ Sound /\ OnTrace
                    /\ Trace(plan.steps, AllKeys, << >>, {}, A, plan.max_depth)
                    /\ End(plan.steps, A) = << meaning[run] >>
                    /\ pc \in 1 .. Len(plan.steps) /\ pc + 1 \in 1 .. Len(plan.steps) + 1
                    /\ stack = A[pc] /\ stack \in Seq(Sets) /\ step \in Steps
                    /\ Moves(step, AllKeys, stack, A[pc + 1])
                    /\ step.op = "guard" =>
                         /\ pc + step.skip \in 1 .. Len(plan.steps) + 1
                         /\ TopEmpty(stack) => A[pc + step.skip] = Append(Below(stack, step.pop), {})
  <2>1. Sound /\ OnTrace /\ pc <= Len(plan.steps)
    BY <1>7, RunningIs
  <2>2. PlanOK(plan) /\ Follows(plan, meaning[run], pc, stack)
    BY <2>1 DEF OnTrace
  <2>3. PICK A : StepOn(plan, meaning[run], pc, stack, A)
    BY <2>1, <2>2, AtStep
  <2> QED
    BY <2>1, <2>3 DEF StepOn, step
<1>8. CASE PushLeaf
  <2>1. Running /\ step.op = "leaf" /\ stack' = Append(stack, step.set) /\ pc' = pc + 1
        /\ UNCHANGED << built, run, answer >>
    BY <1>8 DEF PushLeaf
  <2>2. PICK A : /\ Sound /\ OnTrace
                 /\ Trace(plan.steps, AllKeys, << >>, {}, A, plan.max_depth)
                 /\ End(plan.steps, A) = << meaning[run] >>
                 /\ pc + 1 \in 1 .. Len(plan.steps) + 1
                 /\ Moves(step, AllKeys, stack, A[pc + 1])
    BY <1>7, <2>1
  <2>3. stack' = A[pc'] /\ pc' \in 1 .. Len(plan.steps) + 1
    BY <2>1, <2>2 DEF Moves
  <2> QED
    BY <2>1, <2>2, <2>3, GoesOn
<1>9. CASE GuardFires
  <2>1. Running /\ step.op = "guard" /\ top_empty /\ stack' = Append(Drop(step.pop), {})
        /\ pc' = pc + step.skip /\ UNCHANGED << built, run, answer >>
    BY <1>9 DEF GuardFires
  <2>2. PICK A : /\ Sound /\ OnTrace
                 /\ Trace(plan.steps, AllKeys, << >>, {}, A, plan.max_depth)
                 /\ End(plan.steps, A) = << meaning[run] >>
                 /\ pc + step.skip \in 1 .. Len(plan.steps) + 1
                 /\ TopEmpty(stack) => A[pc + step.skip] = Append(Below(stack, step.pop), {})
    BY <1>7, <2>1
  <2>3. stack' = A[pc'] /\ pc' \in 1 .. Len(plan.steps) + 1
    BY <2>1, <2>2, DropIs
  <2> QED
    BY <2>1, <2>2, <2>3, GoesOn
<1>10. CASE GuardPasses
  <2>1. Running /\ step.op = "guard" /\ stack' = stack /\ pc' = pc + 1
        /\ UNCHANGED << built, run, answer >>
    BY <1>10 DEF GuardPasses
  <2>2. PICK A : /\ Sound /\ OnTrace
                 /\ Trace(plan.steps, AllKeys, << >>, {}, A, plan.max_depth)
                 /\ End(plan.steps, A) = << meaning[run] >>
                 /\ pc + 1 \in 1 .. Len(plan.steps) + 1
                 /\ Moves(step, AllKeys, stack, A[pc + 1])
    BY <1>7, <2>1
  <2>3. stack' = A[pc'] /\ pc' \in 1 .. Len(plan.steps) + 1
    BY <2>1, <2>2 DEF Moves
  <2> QED
    BY <2>1, <2>2, <2>3, GoesOn
<1>11. CASE Combine
  <2>1. Running /\ step.op = "combine" /\ pc' = pc + 1
        /\ stack' = Append(Drop(step.arity), {p \in Denotes(step.fold, inputs) : p[1] \in claims})
        /\ UNCHANGED << built, run, answer >>
    BY <1>11 DEF Combine
  <2>2. PICK A : /\ Sound /\ OnTrace
                 /\ Trace(plan.steps, AllKeys, << >>, {}, A, plan.max_depth)
                 /\ End(plan.steps, A) = << meaning[run] >>
                 /\ pc + 1 \in 1 .. Len(plan.steps) + 1
                 /\ stack \in Seq(Sets) /\ step \in Steps
                 /\ Moves(step, AllKeys, stack, A[pc + 1])
    BY <1>7, <2>1
  <2> DEFINE y == Masked(Above(stack, step.arity), Live(step, AllKeys))
  <2>3. step.arity <= Len(stack) /\ A[pc + 1] = Append(Below(stack, step.arity), Folded(step, y))
    BY <2>1, <2>2 DEF Moves
  <2>4. inputs = y /\ claims = Claims(step, y)
    BY <2>1, <2>2, <2>3, InputsAre
  <2> HIDE DEF y
  <2>5. {p \in Denotes(step.fold, inputs) : p[1] \in claims} = Folded(step, y)
    BY <2>4 DEF Folded
  <2>6. stack' = A[pc'] /\ pc' \in 1 .. Len(plan.steps) + 1
    BY <2>1, <2>2, <2>3, <2>5, DropIs
  <2> QED
    BY <2>1, <2>2, <2>6, GoesOn
<1>12. CASE Return
  <2>1. /\ run # 0 /\ plan.node = "combined" /\ ~ (pc <= Len(plan.steps)) /\ answer = << >>
        /\ answer' = << Last(stack) >> /\ stack' = Front(stack)
        /\ exprs' = exprs /\ meaning' = meaning /\ run' = run /\ pc' = pc
    BY <1>12 DEF Return, Running, Executing, built
  <2>2. Sound /\ OnTrace
    <3>1. Sound /\ (Idle \/ LeafAnswered \/ OnTrace \/ Answered)
      BY DEF ExprInv
    <3>2. ~ Idle /\ ~ LeafAnswered /\ ~ Answered
      BY <2>1, OneIs DEF Idle, LeafAnswered, Answered
    <3> QED
      BY <3>1, <3>2
  <2>3. PICK A : /\ Trace(plan.steps, AllKeys, << >>, {}, A, plan.max_depth)
                 /\ pc \in 1 .. Len(plan.steps) + 1 /\ stack = A[pc]
                 /\ End(plan.steps, A) = << meaning[run] >>
    BY <2>2 DEF OnTrace, Follows
  <2>4. pc = Len(plan.steps) + 1
    BY <2>1, <2>3
  <2>5. stack = << meaning[run] >>
    BY <2>3, <2>4 DEF End
  <2>6. Last(stack) = meaning[run] /\ Front(stack) = << >>
    BY <2>5 DEF Last, Front
  <2>7. Sound' /\ plan' = plan
    BY <2>1, <2>2 DEF Sound, plan
  <2>8. Answered'
    BY <2>1, <2>2, <2>4, <2>6, <2>7 DEF Answered, OnTrace
  <2> QED
    BY <2>7, <2>8 DEF ExprInv
<1>13. CASE Consume
  <2>1. /\ answer # << >> /\ answer' = << >> /\ run' = 0 /\ pc' = 1
        /\ exprs' = exprs /\ meaning' = meaning /\ stack' = stack
    BY <1>13 DEF Consume, built
  <2>2. Sound /\ stack = << >>
    BY <2>1 DEF ExprInv, Idle, LeafAnswered, OnTrace, Answered
  <2>3. Sound' /\ Idle'
    BY <2>1, <2>2 DEF Sound, Idle
  <2> QED
    BY <2>3 DEF ExprInv
<1>14. CASE UNCHANGED vars
  <2>1. /\ exprs' = exprs /\ meaning' = meaning /\ run' = run /\ pc' = pc
        /\ stack' = stack /\ answer' = answer
    BY <1>14 DEF vars
  <2>2. plan' = plan
    BY <2>1 DEF plan
  <2> QED
    BY <2>1, <2>2 DEF ExprInv, Sound, Idle, LeafAnswered, OnTrace, Answered
<1> QED
  BY <1>1, <1>2, <1>3, <1>5, <1>6, <1>8, <1>9, <1>10, <1>11, <1>12, <1>13, <1>14 DEF Next

----------------------------------------------------------------------------
\* Theorems.

\* However a tree was built, where no AND of nothing was built, the plan being
\* executed is on its trace.
THEOREM OnItsTrace ==
  ASSUME 0 \notin AndArities
  PROVE  Spec => []ExprInv
<1>1. Init => ExprInv
  BY InvInit
<1>2. ExprInv /\ [Next]_vars => ExprInv'
  BY InvNext
<1> QED
  BY <1>1, <1>2, PTL DEF Spec

\* What a materialized tree holds is the set its expression denotes: flattening
\* an operand, dropping its guards, jumping past a fold whose result is known
\* and narrowing every fold below to the keys that survive change nothing.
THEOREM MaterializesItsMeaning ==
  ASSUME 0 \notin AndArities
  PROVE  Spec => []ResultCorrect
<1>1. ExprInv => ResultCorrect
  <2> SUFFICES ASSUME ExprInv, answer # << >> PROVE answer[1] = meaning[run]
    BY DEF ResultCorrect
  <2>1. answer = << meaning[run] >>
    BY DEF ExprInv, Idle, LeafAnswered, OnTrace, Answered
  <2> QED
    BY <2>1
<1> QED
  BY <1>1, OnItsTrace, PTL

\* Every key a fold claims while it runs has a slot in the plan that was made
\* at construction.
THEOREM ClaimsHaveSlots ==
  ASSUME 0 \notin AndArities
  PROVE  Spec => []ClaimsPlanned
<1>1. ExprInv => ClaimsPlanned
  <2> SUFFICES ASSUME ExprInv, Running, step.op = "combine" PROVE claims \subseteq step.keys
    BY DEF ClaimsPlanned
  <2>1. OnTrace /\ pc <= Len(plan.steps)
    BY RunningIs
  <2>2. PICK A : StepOn(plan, meaning[run], pc, stack, A)
    BY <2>1, AtStep DEF OnTrace
  <2>3. stack \in Seq(Sets) /\ step \in Steps /\ Moves(step, AllKeys, stack, A[pc + 1])
    BY <2>2 DEF StepOn, step
  <2> DEFINE y == Masked(Above(stack, step.arity), Live(step, AllKeys))
  <2>4. step.arity <= Len(stack) /\ Claims(step, y) \subseteq step.keys
    BY <2>3 DEF Moves
  <2>5. inputs = y /\ claims = Claims(step, inputs)
    BY <2>3, <2>4, InputsAre
  <2> HIDE DEF y
  <2> QED
    BY <2>4, <2>5
<1> QED
  BY <1>1, OnItsTrace, PTL

LEMMA InvTyped ==
  ASSUME ExprInv
  PROVE  TypeOK
<1>1. /\ exprs \in Seq(LeafNodes \cup Plans) /\ meaning \in Seq(Sets) /\ Len(exprs) \in Nat
      /\ Len(meaning) = Len(exprs) /\ Len(exprs) <= MaxExprs
      /\ DOMAIN exprs = 1 .. Len(exprs) /\ DOMAIN meaning = 1 .. Len(exprs)
      /\ \A i \in 1 .. Len(exprs) : Good(exprs[i], meaning[i])
  BY LenProperties DEF ExprInv, Sound
<1>2. ASSUME NEW i \in 1 .. Len(exprs), exprs[i].node = "combined",
             NEW k \in DOMAIN exprs[i].steps, IsGuard(exprs[i].steps[k])
      PROVE  exprs[i].steps[k].skip \in Nat \ {0}
  <2>1. PICK e : e = exprs[i]
    OBVIOUS
  <2>2. PlanOK(e) /\ Follows(e, meaning[i], 1, << >>)
    BY <1>1, <1>2, <2>1, PlanRuns
  <2>3. PICK A : Trace(e.steps, AllKeys, << >>, {}, A, e.max_depth)
    BY <2>2 DEF Follows
  <2>4. k \in 1 .. Len(e.steps) /\ e.steps[k].op = "guard"
    BY <1>2, <2>1, <2>3, LenProperties DEF Trace, IsGuard
  <2>5. Jumps(e.steps[k], << >>, {}, A, k, Len(e.steps) + 1) /\ e.steps[k].skip # UNRESOLVED
    BY <2>2, <2>3, <2>4 DEF Trace, PlanOK, Resolved
  <2> QED
    BY <2>1, <2>5 DEF Jumps
<1>3. \A i \in DOMAIN meaning : meaning[i] \subseteq UNION ToSet(Leaves)
  BY <1>1, ElementOfSeq DEF Sets, Universe
<1>4. /\ run \in 0 .. Len(exprs) /\ pc \in Nat \ {0} /\ stack \in Seq(Sets) /\ Len(answer) <= 1
  <2>1. << >> \in Seq(Sets) /\ Len(<< >>) = 0
    BY EmptyIs
  <2>2. CASE Idle
    BY <1>1, <2>1, <2>2 DEF Idle
  <2>3. CASE LeafAnswered
    BY <1>1, <2>1, <2>3 DEF LeafAnswered
  <2>4. CASE OnTrace
    <3>1. PICK A : /\ Trace(plan.steps, AllKeys, << >>, {}, A, plan.max_depth)
                   /\ pc \in 1 .. Len(plan.steps) + 1 /\ stack = A[pc]
      BY <2>4 DEF OnTrace, Follows
    <3>2. run \in 1 .. Len(exprs) /\ answer = << >>
      BY <2>4 DEF OnTrace
    <3>3. A \in [1 .. Len(plan.steps) + 1 -> Seq(Sets)]
      BY <3>1 DEF Trace
    <3>4. stack \in Seq(Sets)
      BY <3>1, <3>3
    <3>5. pc \in Nat \ {0}
      BY <3>1
    <3>6. run \in 0 .. Len(exprs)
      BY <1>1, <3>2
    <3> QED
      BY <2>1, <3>2, <3>4, <3>5, <3>6
  <2>5. CASE Answered
    <3>1. pc = Len(plan.steps) + 1 /\ Len(plan.steps) \in Nat
      BY <2>5, PlanIs DEF Answered
    <3> QED
      BY <1>1, <2>1, <2>5, <3>1 DEF Answered
  <2> QED
    BY <2>2, <2>3, <2>4, <2>5 DEF ExprInv
<1>5. \A i \in DOMAIN stack : stack[i] \subseteq UNION ToSet(Leaves)
  <2>1. DOMAIN stack = 1 .. Len(stack)
    BY <1>4, LenProperties
  <2> QED
    BY <1>4, <2>1, ElementOfSeq DEF Sets, Universe
<1> QED
  BY <1>1, <1>2, <1>3, <1>4, <1>5 DEF TypeOK

\* A tree never needs more of the operand stack than was reserved for it, finds
\* there what every step takes, and leaves exactly its result.
THEOREM OperandsAreThere ==
  ASSUME 0 \notin AndArities
  PROVE  Spec => []OperandsPresent
<1>1. ASSUME ExprInv PROVE OperandsPresent
  <2>1. TypeOK
    BY <1>1, InvTyped
  <2>2. ASSUME Running
        PROVE  /\ Len(stack) <= plan.max_depth
               /\ step.op = "guard" => step.pop <= Len(stack) /\ step.skip > 0
               /\ step.op = "combine" => step.arity <= Len(stack)
    <3>1. OnTrace /\ pc <= Len(plan.steps)
      BY <1>1, <2>2, RunningIs
    <3>2. PICK A : StepOn(plan, meaning[run], pc, stack, A)
      BY <3>1, AtStep DEF OnTrace
    <3>3. stack = A[pc] /\ pc \in 1 .. Len(plan.steps) + 1 /\ Trace(plan.steps, AllKeys, << >>, {}, A, plan.max_depth)
      BY <3>2 DEF StepOn, Trace
    <3>4. Len(stack) <= Len(<< >>) + plan.max_depth /\ plan.max_depth \in Nat
      BY <3>3 DEF Trace
    <3>5. Len(<< >>) = 0
      OBVIOUS
    <3>6. step.op = "guard" => step.pop <= Len(stack) /\ step.skip > 0
      BY <3>2 DEF StepOn, step
    <3>7. step.op = "combine" => step.arity <= Len(stack)
      BY <3>2 DEF StepOn, step, Moves
    <3> QED
      BY <3>4, <3>5, <3>6, <3>7
  <2>3. ASSUME Executing, ~ Running
        PROVE  Len(stack) <= plan.max_depth /\ pc = Len(plan.steps) + 1 /\ Len(stack) = 1 - Len(answer)
    <3>1. run # 0 /\ plan.node = "combined" /\ ~ (pc <= Len(plan.steps))
      BY <2>3 DEF Executing, Running
    <3>2. OnTrace \/ Answered
      BY <1>1, <3>1 DEF ExprInv, Idle, LeafAnswered
    <3>3. CASE OnTrace
      <4>1. PICK A : /\ Trace(plan.steps, AllKeys, << >>, {}, A, plan.max_depth)
                     /\ pc \in 1 .. Len(plan.steps) + 1 /\ stack = A[pc]
                     /\ End(plan.steps, A) = << meaning[run] >>
        BY <3>3 DEF OnTrace, Follows
      <4>2. Len(plan.steps) \in Nat /\ pc = Len(plan.steps) + 1
        BY <3>1, <4>1, LenProperties DEF Trace
      <4>3. stack = << meaning[run] >> /\ answer = << >>
        BY <3>3, <4>1, <4>2 DEF End, OnTrace
      <4>4. Len(stack) <= Len(<< >>) + plan.max_depth /\ plan.max_depth \in Nat
        BY <4>1 DEF Trace
      <4>5. Len(<< >>) = 0 /\ Len(stack) = 1 /\ Len(answer) = 0
        BY <4>3
      <4> QED
        BY <4>2, <4>4, <4>5
    <3>4. CASE Answered
      <4>1. pc = Len(plan.steps) + 1 /\ plan.max_depth \in Nat /\ stack = << >> /\ answer = << meaning[run] >>
        BY <3>4, PlanIs DEF Answered
      <4>2. Len(stack) = 0 /\ Len(answer) = 1
        BY <4>1
      <4> QED
        BY <4>1, <4>2
    <3> QED
      BY <3>2, <3>3, <3>4
  <2> QED
    BY <2>1, <2>2, <2>3 DEF OperandsPresent, Running, Executing
<1> QED
  BY <1>1, OnItsTrace, PTL

=============================================================================
