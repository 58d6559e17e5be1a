----------------------------- MODULE ArrayProofs -----------------------------
(***************************************************************************)
(* Proofs about ArrayKernels, for every number of lanes, every last value  *)
(* and every pair of arrays.                                               *)
(***************************************************************************)
EXTENDS ArrayKernels, FiniteSetTheorems, SequenceTheorems, FunctionTheorems,
        NaturalsInduction, WellFoundedInduction, TLAPS

Value == 0 .. LAST

\* An array: ascending, no value twice.
Array(s) ==
  /\ s \in Seq(Value)
  /\ \A i, j \in 1 .. Len(s) : i < j => s[i] < s[j]

\* Its values up to position i, and after it.
Past(s, i) == {s[k] : k \in {n \in 1 .. Len(s) : n <= i}}
Rest(s, i) == {s[k] : k \in {n \in 1 .. Len(s) : n > i}}

\* Every value of the one set is below every value of the other.
Below(S, T) == \A x \in S, y \in T : x < y

LEMMA Numbers ==
  /\ LAST \in Nat /\ W \in Nat /\ W \in Int /\ W >= 2
  /\ W \div 2 \in Nat /\ W \div 2 >= 1 /\ 2 * (W \div 2) = W
  /\ Value \subseteq Nat /\ Value \subseteq Int
<1>1. LAST \in Nat /\ W \in Nat \ {0} /\ W % 2 = 0
  BY ArrayAssumption
<1>2. W \div 2 \in Nat /\ 2 * (W \div 2) = W /\ W >= 2
  BY <1>1
<1> QED
  BY <1>1, <1>2 DEF Value

\* A set of naturals that holds zero and every successor holds them all.
LEMMA SetInduction ==
  ASSUME NEW S, 0 \in S, \A n \in Nat : n \in S => n + 1 \in S
  PROVE  Nat \subseteq S
<1> DEFINE missing == {n \in Nat : n \notin S}
<1>1. ASSUME missing # {} PROVE FALSE
  <2>1. missing \in SUBSET Nat
    OBVIOUS
  <2> HIDE DEF missing
  <2>2. PICK n \in missing : \A m \in missing : ~ (<< m, n >> \in OpToRel(<, Nat))
    BY <1>1, <2>1, WFMin, NatLessThanWellFounded
  <2>3. n \in Nat /\ n # 0 /\ n \notin S
    BY <2>2 DEF missing
  <2>4. n - 1 \in Nat /\ (n - 1) + 1 = n
    BY <2>3
  <2>5. n - 1 \in missing
    BY <2>3, <2>4 DEF missing
  <2>6. << n - 1, n >> \in OpToRel(<, Nat)
    BY <2>3, <2>4 DEF OpToRel
  <2> QED
    BY <2>2, <2>5, <2>6
<1> QED
  BY <1>1

\* Neighbours in order, all in order.
LEMMA NeighboursSuffice ==
  ASSUME NEW s \in Seq(Value), \A i \in 1 .. Len(s) - 1 : s[i] < s[i + 1]
  PROVE  Array(s)
<1>1. PICK n \in Nat : n = Len(s)
  BY LenProperties
<1> DEFINE S == {d \in Nat : \A i \in 1 .. n : i + d + 1 <= n => s[i] < s[i + d + 1]}
<1>2. \A i \in 1 .. n : s[i] \in Int
  BY <1>1, ElementOfSeq, Numbers
<1>3. 0 \in S
  BY <1>1
<1>4. ASSUME NEW d \in Nat, d \in S PROVE d + 1 \in S
  <2>1. SUFFICES ASSUME NEW i \in 1 .. n, i + (d + 1) + 1 <= n
                 PROVE  s[i] < s[i + (d + 1) + 1]
    OBVIOUS
  <2> DEFINE j == i + d + 1
  <2>2. j \in 1 .. n /\ j + 1 \in 1 .. n /\ j + 1 = i + (d + 1) + 1 /\ j \in 1 .. Len(s) - 1
    BY <2>1, <1>1
  <2>3. s[i] < s[j]
    BY <1>4, <2>2
  <2>4. s[j] < s[j + 1]
    BY <2>2
  <2>5. s[i] \in Int /\ s[j] \in Int /\ s[j + 1] \in Int
    BY <2>2, <1>2
  <2> QED
    BY <2>2, <2>3, <2>4, <2>5
<1> HIDE DEF S
<1>5. Nat \subseteq S
  BY <1>3, <1>4, SetInduction
<1>6. ASSUME NEW i \in 1 .. n, NEW j \in 1 .. n, i < j
      PROVE  s[i] < s[j]
  <2>1. j - i - 1 \in Nat /\ i + (j - i - 1) + 1 = j
    BY <1>6
  <2>2. j - i - 1 \in S
    BY <2>1, <1>5
  <2> QED
    BY <2>1, <2>2 DEF S
<1> QED
  BY <1>1, <1>6 DEF Array

LEMMA ArrayFacts ==
  ASSUME NEW s, Array(s)
  PROVE  /\ s \in Seq(Value) /\ Len(s) \in Nat /\ DOMAIN s = 1 .. Len(s)
         /\ \A i \in 1 .. Len(s) : s[i] \in Value /\ s[i] \in Int
         /\ \A i, j \in 1 .. Len(s) : /\ i < j <=> s[i] < s[j]
                                      /\ s[i] = s[j] => i = j
<1>1. s \in Seq(Value) /\ Len(s) \in Nat /\ DOMAIN s = 1 .. Len(s)
  BY LenProperties DEF Array
<1>2. \A i \in 1 .. Len(s) : s[i] \in Value /\ s[i] \in Int
  BY <1>1, ElementOfSeq, Numbers
<1>3. ASSUME NEW i \in 1 .. Len(s), NEW j \in 1 .. Len(s)
      PROVE  (i < j <=> s[i] < s[j]) /\ (s[i] = s[j] => i = j)
  <2>1. (i < j => s[i] < s[j]) /\ (j < i => s[j] < s[i])
    BY <1>3 DEF Array
  <2>2. i \in Int /\ j \in Int /\ s[i] \in Int /\ s[j] \in Int
    BY <1>1, <1>2
  <2> QED
    BY <2>1, <2>2
<1> QED
  BY <1>1, <1>2, <1>3

LEMMA RangeIs ==
  ASSUME NEW s, Array(s)
  PROVE  /\ \A x : x \in Range(s) <=> \E k \in 1 .. Len(s) : x = s[k]
         /\ Range(s) = Rest(s, 0) /\ Range(s) \subseteq Value
         /\ \A i \in Nat : /\ Past(s, i) \cup Rest(s, i) = Range(s)
                           /\ i >= Len(s) => Past(s, i) = Range(s) /\ Rest(s, i) = {}
                           /\ Below(Past(s, i), Rest(s, i))
         /\ Past(s, 0) = {}
<1>1. PICK n \in Nat : n = Len(s) /\ DOMAIN s = 1 .. n
  BY ArrayFacts
<1>2. \A x : x \in Range(s) <=> \E k \in 1 .. Len(s) : x = s[k]
  BY <1>1 DEF Range
<1>3. \A k \in 1 .. n : s[k] \in Value /\ k > 0 /\ ~ (k <= 0)
  BY <1>1, ArrayFacts
<1>4. Range(s) = Rest(s, 0) /\ Past(s, 0) = {}
  BY <1>1, <1>2, <1>3 DEF Rest, Past
<1>5. Range(s) \subseteq Value
  BY <1>1, <1>2, <1>3
<1>6. ASSUME NEW i \in Nat
      PROVE  /\ Past(s, i) \cup Rest(s, i) = Range(s)
             /\ i >= Len(s) => Past(s, i) = Range(s) /\ Rest(s, i) = {}
             /\ Below(Past(s, i), Rest(s, i))
  <2>1. \A k \in 1 .. n : k <= i \/ k > i
    OBVIOUS
  <2>2. Past(s, i) \cup Rest(s, i) = Range(s)
    BY <1>1, <1>2, <2>1 DEF Rest, Past
  <2>3. ASSUME i >= Len(s) PROVE Past(s, i) = Range(s) /\ Rest(s, i) = {}
    <3>1. \A k \in 1 .. n : k <= i /\ ~ (k > i)
      BY <1>1, <2>3
    <3> QED
      BY <1>1, <1>2, <3>1 DEF Rest, Past
  <2>4. Below(Past(s, i), Rest(s, i))
    BY <1>1, ArrayFacts DEF Rest, Past, Below
  <2> QED
    BY <2>2, <2>3, <2>4
<1> QED
  BY <1>2, <1>4, <1>5, <1>6

\* Positions moved on: what was passed meanwhile.
Passed(s, i, w) ==
  \A x : /\ x \in Past(s, i + w) <=> x \in Past(s, i) \/ \E l \in 1 .. w : x = s[i + l]
         /\ x \in Rest(s, i) <=> x \in Rest(s, i + w) \/ \E l \in 1 .. w : x = s[i + l]

LEMMA Moved ==
  ASSUME NEW s, Array(s), NEW i \in Nat, NEW w \in Nat, i + w <= Len(s)
  PROVE  Passed(s, i, w)
<1>1. PICK n \in Nat : n = Len(s)
  BY ArrayFacts
<1>2. \A l \in 1 .. w : i + l \in 1 .. n /\ i + l <= i + w /\ i + l > i
  BY <1>1
<1>3. \A k \in 1 .. n : k <= i => k <= i + w
  OBVIOUS
<1>4. \A k \in 1 .. n : k <= i + w /\ k > i => k - i \in 1 .. w /\ i + (k - i) = k
  OBVIOUS
<1>5. \A k \in 1 .. n : (k <= i \/ k > i) /\ (k <= i + w \/ k > i + w) /\ (k > i + w => k > i)
  OBVIOUS
<1>6. ASSUME NEW x PROVE x \in Past(s, i + w) <=> x \in Past(s, i) \/ \E l \in 1 .. w : x = s[i + l]
  BY <1>1, <1>2, <1>3, <1>4, <1>5 DEF Past
<1>7. ASSUME NEW x PROVE x \in Rest(s, i) <=> x \in Rest(s, i + w) \/ \E l \in 1 .. w : x = s[i + l]
  BY <1>1, <1>2, <1>3, <1>4, <1>5 DEF Rest
<1> QED
  BY <1>6, <1>7 DEF Passed

\* An array holds no more values than a set its values are from.
LEMMA Pigeonhole ==
  ASSUME NEW s, Array(s), NEW T, IsFiniteSet(T), Range(s) \subseteq T
  PROVE  Len(s) <= Cardinality(T)
<1>1. PICK n \in Nat : n = Len(s) /\ DOMAIN s = 1 .. n
  BY ArrayFacts
<1>2. \A i \in 1 .. n : s[i] \in T
  BY <1>1, RangeIs
<1>3. \A i, j \in 1 .. n : s[i] = s[j] => i = j
  BY <1>1, ArrayFacts
<1>4. s = [i \in 1 .. n |-> s[i]]
  <2>1. s \in [1 .. Len(s) -> Value]
    BY LenProperties, ArrayFacts
  <2> QED
    BY <1>1, <2>1
<1>5. s \in Injection(1 .. n, T)
  BY <1>2, <1>3, <1>4 DEF Injection, IsInjective
<1>6. Cardinality(1 .. n) <= Cardinality(T)
  BY <1>5, FS_Injection
<1>7. Cardinality(1 .. n) = n
  BY FS_Interval
<1> QED
  BY <1>1, <1>6, <1>7

LEMMA RangeCard ==
  ASSUME NEW s, Array(s)
  PROVE  IsFiniteSet(Range(s)) /\ Cardinality(Range(s)) = Len(s)
<1>1. PICK n \in Nat : n = Len(s) /\ DOMAIN s = 1 .. n
  BY ArrayFacts
<1>2. s \in [1 .. n -> Range(s)]
  <2>1. s \in [1 .. Len(s) -> Value]
    BY LenProperties, ArrayFacts
  <2>2. s = [i \in 1 .. n |-> s[i]]
    BY <1>1, <2>1
  <2> QED
    BY <1>1, <2>2, RangeIs
<1>3. \A i, j \in 1 .. n : s[i] = s[j] => i = j
  BY <1>1, ArrayFacts
<1>4. \A x \in Range(s) : \E i \in 1 .. n : s[i] = x
  BY <1>1, RangeIs
<1>5. s \in Surjection(1 .. n, Range(s)) /\ s \in Injection(1 .. n, Range(s))
  BY <1>2, <1>3, <1>4 DEF Surjection, Injection, IsInjective
<1>6. IsFiniteSet(1 .. n) /\ Cardinality(1 .. n) = n
  BY FS_Interval
<1> QED
  BY <1>1, <1>5, <1>6, FS_Surjection

----------------------------------------------------------------------------
\* What a store adds.
LEMMA Joined ==
  ASSUME NEW s, Array(s), NEW t, Array(t), Below(Range(s), Range(t))
  PROVE  Array(s \o t) /\ Range(s \o t) = Range(s) \cup Range(t) /\ Len(s \o t) = Len(s) + Len(t)
<1>1. PICK m \in Nat : m = Len(s)
  BY ArrayFacts
<1>2. PICK n \in Nat : n = Len(t)
  BY ArrayFacts
<1> DEFINE u == s \o t
<1>3. /\ u \in Seq(Value) /\ Len(u) = m + n
      /\ \A i \in 1 .. m + n : u[i] = IF i <= m THEN s[i] ELSE t[i - m]
  BY <1>1, <1>2, ArrayFacts, ConcatProperties
<1>4. DOMAIN u = 1 .. m + n
  BY <1>3, LenProperties
<1> HIDE DEF u
<1>5. \A i \in 1 .. m + n : (i <= m => i \in 1 .. m) /\ (~ (i <= m) => i - m \in 1 .. n)
  OBVIOUS
<1>6. (\A i \in 1 .. m : s[i] \in Range(s) /\ s[i] \in Int) /\ (\A i \in 1 .. n : t[i] \in Range(t) /\ t[i] \in Int)
  BY <1>1, <1>2, ArrayFacts, RangeIs
<1>7. ASSUME NEW i \in 1 .. m + n, NEW j \in 1 .. m + n, i < j
      PROVE  u[i] < u[j]
  <2>1. CASE j <= m
    <3>1. i <= m /\ i \in 1 .. m /\ j \in 1 .. m
      BY <1>7, <2>1
    <3> QED
      BY <1>1, <1>3, <1>7, <2>1, <3>1, ArrayFacts
  <2>2. CASE i <= m /\ ~ (j <= m)
    <3>1. s[i] < t[j - m]
      BY <1>5, <1>6, <2>2 DEF Below
    <3> QED
      BY <1>3, <2>2, <3>1
  <2>3. CASE ~ (i <= m)
    <3>1. ~ (j <= m) /\ i - m \in 1 .. n /\ j - m \in 1 .. n /\ i - m < j - m
      BY <1>7, <2>3
    <3>2. t[i - m] < t[j - m]
      BY <1>2, <3>1, ArrayFacts
    <3> QED
      BY <1>3, <2>3, <3>1, <3>2
  <2> QED
    BY <2>1, <2>2, <2>3
<1>8. Array(u)
  BY <1>3, <1>7 DEF Array
<1>9. ASSUME NEW x PROVE x \in Range(u) <=> x \in Range(s) \cup Range(t)
  <2>1. \A i \in 1 .. m + n : u[i] \in Range(s) \cup Range(t)
    BY <1>3, <1>5, <1>6
  <2>2. \A i \in 1 .. m : i \in 1 .. m + n /\ u[i] = s[i]
    BY <1>3
  <2>3. \A i \in 1 .. n : i + m \in 1 .. m + n /\ ~ (i + m <= m) /\ (i + m) - m = i
    OBVIOUS
  <2>4. \A i \in 1 .. n : i + m \in 1 .. m + n /\ u[i + m] = t[i]
    BY <1>3, <2>3
  <2>5. x \in Range(u) <=> \E i \in 1 .. m + n : x = u[i]
    BY <1>3, <1>8, RangeIs
  <2>6. x \in Range(s) <=> \E i \in 1 .. m : x = s[i]
    BY <1>1, RangeIs
  <2>7. x \in Range(t) <=> \E i \in 1 .. n : x = t[i]
    BY <1>2, RangeIs
  <2> QED
    BY <2>1, <2>2, <2>4, <2>5, <2>6, <2>7
<1> QED
  BY <1>1, <1>2, <1>3, <1>8, <1>9 DEF u

LEMMA EmptyArray == Array(<< >>) /\ Range(<< >>) = {} /\ Len(<< >>) = 0
<1>1. << >> \in Seq(Value) /\ Len(<< >>) = 0 /\ 1 .. 0 = {}
  BY EmptySeq
<1>2. Array(<< >>)
  BY <1>1 DEF Array
<1> QED
  BY <1>1, <1>2, RangeIs

LEMMA OneValue ==
  ASSUME NEW v \in Value
  PROVE  Array(<< v >>) /\ Range(<< v >>) = {v} /\ Len(<< v >>) = 1
<1>1. << v >> \in Seq(Value) /\ Len(<< v >>) = 1 /\ << v >>[1] = v /\ 1 .. 1 = {1}
  OBVIOUS
<1>2. Array(<< v >>)
  BY <1>1 DEF Array
<1> QED
  BY <1>1, <1>2, RangeIs

\* The rest of an array is one.
LEMMA RestArray ==
  ASSUME NEW s, Array(s), NEW i \in Nat, NEW n, n = Len(s)
  PROVE  Array(SubSeq(s, i + 1, n)) /\ Range(SubSeq(s, i + 1, n)) = Rest(s, i)
<1>1. n \in Nat /\ i + 1 \in Int /\ n \in Int
  BY ArrayFacts
<1> DEFINE t == SubSeq(s, i + 1, n)
<1>2. \A k \in i + 1 .. n : k \in 1 .. n /\ s[k] \in Value
  BY <1>1, ArrayFacts
<1>3. /\ t \in Seq(Value) /\ Len(t) = IF i + 1 <= n THEN n - (i + 1) + 1 ELSE 0
      /\ \A k \in 1 .. n - (i + 1) + 1 : t[k] = s[i + 1 + k - 1]
  BY <1>1, <1>2, SubSeqProperties
<1> HIDE DEF t
<1>4. PICK m \in Nat : m = Len(t)
  BY <1>3, LenProperties
<1>5. \A k \in 1 .. m : t[k] = s[k + i] /\ k + i \in 1 .. n /\ k + i > i
  <2>1. \A k \in 1 .. m : k \in 1 .. n - (i + 1) + 1 /\ i + 1 + k - 1 = k + i /\ k + i \in 1 .. n /\ k + i > i
    BY <1>1, <1>3, <1>4
  <2> QED
    BY <1>3, <2>1
<1>6. \A k \in 1 .. n : k > i => k - i \in 1 .. m /\ (k - i) + i = k
  BY <1>1, <1>3, <1>4
<1>7. ASSUME NEW j \in 1 .. m, NEW k \in 1 .. m, j < k PROVE t[j] < t[k]
  <2>1. j + i < k + i
    BY <1>7
  <2> QED
    BY <1>5, <2>1, ArrayFacts
<1>8. Array(t)
  BY <1>3, <1>4, <1>7 DEF Array
<1>9. ASSUME NEW x PROVE x \in Range(t) <=> x \in Rest(s, i)
  <2>1. x \in Range(t) <=> \E k \in 1 .. m : x = t[k]
    BY <1>4, <1>8, RangeIs
  <2>2. x \in Rest(s, i) <=> \E k \in 1 .. n : k > i /\ x = s[k]
    BY <1>1 DEF Rest
  <2> QED
    BY <1>5, <1>6, <2>1, <2>2
<1> QED
  BY <1>8, <1>9 DEF t

----------------------------------------------------------------------------
\* The compaction table.
Chosen(lanes, f) ==
  f = [l \in 0 .. W |-> IF l = 0 THEN << >>
                        ELSE IF l \in lanes THEN Append(f[l - 1], l) ELSE f[l - 1]]

LEMMA ChosenExists ==
  ASSUME NEW lanes \in SUBSET Lanes
  PROVE  \E f : Chosen(lanes, f)
<1> DEFINE Good(n, f) == f = [l \in 0 .. n |-> IF l = 0 THEN << >>
                               ELSE IF l \in lanes THEN Append(f[l - 1], l) ELSE f[l - 1]]
           S == {n \in Nat : \E f : Good(n, f)}
<1>1. 0 \in S
  <2>1. Good(0, [l \in 0 .. 0 |-> << >>])
    OBVIOUS
  <2> QED
    BY <2>1
<1>2. ASSUME NEW n \in Nat, n \in S PROVE n + 1 \in S
  <2>1. PICK f : Good(n, f)
    BY <1>2
  <2> DEFINE g == [l \in 0 .. n + 1 |-> IF l \in 0 .. n THEN f[l]
                     ELSE IF l \in lanes THEN Append(f[n], l) ELSE f[n]]
  <2>2. \A l \in 0 .. n : f[l] = IF l = 0 THEN << >>
                                 ELSE IF l \in lanes THEN Append(f[l - 1], l) ELSE f[l - 1]
    BY <2>1
  <2>3. \A l \in 0 .. n + 1 : l # 0 => l - 1 \in 0 .. n /\ l - 1 \in 0 .. n + 1
    OBVIOUS
  <2>4. \A l \in 0 .. n : g[l] = f[l]
    OBVIOUS
  <2>5. \A l \in 0 .. n + 1 : ~ (l \in 0 .. n) => l = n + 1 /\ l # 0 /\ l - 1 = n
    OBVIOUS
  <2>6. \A l \in 0 .. n + 1 : g[l] = IF l = 0 THEN << >>
                                     ELSE IF l \in lanes THEN Append(g[l - 1], l) ELSE g[l - 1]
    <3>1. TAKE l \in 0 .. n + 1
    <3>2. CASE l \in 0 .. n
      BY <2>2, <2>3, <2>4, <3>2
    <3>3. CASE ~ (l \in 0 .. n)
      <4>1. l = n + 1 /\ l # 0 /\ l - 1 = n /\ g[l - 1] = f[n]
        BY <2>4, <2>5, <3>3
      <4> QED
        BY <3>3, <4>1
    <3> QED
      BY <3>2, <3>3
  <2> HIDE DEF g
  <2>7. g = [l \in 0 .. n + 1 |-> g[l]]
    BY DEF g
  <2>8. Good(n + 1, g)
    BY <2>6, <2>7
  <2> QED
    BY SMTT(60), <2>8
<1> HIDE DEF S
<1>3. W \in S
  BY <1>1, <1>2, SetInduction, Numbers
<1> QED
  BY <1>3 DEF S, Chosen

\* COMPACT[lanes]: the lanes in ascending order.
InOrder(lanes, c) ==
  /\ Len(c) \in 0 .. W /\ c \in Seq(Lanes)
  /\ \A i, j \in 1 .. Len(c) : i < j => c[i] < c[j]
  /\ \A l : l \in lanes <=> \E i \in 1 .. Len(c) : c[i] = l

LEMMA CompactTable ==
  ASSUME NEW lanes \in SUBSET Lanes
  PROVE  InOrder(lanes, COMPACT[lanes])
<1> DEFINE chosen == CHOOSE f : Chosen(lanes, f)
<1>1. Chosen(lanes, chosen)
  BY ChosenExists
<1>2. COMPACT[lanes] = chosen[W]
  BY DEF COMPACT, Chosen
<1> HIDE DEF chosen
<1>3. /\ chosen[0] = << >>
      /\ \A l \in 1 .. W : chosen[l] = IF l \in lanes THEN Append(chosen[l - 1], l) ELSE chosen[l - 1]
  <2>1. 0 \in 0 .. W /\ \A l \in 1 .. W : l \in 0 .. W /\ l # 0
    BY Numbers
  <2>2. \A l \in 0 .. W : chosen[l] = IF l = 0 THEN << >>
                                       ELSE IF l \in lanes THEN Append(chosen[l - 1], l) ELSE chosen[l - 1]
    BY <1>1, Zenon DEF Chosen
  <2> QED
    BY <2>1, <2>2
<1> DEFINE Good(n) == /\ chosen[n] \in Seq(Lanes) /\ Len(chosen[n]) \in 0 .. n
                      /\ \A i, j \in 1 .. Len(chosen[n]) : i < j => chosen[n][i] < chosen[n][j]
                      /\ \A i \in 1 .. Len(chosen[n]) : chosen[n][i] \in 1 .. n
                      /\ \A l \in 1 .. n : l \in lanes <=> \E i \in 1 .. Len(chosen[n]) : chosen[n][i] = l
           S == {n \in Nat : n <= W => Good(n)}
<1>4. 0 \in S
  <2>1. << >> \in Seq(Lanes) /\ Len(<< >>) = 0 /\ 0 \in 0 .. 0 /\ 1 .. 0 = {}
    BY EmptySeq
  <2>2. chosen[0] \in Seq(Lanes) /\ Len(chosen[0]) \in 0 .. 0 /\ 1 .. Len(chosen[0]) = {}
    BY <1>3, <2>1
  <2>3. Good(0)
    BY <2>1, <2>2, Zenon
  <2> QED
    BY <2>3
<1>5. ASSUME NEW n \in Nat, n \in S PROVE n + 1 \in S
  <2>1. SUFFICES ASSUME n + 1 <= W PROVE Good(n + 1)
    OBVIOUS
  <2>2. n + 1 \in 1 .. W /\ n <= W /\ (n + 1) - 1 = n /\ n + 1 \in Lanes
    BY <2>1, Numbers DEF Lanes
  <2>3. Good(n)
    BY <1>5, <2>2
  <2> DEFINE c == chosen[n]
             d == chosen[n + 1]
  <2>4. d = IF n + 1 \in lanes THEN Append(c, n + 1) ELSE c
    BY <1>3, <2>2
  <2>5. PICK m \in 0 .. n : m = Len(c)
    BY <2>3
  <2>6. /\ c \in Seq(Lanes) /\ \A i, j \in 1 .. m : i < j => c[i] < c[j]
        /\ \A i \in 1 .. m : c[i] \in 1 .. n
        /\ \A l \in 1 .. n : l \in lanes <=> \E i \in 1 .. m : c[i] = l
    BY <2>3, <2>5
  <2> HIDE DEF c, d, Good
  <2>7. CASE n + 1 \notin lanes
    <3>1. d = c /\ m \in 0 .. n + 1
      BY <2>4, <2>7
    <3>2. \A i \in 1 .. m : c[i] \in 1 .. n + 1 /\ c[i] # n + 1
      BY <2>6
    <3>3. \A l \in 1 .. n + 1 : l \in 1 .. n \/ l = n + 1
      OBVIOUS
    <3>4. \A l \in 1 .. n + 1 : l \in lanes <=> \E i \in 1 .. m : c[i] = l
      BY <2>6, <2>7, <3>2, <3>3
    <3> QED
      BY <2>5, <2>6, <3>1, <3>2, <3>4 DEF Good, d
  <2>8. CASE n + 1 \in lanes
    <3>1. d = Append(c, n + 1)
      BY <2>4, <2>8
    <3>2. /\ d \in Seq(Lanes) /\ Len(d) = m + 1 /\ d[m + 1] = n + 1
          /\ \A i \in 1 .. m : d[i] = c[i]
      BY <2>2, <2>5, <2>6, <3>1, AppendProperties
    <3>3. \A i \in 1 .. m + 1 : i \in 1 .. m \/ i = m + 1
      OBVIOUS
    <3>4. \A i \in 1 .. m + 1 : d[i] \in 1 .. n + 1
      BY <2>6, <3>2, <3>3
    <3>5. ASSUME NEW i \in 1 .. m + 1, NEW j \in 1 .. m + 1, i < j PROVE d[i] < d[j]
      <4>1. i \in 1 .. m
        BY <3>5
      <4>2. CASE j \in 1 .. m
        BY <2>6, <3>2, <3>5, <4>1, <4>2
      <4>3. CASE j = m + 1
        <5>1. c[i] \in 1 .. n
          BY <2>6, <4>1
        <5> QED
          BY <3>2, <4>1, <4>3, <5>1
      <4> QED
        BY <3>3, <4>2, <4>3
    <3>6. ASSUME NEW l \in 1 .. n + 1 PROVE l \in lanes <=> \E i \in 1 .. m + 1 : d[i] = l
      <4>1. CASE l = n + 1
        <5>1. m + 1 \in 1 .. m + 1
          OBVIOUS
        <5> QED
          BY <2>8, <3>2, <4>1, <5>1
      <4>2. CASE l # n + 1
        <5>1. l \in 1 .. n /\ \A i \in 1 .. m : i \in 1 .. m + 1
          BY <4>2
        <5>2. l \in lanes <=> \E i \in 1 .. m : c[i] = l
          BY <2>6, <5>1
        <5>3. (\E i \in 1 .. m + 1 : d[i] = l) <=> \E i \in 1 .. m : c[i] = l
          BY <3>2, <3>3, <4>2, <5>1
        <5> QED
          BY <5>2, <5>3
      <4> QED
        BY <4>1, <4>2
    <3>7. Len(d) \in 0 .. n + 1
      BY <3>2
    <3> QED
      BY <3>2, <3>4, <3>5, <3>6, <3>7 DEF Good, d
  <2> QED
    BY <2>7, <2>8
<1> HIDE DEF S
<1>6. W \in S
  BY <1>4, <1>5, SetInduction, Numbers
<1>7. Good(W)
  BY <1>6, Numbers DEF S
<1>8. \A l : l \in lanes => l \in 1 .. W
  BY DEF Lanes
<1>9. ASSUME NEW l PROVE l \in lanes <=> \E i \in 1 .. Len(chosen[W]) : chosen[W][i] = l
  BY <1>7, <1>8
<1> QED
  BY <1>2, <1>7, <1>9 DEF InOrder

\* Lanes in ascending order are compacted into an array of the chosen ones.
LEMMA Compacted ==
  ASSUME NEW v \in [Lanes -> Value], NEW lanes \in SUBSET Lanes,
         \A k, l \in lanes : k < l => v[k] < v[l]
  PROVE  /\ Array(compact(v, lanes)) /\ Range(compact(v, lanes)) = {v[l] : l \in lanes}
         /\ Len(compact(v, lanes)) <= W
<1>1. PICK c : c = COMPACT[lanes] /\ InOrder(lanes, c)
  BY CompactTable
<1>2. PICK n \in 0 .. W : n = Len(c)
  BY <1>1 DEF InOrder
<1>3. \A i \in 1 .. n : c[i] \in lanes
  BY <1>1, <1>2 DEF InOrder
<1> DEFINE s == [i \in 1 .. n |-> v[c[i]]]
<1>4. compact(v, lanes) = s
  BY <1>1, <1>2 DEF compact
<1>5. n \in Nat /\ n <= W
  BY Numbers
<1>6. \A i \in 1 .. n : s[i] = v[c[i]] /\ v[c[i]] \in Value
  BY <1>3
<1>7. s \in Seq(Value) /\ Len(s) = n
  BY <1>5, <1>6
<1> HIDE DEF s
<1>8. ASSUME NEW i \in 1 .. n, NEW j \in 1 .. n, i < j PROVE s[i] < s[j]
  <2>1. c[i] < c[j]
    BY <1>1, <1>2, <1>8 DEF InOrder
  <2> QED
    BY <1>3, <1>6, <2>1
<1>9. Array(s)
  BY <1>7, <1>8 DEF Array
<1>10. ASSUME NEW x PROVE x \in Range(s) <=> x \in {v[l] : l \in lanes}
  <2>1. x \in Range(s) <=> \E i \in 1 .. n : x = v[c[i]]
    BY <1>6, <1>7, <1>9, RangeIs
  <2>2. \A l \in lanes : \E i \in 1 .. n : c[i] = l
    BY <1>1, <1>2 DEF InOrder
  <2> QED
    BY <1>3, <2>1, <2>2
<1> QED
  BY <1>4, <1>5, <1>7, <1>9, <1>10

----------------------------------------------------------------------------
\* Vectors.
LEMMA TwoValues ==
  ASSUME NEW x \in Int, NEW y \in Int
  PROVE  /\ Min({x, y}) = (IF x <= y THEN x ELSE y)
         /\ Max({x, y}) = (IF x <= y THEN y ELSE x)
<1>1. Min({x, y}) = (IF x <= y THEN x ELSE y)
  <2>1. \E z \in {x, y} : \A t \in {x, y} : z <= t
    BY Z3
  <2>2. Min({x, y}) \in {x, y} /\ \A t \in {x, y} : Min({x, y}) <= t
    BY <2>1 DEF Min
  <2> QED
    BY <2>2
<1>2. Max({x, y}) = (IF x <= y THEN y ELSE x)
  <2>1. \E z \in {x, y} : \A t \in {x, y} : z >= t
    BY Z3
  <2>2. Max({x, y}) \in {x, y} /\ \A t \in {x, y} : Max({x, y}) >= t
    BY <2>1 DEF Max
  <2> QED
    BY <2>2
<1> QED
  BY <1>1, <1>2

\* The lane n further on, around the vector.
onward(l, n) == IF l + n <= W THEN l + n ELSE l + n - W

LEMMA Around ==
  ASSUME NEW l \in Lanes, NEW n \in 0 .. W
  PROVE  ((l + n - 1) % W) + 1 = onward(l, n) /\ onward(l, n) \in Lanes
<1>1. l \in 1 .. W /\ n \in 0 .. W /\ W \in Nat /\ W >= 2
  BY Numbers DEF Lanes
<1> DEFINE x == l + n - 1
<1>2. x \in Nat /\ x < 2 * W
  BY <1>1
<1>3. x < W => x % W = x
  BY <1>1, <1>2
<1>4. x >= W => x % W = x - W
  <2>1. SUFFICES ASSUME x >= W PROVE x % W = x - W
    OBVIOUS
  <2>2. x - W \in Nat /\ x - W < W
    BY <1>1, <1>2, <2>1
  <2> HIDE DEF x
  <2>3. PICK y \in Nat : y = x - W /\ y < W
    BY <2>2
  <2>4. (y + W) % W = y
    BY <1>1, <2>3
  <2>5. x = y + W
    BY <1>1, <1>2, <2>3
  <2> QED
    BY <2>3, <2>4, <2>5
<1> QED
  BY <1>1, <1>2, <1>3, <1>4 DEF onward, Lanes

LEMMA Rotated ==
  ASSUME NEW V, NEW v \in [Lanes -> V], NEW n \in 0 .. W
  PROVE  /\ rot(v, n) \in [Lanes -> V]
         /\ \A l \in Lanes : rot(v, n)[l] = v[onward(l, n)]
<1>1. \A l \in Lanes : rot(v, n)[l] = v[onward(l, n)]
  BY Around DEF rot
<1>2. \A l \in Lanes : rot(v, n)[l] \in V
  BY <1>1, Around
<1>3. rot(v, n) = [l \in Lanes |-> rot(v, n)[l]]
  BY DEF rot
<1> HIDE DEF rot
<1> QED
  BY <1>1, <1>2, <1>3

LEMMA RotatedValues ==
  ASSUME NEW v \in [Lanes -> Value], NEW n \in 0 .. W
  PROVE  /\ rot(v, n) \in [Lanes -> Value]
         /\ \A l \in Lanes : rot(v, n)[l] = v[onward(l, n)]
  BY Rotated

\* Both groups of rotations together compare every lane with every lane.
THEOREM AllPairs ==
  ASSUME NEW u \in [Lanes -> Value], NEW v \in [Lanes -> Value]
  PROVE  all_pairs(u, v) = {l \in Lanes : \E m \in Lanes : u[l] = v[m]}
<1> DEFINE H == W \div 2
           any(x) == [l \in Lanes |-> \E r \in 0 .. H - 1 : eq(x, rot(v, r))[l]]
           first == any(u)
           second == rot(any(rot(u, H)), H)
<1>1. /\ H \in Nat /\ H >= 1 /\ 2 * H = W /\ H \in 0 .. W
      /\ \A r \in 0 .. H - 1 : r \in 0 .. W /\ H + r \in 0 .. W
  BY Numbers
<1> HIDE DEF H
<1>r. /\ \A x \in [Lanes -> Value], n \in 0 .. W :
           rot(x, n) \in [Lanes -> Value] /\ \A l \in Lanes : rot(x, n)[l] = x[onward(l, n)]
      /\ \A x \in [Lanes -> BOOLEAN], n \in 0 .. W :
           \A l \in Lanes : rot(x, n)[l] = x[onward(l, n)]
  <2>1. ASSUME NEW x \in [Lanes -> Value], NEW n \in 0 .. W
        PROVE  rot(x, n) \in [Lanes -> Value] /\ \A l \in Lanes : rot(x, n)[l] = x[onward(l, n)]
    BY Rotated
  <2>2. ASSUME NEW x \in [Lanes -> BOOLEAN], NEW n \in 0 .. W
        PROVE  \A l \in Lanes : rot(x, n)[l] = x[onward(l, n)]
    BY ZenonT(60), Rotated
  <2> QED
    BY <2>1, <2>2
<1>2. ASSUME NEW x \in [Lanes -> Value], NEW l \in Lanes
      PROVE  any(x)[l] <=> \E r \in 0 .. H - 1 : x[l] = v[onward(l, r)]
  <2>1. \A r \in 0 .. H - 1 : eq(x, rot(v, r))[l] <=> x[l] = rot(v, r)[l]
    BY DEF eq
  <2>2. \A r \in 0 .. H - 1 : rot(v, r)[l] = v[onward(l, r)]
    BY <1>1, <1>r
  <2>3. any(x)[l] <=> \E r \in 0 .. H - 1 : eq(x, rot(v, r))[l]
    OBVIOUS
  <2> HIDE DEF any
  <2> QED
    BY <2>1, <2>2, <2>3
<1>3. \A x : any(x) \in [Lanes -> BOOLEAN]
  BY DEF eq
<1>4. rot(u, H) \in [Lanes -> Value] /\ \A l \in Lanes : rot(u, H)[l] = u[onward(l, H)]
  BY <1>1, <1>r
<1> HIDE DEF any
<1>5. \A l \in Lanes : second[l] = any(rot(u, H))[onward(l, H)]
  BY <1>1, <1>3, <1>r
<1>6. \A l \in Lanes : onward(l, H) \in Lanes /\ onward(onward(l, H), H) = l
  BY <1>1, Around, Numbers DEF onward, Lanes
<1>7. \A l \in Lanes : \A r \in 0 .. H - 1 : onward(onward(l, H), r) = onward(l, H + r)
  BY <1>1, Numbers DEF onward, Lanes
<1>8. ASSUME NEW l \in Lanes
      PROVE  second[l] <=> \E r \in 0 .. H - 1 : u[l] = v[onward(l, H + r)]
  <2>1. second[l] <=> \E r \in 0 .. H - 1 : rot(u, H)[onward(l, H)] = v[onward(onward(l, H), r)]
    BY <1>2, <1>4, <1>5, <1>6
  <2>2. rot(u, H)[onward(l, H)] = u[l]
    BY <1>4, <1>6
  <2> QED
    BY <1>7, <2>1, <2>2
<1>9. ASSUME NEW l \in Lanes
      PROVE  first[l] <=> \E r \in 0 .. H - 1 : u[l] = v[onward(l, r)]
  BY <1>2
<1>10. ASSUME NEW l \in Lanes, NEW m \in Lanes
       PROVE  \E r \in 0 .. H - 1 : m = onward(l, r) \/ m = onward(l, H + r)
  <2>1. PICK d \in 0 .. W - 1 : m = onward(l, d)
    <3>1. CASE m >= l
      <4>1. m - l \in 0 .. W - 1 /\ m = onward(l, m - l)
        BY <3>1, Numbers DEF onward, Lanes
      <4> QED
        BY <4>1
    <3>2. CASE m < l
      <4>1. m - l + W \in 0 .. W - 1 /\ m = onward(l, m - l + W)
        BY <3>2, Numbers DEF onward, Lanes
      <4> QED
        BY <4>1
    <3> QED
      BY <3>1, <3>2 DEF Lanes
  <2>2. CASE d < H
    <3>1. d \in 0 .. H - 1
      BY <2>2, <1>1
    <3> QED
      BY <2>1, <3>1
  <2>3. CASE d >= H
    <3>1. d - H \in 0 .. H - 1 /\ H + (d - H) = d
      BY <2>3, <1>1
    <3> QED
      BY <2>1, <3>1
  <2> QED
    BY <1>1, <2>2, <2>3
<1>11. \A l \in Lanes : \A r \in 0 .. H - 1 : onward(l, r) \in Lanes /\ onward(l, H + r) \in Lanes
  BY <1>1, Around
<1>12. all_pairs(u, v) = {l \in Lanes : first[l] \/ second[l]}
  BY DEF all_pairs, or, any, H
<1> HIDE DEF first, second
<1>13. ASSUME NEW l \in Lanes
       PROVE  first[l] \/ second[l] <=> \E m \in Lanes : u[l] = v[m]
  <2>1. ASSUME first[l] \/ second[l] PROVE \E m \in Lanes : u[l] = v[m]
    BY <1>8, <1>9, <1>11, <2>1
  <2>2. ASSUME NEW m \in Lanes, u[l] = v[m] PROVE first[l] \/ second[l]
    <3>1. PICK r \in 0 .. H - 1 : m = onward(l, r) \/ m = onward(l, H + r)
      BY <1>10
    <3> QED
      BY <1>8, <1>9, <2>2, <3>1
  <2> QED
    BY <2>1, <2>2
<1> QED
  BY <1>12, <1>13

----------------------------------------------------------------------------
\* The merge network.  In the frame of the inputs its n-th turn compares lane
\* l of the one half with lane l + n of the other, so that after W - 1 of them
\* every lane of the low half has met every lane of the high half that it may
\* have to change places with.
Ordered(v) == v \in [Lanes -> Value] /\ \A k, l \in Lanes : k <= l => v[k] <= v[l]

Halves(low, high, n) ==
  /\ Ordered(low) /\ Ordered(high)
  /\ \A m, l \in Lanes : m <= l + n => low[m] <= high[l]

LaneSet(v) == {v[l] : l \in Lanes}

\* Both halves after turn n.
lower(low, high, n)  == [m \in Lanes |-> IF m > n /\ high[m - n] < low[m] THEN high[m - n] ELSE low[m]]
higher(low, high, n) == [l \in Lanes |-> IF l + n <= W /\ high[l] < low[l + n] THEN low[l + n] ELSE high[l]]

LEMMA VectorMinMax ==
  ASSUME NEW u \in [Lanes -> Value], NEW v \in [Lanes -> Value]
  PROVE  /\ vmin(u, v) = [l \in Lanes |-> IF u[l] <= v[l] THEN u[l] ELSE v[l]]
         /\ vmax(u, v) = [l \in Lanes |-> IF u[l] <= v[l] THEN v[l] ELSE u[l]]
<1>1. \A l \in Lanes : u[l] \in Int /\ v[l] \in Int
  BY Numbers
<1>2. \A l \in Lanes : /\ Min({u[l], v[l]}) = (IF u[l] <= v[l] THEN u[l] ELSE v[l])
                       /\ Max({u[l], v[l]}) = (IF u[l] <= v[l] THEN v[l] ELSE u[l])
  BY <1>1, TwoValues
<1> QED
  BY <1>2 DEF vmin, vmax

LEMMA TurnOrders ==
  ASSUME NEW n \in 1 .. W - 1, NEW low, NEW high, Halves(low, high, n - 1)
  PROVE  /\ Halves(lower(low, high, n), higher(low, high, n), n)
         /\ LaneSet(lower(low, high, n)) \cup LaneSet(higher(low, high, n))
              = LaneSet(low) \cup LaneSet(high)
         /\ lower(low, high, n)[W] <= low[W]
<1> DEFINE p == lower(low, high, n)
           q == higher(low, high, n)
<1>1. n \in Nat /\ n >= 1 /\ n < W /\ W \in Nat /\ Lanes = 1 .. W
  BY Numbers DEF Lanes
<1>2. /\ low \in [Lanes -> Value] /\ high \in [Lanes -> Value]
      /\ \A l \in Lanes : low[l] \in Int /\ high[l] \in Int
      /\ \A k, l \in Lanes : k <= l => low[k] <= low[l] /\ high[k] <= high[l]
      /\ \A m, l \in Lanes : m <= l + (n - 1) => low[m] <= high[l]
  BY Numbers DEF Halves, Ordered
<1>3. /\ \A m \in Lanes : p[m] = IF m > n /\ high[m - n] < low[m] THEN high[m - n] ELSE low[m]
      /\ \A l \in Lanes : q[l] = IF l + n <= W /\ high[l] < low[l + n] THEN low[l + n] ELSE high[l]
  BY DEF lower, higher
<1>4. /\ \A m \in Lanes : m > n => m - n \in Lanes /\ (m - n) + n = m /\ (m - n) + n <= W
      /\ \A l \in Lanes : l + n <= W => l + n \in Lanes /\ l + n > n /\ (l + n) - n = l
  BY <1>1
<1>5. p \in [Lanes -> Value] /\ q \in [Lanes -> Value]
  BY <1>2, <1>4 DEF lower, higher
<1> HIDE DEF p, q
<1>6. \A l \in Lanes : p[l] \in Int /\ q[l] \in Int /\ p[l] <= low[l] /\ high[l] <= q[l]
  <2>1. \A l \in Lanes : p[l] \in Int /\ q[l] \in Int
    BY <1>5, Numbers
  <2>2. \A l \in Lanes : p[l] <= low[l] /\ high[l] <= q[l]
    BY <1>2, <1>3, <1>4
  <2> QED
    BY <2>1, <2>2
<1>7. ASSUME NEW k \in Lanes, NEW l \in Lanes, k <= l PROVE p[k] <= p[l]
  <2>1. CASE l > n /\ high[l - n] < low[l]
    <3>1. p[l] = high[l - n] /\ l - n \in Lanes
      BY <1>3, <1>4, <2>1
    <3>2. CASE k > n
      <4>1. k - n \in Lanes /\ k - n <= l - n
        BY <1>1, <1>4, <1>7, <3>2
      <4>2. high[k - n] <= high[l - n]
        BY <1>2, <3>1, <4>1
      <4>3. p[k] <= high[k - n]
        BY <1>2, <1>3, <3>2, <4>1
      <4>4. high[k - n] \in Int /\ high[l - n] \in Int /\ p[k] \in Int
        BY <1>2, <1>6, <3>1, <4>1
      <4> QED
        BY <3>1, <4>2, <4>3, <4>4
    <3>3. CASE k <= n
      <4>1. k <= (l - n) + (n - 1)
        BY <1>1, <2>1, <3>3
      <4>2. low[k] <= high[l - n]
        BY <1>2, <3>1, <4>1
      <4> QED
        BY <1>2, <1>6, <3>1, <4>2
    <3> QED
      BY <1>1, <3>2, <3>3
  <2>2. CASE ~ (l > n /\ high[l - n] < low[l])
    <3>1. p[l] = low[l] /\ low[k] <= low[l]
      BY <1>2, <1>3, <1>7, <2>2
    <3> QED
      BY <1>2, <1>6, <3>1
  <2> QED
    BY <2>1, <2>2
<1>8. ASSUME NEW k \in Lanes, NEW l \in Lanes, k <= l PROVE q[k] <= q[l]
  <2>1. CASE k + n <= W /\ high[k] < low[k + n]
    <3>1. q[k] = low[k + n] /\ k + n \in Lanes
      BY <1>3, <1>4, <2>1
    <3>2. CASE l + n <= W
      <4>1. l + n \in Lanes /\ k + n <= l + n
        BY <1>1, <1>4, <1>8, <3>2
      <4>2. low[k + n] <= low[l + n]
        BY <1>2, <3>1, <4>1
      <4>3. low[l + n] <= q[l]
        BY <1>2, <1>3, <3>2, <4>1
      <4>4. low[k + n] \in Int /\ low[l + n] \in Int /\ q[l] \in Int
        BY <1>2, <1>6, <3>1, <4>1
      <4> QED
        BY <3>1, <4>2, <4>3, <4>4
    <3>3. CASE ~ (l + n <= W)
      <4>1. k + n <= l + (n - 1)
        BY <1>1, <2>1, <3>3
      <4>2. low[k + n] <= high[l]
        BY <1>2, <3>1, <4>1
      <4> QED
        BY <1>2, <1>6, <3>1, <4>2
    <3> QED
      BY <3>2, <3>3
  <2>2. CASE ~ (k + n <= W /\ high[k] < low[k + n])
    <3>1. q[k] = high[k] /\ high[k] <= high[l]
      BY <1>2, <1>3, <1>8, <2>2
    <3> QED
      BY <1>2, <1>6, <3>1
  <2> QED
    BY <2>1, <2>2
<1>9. ASSUME NEW m \in Lanes, NEW l \in Lanes, m <= l + n PROVE p[m] <= q[l]
  <2>1. CASE m <= l + (n - 1)
    BY <1>2, <1>6, <2>1
  <2>2. CASE m = l + n
    <3>1. m > n /\ m - n = l /\ l + n <= W
      BY <1>1, <2>2
    <3> QED
      BY <1>2, <1>3, <2>2, <3>1
  <2> QED
    BY <1>1, <1>9, <2>1, <2>2
<1>10. ASSUME NEW x PROVE x \in LaneSet(p) \cup LaneSet(q) <=> x \in LaneSet(low) \cup LaneSet(high)
  <2>1. \A l \in Lanes : p[l] \in LaneSet(low) \cup LaneSet(high) /\ q[l] \in LaneSet(low) \cup LaneSet(high)
    BY <1>3, <1>4 DEF LaneSet
  <2>2. \A m \in Lanes : low[m] \in LaneSet(p) \cup LaneSet(q)
    <3>1. TAKE m \in Lanes
    <3>2. CASE m > n /\ high[m - n] < low[m]
      <4>1. m - n \in Lanes /\ q[m - n] = low[m]
        BY <1>3, <1>4, <3>2
      <4> QED
        BY <4>1 DEF LaneSet
    <3>3. CASE ~ (m > n /\ high[m - n] < low[m])
      BY <1>3, <3>3 DEF LaneSet
    <3> QED
      BY <3>2, <3>3
  <2>3. \A l \in Lanes : high[l] \in LaneSet(p) \cup LaneSet(q)
    <3>1. TAKE l \in Lanes
    <3>2. CASE l + n <= W /\ high[l] < low[l + n]
      <4>1. l + n \in Lanes /\ p[l + n] = high[l]
        BY <1>3, <1>4, <3>2
      <4> QED
        BY <4>1 DEF LaneSet
    <3>3. CASE ~ (l + n <= W /\ high[l] < low[l + n])
      BY <1>3, <3>3 DEF LaneSet
    <3> QED
      BY <3>2, <3>3
  <2> QED
    BY <2>1, <2>2, <2>3 DEF LaneSet
<1>11. Halves(p, q, n)
  BY <1>5, <1>7, <1>8, <1>9 DEF Halves, Ordered
<1>12. p[W] <= low[W]
  BY <1>1, <1>6
<1> QED
  BY <1>10, <1>11, <1>12 DEF p, q

\* What one turn does, in the frame of the network.
LEMMA TurnIs ==
  ASSUME NEW n \in 1 .. W - 1, NEW low, NEW high, Halves(low, high, n - 1),
         NEW tmp, tmp = rot(low, n)
  PROVE  /\ vmin(tmp, high) = rot(lower(low, high, n), n)
         /\ vmax(tmp, high) = higher(low, high, n)
<1> DEFINE p == lower(low, high, n)
           q == higher(low, high, n)
<1>1. n \in Nat /\ n >= 1 /\ n < W /\ W \in Nat /\ Lanes = 1 .. W /\ n \in 0 .. W
  BY Numbers DEF Lanes
<1>2. /\ low \in [Lanes -> Value] /\ high \in [Lanes -> Value]
      /\ \A l \in Lanes : low[l] \in Int /\ high[l] \in Int
      /\ \A m, l \in Lanes : m <= l + (n - 1) => low[m] <= high[l]
  BY Numbers DEF Halves, Ordered
<1>3. /\ \A m \in Lanes : p[m] = IF m > n /\ high[m - n] < low[m] THEN high[m - n] ELSE low[m]
      /\ \A l \in Lanes : q[l] = IF l + n <= W /\ high[l] < low[l + n] THEN low[l + n] ELSE high[l]
  BY DEF lower, higher
<1>4. p \in [Lanes -> Value] /\ q \in [Lanes -> Value]
  <2>1. Halves(p, q, n)
    BY TurnOrders
  <2> QED
    BY <2>1 DEF Halves, Ordered
<1>5. q = [l \in Lanes |-> q[l]]
  BY <1>4
<1> HIDE DEF p, q
<1>6. tmp \in [Lanes -> Value] /\ \A l \in Lanes : tmp[l] = low[onward(l, n)] /\ onward(l, n) \in Lanes
  BY <1>1, <1>2, RotatedValues, Around
<1>7. rot(p, n) \in [Lanes -> Value] /\ \A l \in Lanes : rot(p, n)[l] = p[onward(l, n)]
  BY <1>1, <1>4, RotatedValues
<1>8. ASSUME NEW l \in Lanes
      PROVE  /\ rot(p, n)[l] = IF tmp[l] <= high[l] THEN tmp[l] ELSE high[l]
             /\ q[l] = IF tmp[l] <= high[l] THEN high[l] ELSE tmp[l]
  <2>1. CASE l + n <= W
    <3>1. onward(l, n) = l + n /\ l + n > n /\ (l + n) - n = l /\ l + n \in Lanes
      BY <1>1, <2>1 DEF onward
    <3> QED
      BY <1>2, <1>3, <1>6, <1>7, <2>1, <3>1
  <2>2. CASE ~ (l + n <= W)
    <3> DEFINE m == l + n - W
    <3>1. onward(l, n) = m /\ ~ (m > n) /\ m \in Lanes /\ m <= l + (n - 1)
      BY <1>1, <2>2 DEF onward
    <3> HIDE DEF m
    <3>2. low[m] <= high[l] /\ p[m] = low[m] /\ q[l] = high[l] /\ tmp[l] = low[m]
      BY <1>2, <1>3, <1>6, <2>2, <3>1
    <3>3. rot(p, n)[l] = low[m]
      BY <1>7, <3>1, <3>2
    <3> QED
      BY <1>2, <3>1, <3>2, <3>3
  <2> QED
    BY <2>1, <2>2
<1>9. rot(p, n) = [l \in Lanes |-> rot(p, n)[l]]
  BY <1>7
<1>10. /\ vmin(tmp, high) = [l \in Lanes |-> IF tmp[l] <= high[l] THEN tmp[l] ELSE high[l]]
       /\ vmax(tmp, high) = [l \in Lanes |-> IF tmp[l] <= high[l] THEN high[l] ELSE tmp[l]]
  BY <1>2, <1>6, VectorMinMax
<1>11. vmin(tmp, high) = rot(p, n)
  BY <1>8, <1>9, <1>10
<1>12. vmax(tmp, high) = q
  BY <1>5, <1>8, <1>10
<1> QED
  BY <1>11, <1>12 DEF p, q

LEMMA RotateOn ==
  ASSUME NEW v \in [Lanes -> Value], NEW n \in 0 .. W - 1
  PROVE  rot(rot(v, n), 1) = rot(v, n + 1)
<1>1. n \in 0 .. W /\ n + 1 \in 0 .. W /\ 1 \in 0 .. W /\ Lanes = 1 .. W /\ W \in Nat /\ W >= 2 /\ n \in Nat /\ n < W
  BY Numbers DEF Lanes
<1>2. /\ rot(v, n) \in [Lanes -> Value] /\ \A l \in Lanes : rot(v, n)[l] = v[onward(l, n)]
  BY <1>1, RotatedValues
<1>3. /\ rot(v, n + 1) \in [Lanes -> Value] /\ \A l \in Lanes : rot(v, n + 1)[l] = v[onward(l, n + 1)]
  BY <1>1, RotatedValues
<1>4. /\ rot(rot(v, n), 1) \in [Lanes -> Value]
      /\ \A l \in Lanes : rot(rot(v, n), 1)[l] = rot(v, n)[onward(l, 1)]
  BY <1>1, <1>2, RotatedValues
<1>5. \A l \in Lanes : onward(l, 1) \in Lanes /\ onward(onward(l, 1), n) = onward(l, n + 1)
  BY <1>1 DEF onward
<1>6. \A l \in Lanes : rot(rot(v, n), 1)[l] = rot(v, n + 1)[l]
  BY <1>2, <1>3, <1>4, <1>5
<1> QED
  BY <1>3, <1>4, <1>6

LEMMA RotateAround ==
  ASSUME NEW v \in [Lanes -> Value]
  PROVE  rot(v, W) = v
<1>1. W \in 0 .. W /\ Lanes = 1 .. W /\ W \in Nat
  BY Numbers DEF Lanes
<1>2. rot(v, W) \in [Lanes -> Value] /\ \A l \in Lanes : rot(v, W)[l] = v[onward(l, W)]
  BY <1>1, RotatedValues
<1>3. \A l \in Lanes : onward(l, W) = l
  BY <1>1 DEF onward
<1> QED
  BY <1>2, <1>3

\* The network after so many turns, as a function of the turn.
Turns(u, v, n, f) ==
  LET turn(tmp, max) == [tmp |-> tmp, max |-> max, min |-> vmin(tmp, max)]
  IN  f = [i \in 0 .. n |->
             IF i = 0 THEN turn(rot(vmin(u, v), 1), vmax(u, v))
             ELSE turn(rot(f[i - 1].min, 1), vmax(f[i - 1].tmp, f[i - 1].max))]

LEMMA TurnsExist ==
  ASSUME NEW u, NEW v, NEW n \in Nat
  PROVE  \E f : Turns(u, v, n, f)
<1> DEFINE turn(tmp, max) == [tmp |-> tmp, max |-> max, min |-> vmin(tmp, max)]
           first == turn(rot(vmin(u, v), 1), vmax(u, v))
           next(r) == turn(rot(r.min, 1), vmax(r.tmp, r.max))
           Good(k, f) == f = [i \in 0 .. k |-> IF i = 0 THEN first ELSE next(f[i - 1])]
           S == {k \in Nat : \E f : Good(k, f)}
<1> HIDE DEF first, next
<1>1. 0 \in S
  <2>1. Good(0, [i \in 0 .. 0 |-> first])
    OBVIOUS
  <2> QED
    BY <2>1
<1>2. ASSUME NEW k \in Nat, k \in S PROVE k + 1 \in S
  <2>1. PICK f : Good(k, f)
    BY <1>2
  <2> DEFINE g == [i \in 0 .. k + 1 |-> IF i \in 0 .. k THEN f[i] ELSE next(f[k])]
  <2>2. \A i \in 0 .. k : f[i] = IF i = 0 THEN first ELSE next(f[i - 1])
    BY <2>1
  <2>3. \A i \in 0 .. k + 1 : i # 0 => i - 1 \in 0 .. k /\ i - 1 \in 0 .. k + 1
    OBVIOUS
  <2>4. \A i \in 0 .. k : g[i] = f[i]
    OBVIOUS
  <2>5. \A i \in 0 .. k + 1 : ~ (i \in 0 .. k) => i = k + 1 /\ i # 0 /\ i - 1 = k
    OBVIOUS
  <2>6. \A i \in 0 .. k + 1 : g[i] = IF i = 0 THEN first ELSE next(g[i - 1])
    <3>1. TAKE i \in 0 .. k + 1
    <3>2. CASE i \in 0 .. k
      BY <2>2, <2>3, <2>4, <3>2
    <3>3. CASE ~ (i \in 0 .. k)
      <4>1. i = k + 1 /\ i # 0 /\ i - 1 = k /\ g[i - 1] = f[k]
        BY <2>4, <2>5, <3>3
      <4> QED
        BY <3>3, <4>1
    <3> QED
      BY <3>2, <3>3
  <2> HIDE DEF g
  <2>7. g = [i \in 0 .. k + 1 |-> g[i]]
    BY DEF g
  <2>8. Good(k + 1, g)
    BY <2>6, <2>7
  <2> QED
    BY <2>8
<1> HIDE DEF S
<1>3. n \in S
  BY <1>1, <1>2, SetInduction
<1>4. PICK f : Good(n, f)
  BY <1>3 DEF S
<1>5. Turns(u, v, n, f)
  BY <1>4 DEF Turns, first, next
<1> QED
  BY <1>5

\* Where the network stands after a turn: two halves in order, the low one
\* turned by one lane for each turn.
Standing(u, v, r, n) ==
  \E low, high :
    /\ Halves(low, high, n)
    /\ r.min = rot(low, n) /\ vmax(r.tmp, r.max) = high
    /\ LaneSet(low) \cup LaneSet(high) = LaneSet(u) \cup LaneSet(v)
    /\ low[W] <= u[W] /\ low[W] <= v[W]

LEMMA TurnStands ==
  ASSUME NEW u \in [Lanes -> Value], NEW v \in [Lanes -> Value],
         NEW n \in 1 .. W - 1, NEW low, NEW high, Halves(low, high, n - 1),
         LaneSet(low) \cup LaneSet(high) = LaneSet(u) \cup LaneSet(v),
         low[W] <= u[W] /\ low[W] <= v[W],
         NEW r, r.tmp = rot(low, n), r.max = high, r.min = vmin(r.tmp, r.max)
  PROVE  Standing(u, v, r, n)
<1> DEFINE p == lower(low, high, n)
           q == higher(low, high, n)
<1>1. Halves(p, q, n) /\ LaneSet(p) \cup LaneSet(q) = LaneSet(u) \cup LaneSet(v) /\ p[W] <= low[W]
  BY TurnOrders
<1>2. r.min = rot(p, n) /\ vmax(r.tmp, r.max) = q
  BY TurnIs
<1> HIDE DEF p, q
<1>3. p[W] \in Int /\ low[W] \in Int /\ u[W] \in Int /\ v[W] \in Int
  <2>1. W \in Lanes /\ p \in [Lanes -> Value] /\ low \in [Lanes -> Value]
    BY <1>1, Numbers DEF Lanes, Halves, Ordered
  <2> QED
    BY <2>1, Numbers
<1>4. p[W] <= u[W] /\ p[W] <= v[W]
  BY <1>1, <1>3
<1> QED
  BY <1>1, <1>2, <1>4 DEF Standing

\* simd_merge: the low half of the merge and the high half, each in order, and
\* nothing in the low half above the last value of either block.
THEOREM MergeSplits ==
  ASSUME NEW u, Ordered(u), NEW v, Ordered(v)
  PROVE  LET m == simd_merge(u, v)
         IN  /\ Ordered(m[1]) /\ Ordered(m[2])
             /\ \A k, l \in Lanes : m[1][k] <= m[2][l]
             /\ LaneSet(m[1]) \cup LaneSet(m[2]) = LaneSet(u) \cup LaneSet(v)
             /\ m[1][W] <= u[W] /\ m[1][W] <= v[W]
<1> DEFINE f == CHOOSE g : Turns(u, v, W - 2, g)
           last == network(u, v, W - 2)
<1>1. W - 2 \in Nat /\ W \in Nat /\ W >= 2 /\ Lanes = 1 .. W /\ W \in Lanes
  BY Numbers DEF Lanes
<1>2. Turns(u, v, W - 2, f)
  BY <1>1, TurnsExist
<1>3. last = f[W - 2]
  BY DEF network, Turns
<1> HIDE DEF f, last
<1>4. /\ u \in [Lanes -> Value] /\ v \in [Lanes -> Value]
      /\ \A l \in Lanes : u[l] \in Int /\ v[l] \in Int
      /\ \A k, l \in Lanes : k <= l => u[k] <= u[l] /\ v[k] <= v[l]
  BY Numbers DEF Ordered
<1>5. /\ f[0].tmp = rot(vmin(u, v), 1) /\ f[0].max = vmax(u, v) /\ f[0].min = vmin(f[0].tmp, f[0].max)
      /\ \A i \in 1 .. W - 2 : /\ f[i].tmp = rot(f[i - 1].min, 1)
                               /\ f[i].max = vmax(f[i - 1].tmp, f[i - 1].max)
                               /\ f[i].min = vmin(f[i].tmp, f[i].max)
  <2>1. 0 \in 0 .. W - 2 /\ \A i \in 1 .. W - 2 : i \in 0 .. W - 2 /\ i # 0
    BY <1>1
  <2> DEFINE turn(tmp, max) == [tmp |-> tmp, max |-> max, min |-> vmin(tmp, max)]
  <2>2. \A i \in 0 .. W - 2 : f[i] = IF i = 0 THEN turn(rot(vmin(u, v), 1), vmax(u, v))
                                     ELSE turn(rot(f[i - 1].min, 1), vmax(f[i - 1].tmp, f[i - 1].max))
    BY <1>2, Zenon DEF Turns
  <2>3. /\ \A x, y : turn(x, y).tmp = x /\ turn(x, y).max = y /\ turn(x, y).min = vmin(x, y)
    OBVIOUS
  <2> HIDE DEF turn
  <2>4. f[0] = turn(rot(vmin(u, v), 1), vmax(u, v))
    BY <2>1, <2>2
  <2>5. \A i \in 1 .. W - 2 : f[i] = turn(rot(f[i - 1].min, 1), vmax(f[i - 1].tmp, f[i - 1].max))
    BY <2>1, <2>2
  <2>6. \A x, y, r : r = turn(x, y) => r.tmp = x /\ r.max = y /\ r.min = vmin(r.tmp, r.max)
    BY <2>3
  <2>7. f[0].tmp = rot(vmin(u, v), 1) /\ f[0].max = vmax(u, v) /\ f[0].min = vmin(f[0].tmp, f[0].max)
    BY <2>4, <2>6
  <2>8. ASSUME NEW i \in 1 .. W - 2
        PROVE  /\ f[i].tmp = rot(f[i - 1].min, 1)
               /\ f[i].max = vmax(f[i - 1].tmp, f[i - 1].max)
               /\ f[i].min = vmin(f[i].tmp, f[i].max)
    <3>1. f[i] = turn(rot(f[i - 1].min, 1), vmax(f[i - 1].tmp, f[i - 1].max))
      BY <2>5
    <3> QED
      BY <2>6, <3>1
  <2> QED
    BY <2>7, <2>8
<1> DEFINE low0 == vmin(u, v)
           high0 == vmax(u, v)
<1>6. /\ Halves(low0, high0, 0) /\ low0[W] <= u[W] /\ low0[W] <= v[W]
      /\ LaneSet(low0) \cup LaneSet(high0) = LaneSet(u) \cup LaneSet(v)
  <2>1. /\ low0 = [l \in Lanes |-> IF u[l] <= v[l] THEN u[l] ELSE v[l]]
        /\ high0 = [l \in Lanes |-> IF u[l] <= v[l] THEN v[l] ELSE u[l]]
    BY <1>4, VectorMinMax
  <2> HIDE DEF low0, high0
  <2>2. /\ low0 \in [Lanes -> Value] /\ high0 \in [Lanes -> Value]
        /\ \A l \in Lanes : low0[l] = (IF u[l] <= v[l] THEN u[l] ELSE v[l])
                            /\ high0[l] = (IF u[l] <= v[l] THEN v[l] ELSE u[l])
    BY <1>4, <2>1
  <2>3. \A k, l \in Lanes : k <= l => low0[k] <= low0[l] /\ high0[k] <= high0[l] /\ low0[k] <= high0[l]
    BY <1>4, <2>2
  <2>4. \A k, l \in Lanes : k <= l + 0 => k <= l
    BY <1>1
  <2>5. Halves(low0, high0, 0)
    BY <2>2, <2>3, <2>4 DEF Halves, Ordered
  <2>6. low0[W] <= u[W] /\ low0[W] <= v[W]
    BY <1>1, <1>4, <2>2
  <2>7. LaneSet(low0) \cup LaneSet(high0) = LaneSet(u) \cup LaneSet(v)
    <3>1. \A l \in Lanes : \/ low0[l] = u[l] /\ high0[l] = v[l]
                           \/ low0[l] = v[l] /\ high0[l] = u[l]
      BY <2>2
    <3>2. \A x : x \in LaneSet(low0) \cup LaneSet(high0) <=> x \in LaneSet(u) \cup LaneSet(v)
      BY <3>1 DEF LaneSet
    <3> QED
      BY <3>2
  <2> QED
    BY <2>5, <2>6, <2>7
<1> DEFINE S == {i \in Nat : i <= W - 2 => Standing(u, v, f[i], i + 1)}
<1>7. 0 \in S
  <2>1. 1 \in 1 .. W - 1 /\ 1 - 1 = 0 /\ 0 + 1 = 1
    BY <1>1
  <2> HIDE DEF low0, high0
  <2>2. f[0].tmp = rot(low0, 1) /\ f[0].max = high0 /\ f[0].min = vmin(f[0].tmp, f[0].max)
    BY <1>5 DEF low0, high0
  <2>3. Halves(low0, high0, 1 - 1)
    BY <1>6, <2>1
  <2>4. Standing(u, v, f[0], 1)
    BY <1>4, <1>6, <2>1, <2>2, <2>3, TurnStands
  <2> QED
    BY <2>1, <2>4
<1>8. ASSUME NEW i \in Nat, i \in S PROVE i + 1 \in S
  <2>1. SUFFICES ASSUME i + 1 <= W - 2 PROVE Standing(u, v, f[i + 1], (i + 1) + 1)
    OBVIOUS
  <2>2. i <= W - 2 /\ i + 1 \in 1 .. W - 2 /\ (i + 1) - 1 = i /\ (i + 1) + 1 \in 1 .. W - 1
        /\ ((i + 1) + 1) - 1 = i + 1 /\ i + 1 \in 0 .. W - 1
    BY <1>1, <2>1
  <2>3. Standing(u, v, f[i], i + 1)
    BY <1>8, <2>2
  <2>4. PICK low, high : /\ Halves(low, high, i + 1)
                         /\ f[i].min = rot(low, i + 1) /\ vmax(f[i].tmp, f[i].max) = high
                         /\ LaneSet(low) \cup LaneSet(high) = LaneSet(u) \cup LaneSet(v)
                         /\ low[W] <= u[W] /\ low[W] <= v[W]
    BY <2>3 DEF Standing
  <2>5. low \in [Lanes -> Value]
    BY <2>4 DEF Halves, Ordered
  <2>6. f[i + 1].tmp = rot(low, (i + 1) + 1)
    <3>1. f[i + 1].tmp = rot(rot(low, i + 1), 1)
      BY <1>5, <2>2, <2>4
    <3> QED
      BY <2>2, <2>5, <3>1, RotateOn
  <2>7. f[i + 1].max = high /\ f[i + 1].min = vmin(f[i + 1].tmp, f[i + 1].max)
    BY <1>5, <2>2, <2>4
  <2>8. Halves(low, high, ((i + 1) + 1) - 1)
    BY <2>2, <2>4
  <2> QED
    BY <1>4, <2>2, <2>4, <2>6, <2>7, <2>8, TurnStands
<1> HIDE DEF S
<1>9. W - 2 \in S
  BY <1>1, <1>7, <1>8, SetInduction
<1>10. Standing(u, v, last, W - 1)
  <2>1. (W - 2) + 1 = W - 1 /\ W - 2 <= W - 2
    BY <1>1
  <2> QED
    BY <1>3, <1>9, <2>1 DEF S
<1>11. PICK low, high : /\ Halves(low, high, W - 1)
                        /\ last.min = rot(low, W - 1) /\ vmax(last.tmp, last.max) = high
                        /\ LaneSet(low) \cup LaneSet(high) = LaneSet(u) \cup LaneSet(v)
                        /\ low[W] <= u[W] /\ low[W] <= v[W]
  BY <1>10 DEF Standing
<1>12. Ordered(low) /\ Ordered(high) /\ low \in [Lanes -> Value]
  BY <1>11 DEF Halves, Ordered
<1>13. rot(last.min, 1) = low
  <2>1. W - 1 \in 0 .. W - 1 /\ (W - 1) + 1 = W
    BY <1>1
  <2> QED
    BY <1>11, <1>12, <2>1, RotateOn, RotateAround
<1>14. \A k, l \in Lanes : low[k] <= high[l]
  <2>1. \A k, l \in Lanes : k <= l + (W - 1)
    BY <1>1
  <2> QED
    BY <1>11, <2>1 DEF Halves
<1>15. simd_merge(u, v) = << low, high >>
  BY <1>11, <1>13 DEF simd_merge, last
<1> QED
  BY <1>11, <1>12, <1>14, <1>15

----------------------------------------------------------------------------
\* A whole block of an array.
LEMMA WholeBlock ==
  ASSUME NEW s, Array(s), NEW i \in Nat, i + W <= Len(s)
  PROVE  /\ block(s, i) \in [Lanes -> Value]
         /\ \A l \in Lanes : block(s, i)[l] = s[i + l] /\ i + l \in 1 .. Len(s)
         /\ \A k, l \in Lanes : k < l => block(s, i)[k] < block(s, i)[l]
         /\ Ordered(block(s, i))
         /\ Past(s, i + W) = Past(s, i) \cup LaneSet(block(s, i))
         /\ Rest(s, i) = Rest(s, i + W) \cup LaneSet(block(s, i))
         /\ \A l \in Lanes : block(s, i)[l] <= block(s, i)[W] /\ block(s, i)[1] <= block(s, i)[l]
<1>1. PICK n \in Nat : n = Len(s)
  BY ArrayFacts
<1>2. W \in Nat /\ W >= 2 /\ Lanes = 1 .. W /\ 1 \in Lanes /\ W \in Lanes
  BY Numbers DEF Lanes
<1>3. \A l \in Lanes : i + l \in 1 .. n /\ i + l <= n /\ s[i + l] \in Value /\ s[i + l] \in Int
  BY <1>1, <1>2, ArrayFacts
<1>4. block(s, i) = [l \in Lanes |-> s[i + l]]
  BY <1>1, <1>3 DEF block
<1> DEFINE v == block(s, i)
<1>5. v \in [Lanes -> Value] /\ \A l \in Lanes : v[l] = s[i + l] /\ v[l] \in Int
  BY <1>3, <1>4
<1> HIDE DEF v
<1>6. \A k, l \in Lanes : (k < l => v[k] < v[l]) /\ (k <= l => v[k] <= v[l])
  <2>1. TAKE k, l \in Lanes
  <2>2. k < l => s[i + k] < s[i + l]
    <3>1. k < l => i + k < i + l
      BY <1>2
    <3> QED
      BY <1>1, <1>3, <3>1, ArrayFacts
  <2>3. k <= l => k < l \/ k = l
    BY <1>2
  <2> QED
    BY <1>5, <2>2, <2>3
<1>7. \A x : x \in LaneSet(v) <=> \E l \in 1 .. W : x = s[i + l]
  BY <1>2, <1>5 DEF LaneSet
<1>8. /\ Past(s, i + W) = Past(s, i) \cup LaneSet(v)
      /\ Rest(s, i) = Rest(s, i + W) \cup LaneSet(v)
  <2>1. \A x : /\ x \in Past(s, i + W) <=> x \in Past(s, i) \/ \E l \in 1 .. W : x = s[i + l]
               /\ x \in Rest(s, i) <=> x \in Rest(s, i + W) \/ \E l \in 1 .. W : x = s[i + l]
    <3>1. Passed(s, i, W)
      BY <1>2, Moved
    <3> QED
      BY <3>1 DEF Passed
  <2> QED
    BY <1>7, <2>1
<1>9. Ordered(v)
  BY <1>5, <1>6 DEF Ordered
<1>10. \A l \in Lanes : v[l] <= v[W] /\ v[1] <= v[l]
  <2>1. \A l \in Lanes : l <= W /\ 1 <= l
    BY <1>2
  <2> QED
    BY <1>2, <1>6, <2>1
<1> QED
  BY <1>1, <1>3, <1>5, <1>6, <1>8, <1>9, <1>10 DEF v

\* The lanes that differ from the one before them, compacted: every value of a
\* block in order, but for the one that was emitted last.
LEMMA WithoutRepeats ==
  ASSUME NEW v, Ordered(v), NEW last \in Value
  PROVE  LET kept == compact(v, unique(last, v))
         IN  /\ Array(kept) /\ Len(kept) <= W
             /\ Range(kept) = IF v[1] = last THEN LaneSet(v) \ {last} ELSE LaneSet(v)
<1>1. W \in Nat /\ W >= 2 /\ Lanes = 1 .. W /\ 1 \in Lanes
  BY Numbers DEF Lanes
<1>2. /\ v \in [Lanes -> Value] /\ \A l \in Lanes : v[l] \in Int
      /\ \A k, l \in Lanes : k <= l => v[k] <= v[l]
  BY Numbers DEF Ordered
<1> DEFINE U == unique(last, v)
<1>3. /\ U \in SUBSET Lanes /\ (1 \in U <=> v[1] # last)
      /\ \A l \in Lanes : l # 1 => (l \in U <=> v[l] # v[l - 1])
  BY <1>1 DEF unique
<1> HIDE DEF U
<1>4. ASSUME NEW k \in U, NEW l \in U, k < l PROVE v[k] < v[l]
  <2>1. k \in Lanes /\ l \in Lanes /\ l # 1 /\ l - 1 \in Lanes /\ k <= l - 1 /\ l - 1 <= l
    BY <1>1, <1>3, <1>4
  <2>2. v[k] <= v[l - 1] /\ v[l - 1] <= v[l] /\ v[l] # v[l - 1]
    BY <1>2, <1>3, <2>1
  <2> QED
    BY <1>2, <2>1, <2>2
<1>5. /\ Array(compact(v, U)) /\ Range(compact(v, U)) = {v[l] : l \in U} /\ Len(compact(v, U)) <= W
  BY <1>2, <1>3, <1>4, Compacted
<1> DEFINE Kept(l) == (v[l] = last /\ v[1] = last) \/ \E k \in U : v[k] = v[l]
           S == {n \in Nat : n + 1 \in Lanes => Kept(n + 1)}
<1>6. 0 \in S
  BY <1>1, <1>3
<1>7. ASSUME NEW n \in Nat, n \in S PROVE n + 1 \in S
  <2>1. SUFFICES ASSUME (n + 1) + 1 \in Lanes PROVE Kept((n + 1) + 1)
    OBVIOUS
  <2> DEFINE l == (n + 1) + 1
  <2>2. n + 1 \in Lanes /\ l \in Lanes /\ l # 1 /\ l - 1 = n + 1
    BY <1>1, <2>1
  <2>3. Kept(n + 1)
    BY <1>7, <2>2
  <2> HIDE DEF l
  <2>4. CASE l \in U
    BY <2>4 DEF l
  <2>5. CASE l \notin U
    <3>1. v[l] = v[n + 1]
      BY <1>3, <2>2, <2>5
    <3> QED
      BY <2>3, <3>1 DEF l
  <2> QED
    BY <2>4, <2>5
<1> HIDE DEF S
<1>8. \A l \in Lanes : Kept(l)
  <2>1. TAKE l \in Lanes
  <2>2. l - 1 \in Nat /\ (l - 1) + 1 = l
    BY <1>1
  <2>3. l - 1 \in S
    BY <1>6, <1>7, <2>2, SetInduction
  <2> QED
    BY <2>2, <2>3 DEF S
<1>9. CASE v[1] # last
  <2>1. \A x : x \in {v[l] : l \in U} <=> x \in LaneSet(v)
    BY <1>3, <1>8, <1>9 DEF LaneSet
  <2> QED
    BY <1>5, <1>9, <2>1 DEF U
<1>10. CASE v[1] = last
  <2>1. \A l \in U : v[l] # last
    <3>1. TAKE l \in U
    <3>2. l \in Lanes /\ l # 1 /\ l - 1 \in Lanes /\ 1 <= l - 1 /\ l - 1 <= l
      BY <1>1, <1>3, <1>10
    <3>3. v[1] <= v[l - 1] /\ v[l - 1] <= v[l] /\ v[l] # v[l - 1]
      BY <1>1, <1>2, <1>3, <3>2
    <3> QED
      BY <1>1, <1>2, <1>10, <3>2, <3>3
  <2>2. \A x : x \in {v[l] : l \in U} <=> x \in LaneSet(v) \ {last}
    BY <1>3, <1>8, <2>1 DEF LaneSet
  <2> QED
    BY <1>5, <1>10, <2>2 DEF U
<1> QED
  BY <1>9, <1>10

----------------------------------------------------------------------------
\* The invariant.
A == Range(a)
B == Range(b)

Result ==
  CASE op = "intersect" -> A \cap B
    [] op = "union"     -> A \cup B
    [] op = "diff"      -> A \ B

InputInv ==
  /\ op \in {"intersect", "union", "diff"} /\ cpu \in Cpus
  /\ Array(a) /\ Array(b) /\ a # << >> /\ (op = "intersect" => b # << >>)
  /\ room \in Nat
  /\ op = "intersect" => room >= na \/ room >= nb
  /\ op = "union" => room >= na + nb
  /\ op = "diff" => room >= na

PlaceInv ==
  /\ phase \in {"call", "merge", "tail", "scan", "gallop", "scalar", "done"}
  /\ ia \in Nat /\ ib \in Nat /\ matched \subseteq Lanes
  /\ carry \in Seq(Value) /\ prev \in Value
  /\ phase = "call" => ia = 0 /\ ib = 0 /\ matched = {} /\ carry = << >> /\ prev = LAST /\ out = << >>
  /\ phase = "merge" => ia + W <= na /\ ib + W <= nb
  /\ phase = "tail" => op # "intersect"
  /\ phase = "scan" => op # "union"
  /\ phase = "gallop" => op = "intersect"

OutInv ==
  /\ Array(out) /\ Range(out) \subseteq Result
  /\ top \in Nat /\ top <= room

\* What is to come, and that it comes after what is out.
Pending(left) == Range(out) \cup left = Result /\ Below(Range(out), left)

IntersectInv ==
  op = "intersect" /\ phase \in {"merge", "scalar"} => Pending(Rest(a, ia) \cap Rest(b, ib))

\* A block of a is pending until the blocks of b have passed its maximum.
DiffInv ==
  /\ op = "diff" /\ phase \in {"merge", "tail"} =>
       /\ ia + W <= na /\ Pending(Rest(a, ia) \ B)
       /\ matched = {l \in Lanes : a[ia + l] \in Past(b, ib)}
       /\ Below(Past(b, ib), Rest(a, ia + W))
  /\ op = "diff" /\ phase = "scalar" =>
       Pending(Rest(a, ia) \ B) /\ Below(Past(b, ib), Rest(a, ia))

ScanInv ==
  phase \in {"scan", "gallop"} =>
    /\ ib <= nf /\ Below(Past(freq, ib), Rest(rare, ia))
    /\ Pending(Rest(rare, ia) \cap Result)

\* A merge holds back the high half; a tail may still meet the value it emitted
\* last.
AtMost(S, T) == \A x \in S, y \in T : x <= y

Left == Range(carry) \cup Rest(a, ia) \cup Rest(b, ib)

InRow(s) == \A i, j \in 1 .. Len(s) : i <= j => s[i] <= s[j]

UnionInv ==
  /\ op = "union" /\ phase = "scalar" => Pending(Rest(a, ia) \cup Rest(b, ib))
  /\ op = "union" /\ phase = "merge" =>
       /\ ia % W = 0 /\ ib % W = 0
       /\ carry = << >> => ia = 0 /\ ib = 0 /\ out = << >>
       /\ carry # << >> =>
            /\ Ordered(carry) /\ Len(carry) = W
            /\ Range(carry) \subseteq Past(a, ia) \cup Past(b, ib)
            /\ Range(out) \cup Left = Result
            /\ AtMost(Range(out), Range(carry))
            /\ Below(Range(out), Rest(a, ia) \cup Rest(b, ib))
            /\ prev \in Range(out) /\ AtMost(Range(out), {prev})
  /\ op = "union" /\ phase = "tail" =>
       /\ InRow(carry)
       /\ Range(out) \cup Left = Result /\ AtMost(Range(out), Left)

DoneInv == phase = "done" => Range(out) = Result

IInv ==
  /\ InputInv /\ PlaceInv /\ OutInv
  /\ IntersectInv /\ DiffInv /\ ScanInv /\ UnionInv /\ DoneInv

LEMMA InputFacts ==
  ASSUME InputInv
  PROVE  /\ na \in Nat /\ nb \in Nat /\ na = Len(a) /\ nb = Len(b) /\ na >= 1
         /\ \A i \in 1 .. na : a[i] \in Value /\ a[i] \in Int
         /\ \A i \in 1 .. nb : b[i] \in Value /\ b[i] \in Int
         /\ A \subseteq Value /\ B \subseteq Value
         /\ \A x \in A : x \in Int
         /\ \A x \in B : x \in Int
<1>1. Array(a) /\ Array(b) /\ a # << >>
  BY DEF InputInv
<1>2. na \in Nat /\ nb \in Nat /\ na = Len(a) /\ nb = Len(b)
  BY <1>1, ArrayFacts DEF na, nb
<1>3. na >= 1
  <2>1. a \in Seq(Value)
    BY <1>1, ArrayFacts
  <2> QED
    BY <1>1, <1>2, <2>1, EmptySeq
<1>4. A \subseteq Value /\ B \subseteq Value
  BY <1>1, RangeIs DEF A, B
<1> QED
  BY <1>1, <1>2, <1>3, <1>4, ArrayFacts, Numbers

\* Room for all of the result, hence for whatever of it is out.
LEMMA RoomForResult ==
  ASSUME InputInv, NEW s, Array(s), Range(s) \subseteq Result
  PROVE  Len(s) <= room
<1>1. Array(a) /\ Array(b) /\ room \in Nat /\ Len(s) \in Nat
  BY ArrayFacts DEF InputInv
<1>2. na \in Nat /\ nb \in Nat /\ na = Len(a) /\ nb = Len(b)
  BY InputFacts
<1>3. IsFiniteSet(A) /\ Cardinality(A) = na /\ IsFiniteSet(B) /\ Cardinality(B) = nb
  BY <1>1, <1>2, RangeCard DEF A, B
<1>4. CASE op = "intersect"
  <2>1. Range(s) \subseteq A /\ Range(s) \subseteq B
    BY <1>4 DEF Result
  <2>2. Len(s) <= na /\ Len(s) <= nb
    BY <1>3, <2>1, Pigeonhole
  <2> QED
    BY <1>1, <1>2, <1>4, <2>2 DEF InputInv
<1>5. CASE op = "diff"
  <2>1. Range(s) \subseteq A
    BY <1>5 DEF Result
  <2>2. Len(s) <= na
    BY <1>3, <2>1, Pigeonhole
  <2> QED
    BY <1>1, <1>2, <1>5, <2>2 DEF InputInv
<1>6. CASE op = "union"
  <2>1. Range(s) \subseteq A \cup B
    BY <1>6 DEF Result
  <2>2. IsFiniteSet(A \cup B) /\ Cardinality(A \cup B) <= na + nb
    <3>1. IsFiniteSet(A \cap B) /\ Cardinality(A \cap B) \in Nat
      BY <1>3, FS_Intersection, FS_CardinalityType
    <3>2. IsFiniteSet(A \cup B) /\ Cardinality(A \cup B) = Cardinality(A) + Cardinality(B) - Cardinality(A \cap B)
      BY <1>3, FS_Union
    <3> QED
      BY <1>2, <1>3, <3>1, <3>2
  <2>3. Len(s) <= Cardinality(A \cup B) /\ Cardinality(A \cup B) \in Nat
    BY <2>1, <2>2, Pigeonhole, FS_CardinalityType
  <2> QED
    BY <1>1, <1>2, <1>6, <2>2, <2>3 DEF InputInv
<1> QED
  BY <1>4, <1>5, <1>6 DEF InputInv

\* A store of values of the result that come after what is out.
Stored(vals) == Block(vals) \/ Store(vals) \/ (Keep /\ vals = << >>)

LEMMA StoreKeeps ==
  ASSUME InputInv, OutInv, UNCHANGED call, NEW vals, Array(vals), Stored(vals),
         Range(vals) \subseteq Result, Below(Range(out), Range(vals))
  PROVE  /\ InputInv' /\ OutInv' /\ Result' = Result /\ A' = A /\ B' = B
         /\ Range(out') = Range(out) \cup Range(vals)
<1>1. UNCHANGED << op, cpu, a, b, room >>
  BY DEF call
<1>2. InputInv' /\ Result' = Result /\ A' = A /\ B' = B
  BY <1>1 DEF InputInv, Result, A, B, na, nb
<1>3. Array(out) /\ room \in Nat /\ top \in Nat /\ top <= room /\ Range(out) \subseteq Result
  BY DEF InputInv, OutInv
<1>4. /\ Array(out \o vals) /\ Range(out \o vals) = Range(out) \cup Range(vals)
      /\ Len(out \o vals) = Len(out) + Len(vals)
  BY <1>3, Joined
<1>5. Len(out) + Len(vals) <= room
  BY <1>3, <1>4, RoomForResult
<1>6. Len(out) \in Nat /\ Len(vals) \in Nat /\ W \in Nat
  BY <1>3, ArrayFacts, Numbers
<1>7. out' = out \o vals /\ top' \in Nat /\ top' <= room
  <2>1. CASE Block(vals)
    <3> DEFINE n == IF whole_fits(vals) THEN W ELSE Len(vals)
    <3>1. n \in Nat /\ Len(out) + n <= room /\ Len(out) + n \in Nat
      BY <1>3, <1>5, <1>6 DEF whole_fits
    <3> HIDE DEF n
    <3>2. out' = out \o vals /\ top' = Max({top, Len(out) + n})
      BY <2>1 DEF Block, n
    <3>3. top \in Int /\ Len(out) + n \in Int
      BY <1>3, <3>1
    <3>4. top' = (IF top <= Len(out) + n THEN Len(out) + n ELSE top)
      BY <3>2, <3>3, TwoValues
    <3> QED
      BY <1>3, <3>1, <3>2, <3>4
  <2>2. CASE Store(vals)
    <3>1. out' = out \o vals /\ top' = Max({top, Len(out) + Len(vals)})
      BY <2>2 DEF Store
    <3>2. PICK n \in Nat : n = Len(out) + Len(vals) /\ n \in Int /\ top \in Int
      BY <1>3, <1>6
    <3>3. top' = (IF top <= n THEN n ELSE top)
      BY <3>1, <3>2, TwoValues
    <3> QED
      BY <1>3, <1>5, <3>1, <3>2, <3>3
  <2>3. CASE Keep /\ vals = << >>
    <3>1. out \o << >> = out
      BY <1>3, ArrayFacts, ConcatEmptySeq
    <3> QED
      BY <1>3, <2>3, <3>1 DEF Keep
  <2> QED
    BY <2>1, <2>2, <2>3 DEF Stored
<1>8. Array(out') /\ Range(out') = Range(out) \cup Range(vals)
  BY <1>4, <1>7
<1>9. Range(out') \subseteq Result'
  BY <1>2, <1>3, <1>8
<1>10. OutInv'
  <2>1. Range(out)' = Range(out') /\ Array(out)' = Array(out')
    OBVIOUS
  <2> QED
    BY <1>1, <1>7, <1>8, <1>9, <2>1 DEF OutInv
<1> QED
  BY <1>2, <1>8, <1>10

LEMMA InitIInv == Init => IInv
<1> SUFFICES ASSUME Init PROVE IInv
  OBVIOUS
<1>1. PICK p \in Pairs : a = p[1] /\ b = p[2]
  BY DEF Init
<1>2. Array(a) /\ Array(b)
  <2>1. \A s \in {p[1], p[2]} : /\ s \in Seq(Value) /\ \A i \in 1 .. Len(s) - 1 : s[i] < s[i + 1]
    BY <1>1, ArrayAssumption DEF Value
  <2> QED
    BY <1>1, <2>1, NeighboursSuffice
<1>3. na \in Nat /\ nb \in Nat
  BY <1>2, ArrayFacts DEF na, nb
<1>4. lo = (IF na <= nb THEN na ELSE nb)
  BY <1>3, TwoValues DEF lo
<1>5. InputInv
  <2>1. PICK most : /\ most = CASE op = "intersect" -> lo [] op = "union" -> na + nb [] op = "diff" -> na
                    /\ room \in {most, most + 1}
    BY DEF Init
  <2>2. /\ op \in {"intersect", "union", "diff"} /\ cpu \in Cpus /\ a # << >> /\ (op = "intersect" => b # << >>)
    BY DEF Init
  <2>3. most \in Nat /\ room \in Nat /\ room >= most
    BY <1>3, <1>4, <2>1, <2>2
  <2> QED
    BY <1>2, <1>3, <1>4, <2>1, <2>2, <2>3 DEF InputInv
<1>6. PlaceInv
  <2>1. LAST \in Value /\ << >> \in Seq(Value)
    BY Numbers, EmptySeq DEF Value
  <2> QED
    BY <2>1 DEF Init, PlaceInv
<1>7. OutInv
  <2>1. Array(<< >>) /\ Range(<< >>) = {}
    BY EmptyArray
  <2>2. room \in Nat
    BY <1>5 DEF InputInv
  <2> QED
    BY <2>1, <2>2 DEF Init, OutInv
<1>8. IntersectInv /\ DiffInv /\ ScanInv /\ UnionInv /\ DoneInv
  BY DEF Init, IntersectInv, DiffInv, ScanInv, UnionInv, DoneInv
<1> QED
  BY <1>5, <1>6, <1>7, <1>8 DEF IInv

----------------------------------------------------------------------------
\* Where a block lies between what is past it and what is left of the array.
BlockOf(s, i, u) ==
  /\ u = block(s, i) /\ u \in [Lanes -> Value] /\ Ordered(u)
  /\ \A l \in Lanes : u[l] = s[i + l] /\ u[l] \in Int
  /\ \A k, l \in Lanes : k < l => u[k] < u[l]
  /\ Past(s, i + W) = Past(s, i) \cup LaneSet(u)
  /\ Rest(s, i) = Rest(s, i + W) \cup LaneSet(u)
  /\ \A x \in LaneSet(u) : x \in Int /\ u[1] <= x /\ x <= u[W]
  /\ \A x \in Past(s, i) : x \in Int /\ x < u[1]
  /\ \A x \in Rest(s, i + W) : x \in Int /\ x > u[W]
  /\ u[1] \in LaneSet(u) /\ u[W] \in LaneSet(u) /\ u[1] \in Int /\ u[W] \in Int
  /\ LaneSet(u) \subseteq Range(s) /\ Past(s, i) \subseteq Range(s) /\ Rest(s, i + W) \subseteq Range(s)

LEMMA BlockBounds ==
  ASSUME NEW s, Array(s), NEW i \in Nat, i + W <= Len(s), NEW u, u = block(s, i)
  PROVE  BlockOf(s, i, u)
<1>1. W \in Nat /\ 1 \in Lanes /\ W \in Lanes /\ i + W \in Nat
  BY Numbers DEF Lanes
<1>2. /\ u \in [Lanes -> Value] /\ Ordered(u)
      /\ \A l \in Lanes : u[l] = s[i + l]
      /\ \A k, l \in Lanes : k < l => u[k] < u[l]
      /\ Past(s, i + W) = Past(s, i) \cup LaneSet(u)
      /\ Rest(s, i) = Rest(s, i + W) \cup LaneSet(u)
      /\ \A l \in Lanes : u[l] <= u[W] /\ u[1] <= u[l]
  BY WholeBlock
<1>3. \A l \in Lanes : u[l] \in Int
  BY <1>2, Numbers
<1>4. /\ u[1] \in LaneSet(u) /\ u[W] \in LaneSet(u) /\ u[1] \in Int /\ u[W] \in Int
      /\ \A x \in LaneSet(u) : x \in Int /\ u[1] <= x /\ x <= u[W]
  BY <1>1, <1>2, <1>3 DEF LaneSet
<1>5. /\ Below(Past(s, i), Rest(s, i)) /\ Below(Past(s, i + W), Rest(s, i + W))
      /\ Past(s, i) \cup Rest(s, i) = Range(s) /\ Past(s, i + W) \cup Rest(s, i + W) = Range(s)
      /\ Range(s) \subseteq Value
  BY <1>1, RangeIs
<1>6. \A x \in Range(s) : x \in Int
  BY <1>5, Numbers
<1>7. \A x \in Past(s, i) : x \in Int /\ x < u[1]
  BY <1>2, <1>4, <1>5, <1>6 DEF Below
<1>8. \A x \in Rest(s, i + W) : x \in Int /\ x > u[W]
  <2>1. \A x \in Rest(s, i + W) : u[W] < x
    BY <1>2, <1>4, <1>5 DEF Below
  <2> QED
    BY <1>4, <1>5, <1>6, <2>1
<1>9. LaneSet(u) \subseteq Range(s) /\ Past(s, i) \subseteq Range(s) /\ Rest(s, i + W) \subseteq Range(s)
  BY <1>2, <1>5
<1> QED
  BY <1>2, <1>3, <1>4, <1>7, <1>8, <1>9 DEF BlockOf

\* One value of an array, as the scalar loops see it.
ValueOf(s, i, x) ==
  /\ x = s[i + 1] /\ x \in Value /\ x \in Int /\ x \in Range(s) /\ x \in Rest(s, i)
  /\ Past(s, i + 1) = Past(s, i) \cup {x}
  /\ Rest(s, i) = Rest(s, i + 1) \cup {x}
  /\ \A y \in Past(s, i) : y \in Int /\ y < x
  /\ \A y \in Rest(s, i + 1) : y \in Int /\ y > x
  /\ Past(s, i) \subseteq Range(s) /\ Rest(s, i + 1) \subseteq Range(s)

LEMMA ValueBounds ==
  ASSUME NEW s, Array(s), NEW i \in Nat, i < Len(s), NEW x, x = s[i + 1]
  PROVE  ValueOf(s, i, x)
<1>1. Len(s) \in Nat /\ i + 1 \in 1 .. Len(s) /\ i + 1 \in Nat /\ i + 1 <= Len(s)
  BY ArrayFacts
<1>2. x \in Value /\ x \in Int
  BY <1>1, ArrayFacts
<1>3. Passed(s, i, 1)
  BY <1>1, Moved
<1>4. \A l \in 1 .. 1 : l = 1
  OBVIOUS
<1>5. Past(s, i + 1) = Past(s, i) \cup {x} /\ Rest(s, i) = Rest(s, i + 1) \cup {x}
  <2>1. 1 \in 1 .. 1
    OBVIOUS
  <2>2. \A y : (\E l \in 1 .. 1 : y = s[i + l]) <=> y = x
    BY <1>4, <2>1
  <2>3. \A y : /\ y \in Past(s, i + 1) <=> y \in Past(s, i) \/ y = x
               /\ y \in Rest(s, i) <=> y \in Rest(s, i + 1) \/ y = x
    BY <1>3, <2>2 DEF Passed
  <2> QED
    BY <2>3
<1>6. /\ Below(Past(s, i), Rest(s, i)) /\ Below(Past(s, i + 1), Rest(s, i + 1))
      /\ Past(s, i) \cup Rest(s, i) = Range(s) /\ Past(s, i + 1) \cup Rest(s, i + 1) = Range(s)
      /\ Range(s) \subseteq Value
  BY <1>1, RangeIs
<1>7. \A y \in Range(s) : y \in Int
  BY <1>6, Numbers
<1>8. \A y \in Past(s, i) : y \in Int /\ y < x
  BY <1>5, <1>6, <1>7 DEF Below
<1>9. \A y \in Rest(s, i + 1) : y \in Int /\ y > x
  <2>1. \A y \in Rest(s, i + 1) : x < y
    BY <1>5, <1>6 DEF Below
  <2> QED
    BY <1>2, <1>6, <1>7, <2>1
<1> QED
  BY <1>2, <1>5, <1>6, <1>8, <1>9 DEF ValueOf

\* A store of the first of what is pending.
LEMMA StorePending ==
  ASSUME InputInv, OutInv, UNCHANGED call, NEW vals, Array(vals), Stored(vals),
         NEW before, NEW after, Pending(before),
         before = Range(vals) \cup after, Below(Range(vals), after)
  PROVE  /\ InputInv' /\ OutInv'
         /\ Range(out') \cup after = Result' /\ Below(Range(out'), after)
<1>1. Range(out) \cup before = Result /\ Below(Range(out), before)
  BY DEF Pending
<1>2. Range(vals) \subseteq Result /\ Below(Range(out), Range(vals)) /\ Below(Range(out), after)
  BY <1>1 DEF Below
<1>3. /\ InputInv' /\ OutInv' /\ Result' = Result
      /\ Range(out') = Range(out) \cup Range(vals)
  BY <1>2, StoreKeeps
<1>4. Range(out') \cup after = Result' /\ Below(Range(out'), after)
  BY <1>1, <1>2, <1>3 DEF Below
<1> QED
  BY <1>3, <1>4

\* What does not change in a call.
LEMMA SameCall ==
  ASSUME UNCHANGED call
  PROVE  /\ op' = op /\ cpu' = cpu /\ a' = a /\ b' = b /\ room' = room
         /\ na' = na /\ nb' = nb /\ A' = A /\ B' = B /\ Result' = Result
         /\ InputInv => InputInv'
<1>1. UNCHANGED << op, cpu, a, b, room >>
  BY DEF call
<1> QED
  BY <1>1 DEF na, nb, A, B, Result, InputInv

LEMMA IntersectBlockStep == IInv /\ IntersectBlock => IInv'
<1> SUFFICES ASSUME IInv, IntersectBlock PROVE IInv'
  OBVIOUS
<1>1. /\ phase = "merge" /\ op = "intersect" /\ UNCHANGED call /\ carry' = carry /\ prev' = prev /\ matched' = matched
      /\ ia' = ia_next
  BY DEF IntersectBlock
<1>2. /\ InputInv /\ OutInv /\ Array(a) /\ Array(b) /\ ia \in Nat /\ ib \in Nat
      /\ na \in Nat /\ nb \in Nat /\ na = Len(a) /\ nb = Len(b) /\ W \in Nat
      /\ ia + W <= na /\ ib + W <= nb /\ Pending(Rest(a, ia) \cap Rest(b, ib))
      /\ W \in Lanes /\ ia + W \in Nat /\ ib + W \in Nat /\ W >= 2
  BY <1>1, InputFacts, Numbers DEF IInv, InputInv, PlaceInv, IntersectInv, Lanes
<1> DEFINE u == block(a, ia)
           v == block(b, ib)
           hits == all_pairs(u, v)
           vals == compact(u, hits)
<1>3. BlockOf(a, ia, u) /\ BlockOf(b, ib, v)
  BY <1>2, BlockBounds
<1>4. /\ u \in [Lanes -> Value] /\ v \in [Lanes -> Value]
      /\ hits = {l \in Lanes : \E m \in Lanes : u[l] = v[m]}
  BY <1>3, AllPairs DEF BlockOf
<1>5. amax = u[W] /\ bmax = v[W] /\ amax \in Int /\ bmax \in Int
  BY <1>2, <1>3 DEF amax, bmax, BlockOf
<1>6. Array(vals) /\ Range(vals) = {u[l] : l \in hits}
  <2>1. hits \in SUBSET Lanes /\ \A k, l \in hits : k < l => u[k] < u[l]
    BY <1>3, <1>4 DEF BlockOf
  <2> HIDE DEF u, hits
  <2> QED
    BY <1>4, <2>1, Compacted
<1>7. Stored(IF hits = {} THEN << >> ELSE vals)
  <2>1. IF hits = {} THEN Keep ELSE Block(vals)
    BY DEF IntersectBlock
  <2> QED
    BY <2>1 DEF Stored
<1> DEFINE stored == IF hits = {} THEN << >> ELSE vals
<1>8. Array(stored) /\ Range(stored) = LaneSet(u) \cap LaneSet(v)
  <2>1. Array(stored) /\ Range(stored) = {u[l] : l \in hits}
    BY <1>6, EmptyArray
  <2>2. \A x : x \in {u[l] : l \in hits} <=> x \in LaneSet(u) /\ x \in LaneSet(v)
    BY <1>4 DEF LaneSet
  <2> QED
    BY <2>1, <2>2
<1>9. /\ ia' = IF amax <= bmax THEN ia + W ELSE ia
      /\ ib' = ib \/ (ib' = ib + W /\ bmax <= amax)
      /\ amax <= bmax \/ ib' = ib + W
      /\ \/ phase' = "scalar"
         \/ phase' = "merge" /\ ia' + W <= na /\ ib' + W <= nb
  <2>1. /\ ia_next = IF amax <= bmax THEN ia + W ELSE ia
        /\ ib_next = IF bmax <= amax THEN ib + W ELSE ib
    BY DEF ia_next, ib_next, passes
  <2>2. \/ ia_next # ia /\ ia_next + W > na /\ ib' = ib /\ phase' = "scalar"
        \/ /\ ~ (ia_next # ia /\ ia_next + W > na) /\ ib' = ib_next
           /\ phase' = IF ib_next # ib /\ ib_next + W > nb THEN "scalar" ELSE "merge"
    BY DEF IntersectBlock, Go
  <2>3. ia_next \in Nat /\ ib_next \in Nat
    BY <1>2, <2>1
  <2> QED
    BY <1>1, <1>2, <1>5, <2>1, <2>2, <2>3
<1> HIDE DEF u, v, hits, vals, stored
<1>10. ia' \in Nat /\ ib' \in Nat
  BY <1>2, <1>9
<1> DEFINE before == Rest(a, ia) \cap Rest(b, ib)
           after == Rest(a, ia') \cap Rest(b, ib')
<1>11. before = Range(stored) \cup after /\ Below(Range(stored), after)
  <2>1. /\ Rest(a, ia) = Rest(a, ia + W) \cup LaneSet(u)
        /\ Rest(b, ib) = Rest(b, ib + W) \cup LaneSet(v)
        /\ \A x \in LaneSet(u) : x \in Int /\ x <= amax
        /\ \A x \in LaneSet(v) : x \in Int /\ x <= bmax
        /\ \A x \in Rest(a, ia + W) : x \in Int /\ x > amax
        /\ \A x \in Rest(b, ib + W) : x \in Int /\ x > bmax
    BY <1>3, <1>5 DEF BlockOf
  <2>2. CASE amax <= bmax
    <3>1. ia' = ia + W /\ (ib' = ib \/ (ib' = ib + W /\ bmax <= amax))
      BY <1>9, <2>2
    <3>2. \A x : x \in LaneSet(u) => x \notin Rest(b, ib + W)
      BY <1>5, <2>1, <2>2
    <3>3. bmax <= amax => \A x : x \in Rest(a, ia + W) => x \notin LaneSet(v)
      BY <1>5, <2>1, <2>2
    <3>4. \A x : x \in before <=> x \in Range(stored) \cup after
      BY <1>8, <2>1, <3>1, <3>2, <3>3
    <3>5. \A x \in Range(stored), y \in after : x < y
      BY <1>5, <1>8, <2>1, <3>1
    <3> QED
      BY <3>4, <3>5 DEF Below
  <2>3. CASE ~ (amax <= bmax)
    <3>1. ia' = ia /\ ib' = ib + W
      BY <1>9, <2>3
    <3>2. \A x : x \in LaneSet(v) => x \notin Rest(a, ia + W)
      BY <1>5, <2>1, <2>3
    <3>3. \A x : x \in before <=> x \in Range(stored) \cup after
      BY <1>8, <2>1, <3>1, <3>2
    <3>4. \A x \in Range(stored), y \in after : x < y
      BY <1>5, <1>8, <2>1, <3>1
    <3> QED
      BY <3>3, <3>4 DEF Below
  <2> QED
    BY <2>2, <2>3
<1>12. Stored(stored)
  BY <1>7 DEF stored
<1>13. Pending(before)
  BY <1>2
<1> HIDE DEF before
<1>14. /\ InputInv' /\ OutInv'
       /\ Range(out') \cup after = Result' /\ Below(Range(out'), after)
  <2> HIDE DEF after
  <2> QED
    BY <1>1, <1>2, <1>8, <1>11, <1>12, <1>13, StorePending
<1>15. op' = "intersect" /\ a' = a /\ b' = b /\ na' = na /\ nb' = nb
  BY <1>1, SameCall
<1>16. PlaceInv'
  BY <1>1, <1>9, <1>10, <1>15 DEF IInv, PlaceInv
<1>17. IntersectInv'
  BY <1>14, <1>15 DEF IntersectInv, Pending
<1>18. DiffInv' /\ ScanInv' /\ UnionInv' /\ DoneInv'
  BY <1>9, <1>15 DEF DiffInv, ScanInv, UnionInv, DoneInv
<1> QED
  BY <1>14, <1>16, <1>17, <1>18 DEF IInv

\* The lanes of a's block that are in B, once b is past its maximum.
LEMMA DiffBlockStep == IInv /\ DiffBlock => IInv'
<1> SUFFICES ASSUME IInv, DiffBlock PROVE IInv'
  OBVIOUS
<1>1. /\ phase = "merge" /\ op = "diff" /\ UNCHANGED call /\ carry' = carry /\ prev' = prev
      /\ ia' = ia_next
  BY DEF DiffBlock
<1>2. /\ InputInv /\ OutInv /\ Array(a) /\ Array(b) /\ ia \in Nat /\ ib \in Nat
      /\ na \in Nat /\ nb \in Nat /\ na = Len(a) /\ nb = Len(b) /\ W \in Nat
      /\ ia + W <= na /\ ib + W <= nb /\ Pending(Rest(a, ia) \ B)
      /\ matched = {l \in Lanes : a[ia + l] \in Past(b, ib)}
      /\ Below(Past(b, ib), Rest(a, ia + W))
      /\ W \in Lanes /\ ia + W \in Nat /\ ib + W \in Nat /\ W >= 2
  BY <1>1, InputFacts, Numbers DEF IInv, InputInv, PlaceInv, DiffInv, Lanes
<1> DEFINE u == block(a, ia)
           v == block(b, ib)
           hits == all_pairs(u, v)
           vals == compact(u, Lanes \ found)
<1>3. BlockOf(a, ia, u) /\ BlockOf(b, ib, v)
  BY <1>2, BlockBounds
<1>4. /\ u \in [Lanes -> Value] /\ v \in [Lanes -> Value]
      /\ hits = {l \in Lanes : \E m \in Lanes : u[l] = v[m]}
  BY <1>3, AllPairs DEF BlockOf
<1>5. amax = u[W] /\ bmax = v[W] /\ amax \in Int /\ bmax \in Int
  BY <1>2, <1>3 DEF amax, bmax, BlockOf
<1>6. /\ found = matched \cup hits /\ found \subseteq Lanes
      /\ \A l \in Lanes : l \in found <=> u[l] \in Past(b, ib + W)
  <2>1. found = matched \cup hits
    BY DEF found
  <2>2. /\ \A l \in Lanes : u[l] = a[ia + l]
        /\ Past(b, ib + W) = Past(b, ib) \cup LaneSet(v)
    BY <1>3 DEF BlockOf
  <2>3. \A l \in Lanes : u[l] \in LaneSet(v) <=> \E m \in Lanes : u[l] = v[m]
    BY DEF LaneSet
  <2> QED
    BY <1>2, <1>4, <2>1, <2>2, <2>3
<1>7. Array(vals) /\ Range(vals) = {u[l] : l \in Lanes \ found}
  <2>1. Lanes \ found \in SUBSET Lanes /\ \A k, l \in Lanes \ found : k < l => u[k] < u[l]
    BY <1>3 DEF BlockOf
  <2> HIDE DEF u
  <2> QED
    BY <1>4, <2>1, Compacted
<1>8. /\ ia_next = IF amax <= bmax THEN ia + W ELSE ia
      /\ ib_next = IF bmax <= amax THEN ib + W ELSE ib
      /\ ia_next \in Nat /\ ib_next \in Nat
  BY <1>2 DEF ia_next, ib_next, passes
<1>9. /\ ia' = IF amax <= bmax THEN ia + W ELSE ia
      /\ ib' = ib \/ (ib' = ib + W /\ bmax <= amax)
      /\ amax <= bmax \/ ib' = ib + W
      /\ \/ phase' = "scalar" /\ amax <= bmax
         \/ phase' = "tail" /\ ~ (amax <= bmax)
         \/ phase' = "merge" /\ ia' + W <= na /\ ib' + W <= nb
  <2>1. \/ ia_next # ia /\ ia_next + W > na /\ ib' = (IF amax = bmax THEN ib + W ELSE ib) /\ phase' = "scalar"
        \/ /\ ~ (ia_next # ia /\ ia_next + W > na) /\ ib' = ib_next
           /\ phase' = IF ib_next # ib /\ ib_next + W > nb
                       THEN IF ia_next # ia THEN "scalar" ELSE "tail" ELSE "merge"
    BY DEF DiffBlock, Go
  <2> QED
    BY <1>1, <1>2, <1>5, <1>8, <2>1
<1>10. /\ amax <= bmax => Block(vals) /\ matched' = {}
       /\ ~ (amax <= bmax) => Keep /\ matched' = found
  <2>1. ia_next # ia <=> amax <= bmax
    BY <1>2, <1>8
  <2> QED
    BY <2>1 DEF DiffBlock
<1> HIDE DEF u, v, hits, vals
<1>11. ia' \in Nat /\ ib' \in Nat
  BY <1>2, <1>9
<1>12. /\ Rest(a, ia) = Rest(a, ia + W) \cup LaneSet(u)
       /\ Rest(b, ib) = Rest(b, ib + W) \cup LaneSet(v)
       /\ Past(b, ib + W) = Past(b, ib) \cup LaneSet(v)
       /\ \A x \in LaneSet(u) : x \in Int /\ x <= amax
       /\ \A x \in LaneSet(v) : x \in Int /\ x <= bmax
       /\ \A x \in Rest(a, ia + W) : x \in Int /\ x > amax
       /\ \A x \in Rest(b, ib + W) : x \in Int /\ x > bmax
  BY <1>3, <1>5 DEF BlockOf
<1>13. B = Past(b, ib + W) \cup Rest(b, ib + W)
  BY <1>2, RangeIs DEF B
<1>14. op' = "diff" /\ a' = a /\ b' = b /\ na' = na /\ nb' = nb /\ B' = B
  BY <1>1, SameCall
\* Nothing of b past here is among what is left of a.
<1>15. Below(Past(b, ib'), Rest(a, ia + W))
  <2>1. \A x \in LaneSet(v), y \in Rest(a, ia + W) : bmax <= amax => x < y
    BY <1>5, <1>12
  <2> QED
    BY <1>2, <1>9, <1>12, <2>1 DEF Below
<1>16. CASE amax <= bmax
  <2>1. ia' = ia + W /\ Block(vals) /\ matched' = {}
    BY <1>9, <1>10, <1>16
  <2>2. Range(vals) = LaneSet(u) \ B
    <3>1. \A x : x \in LaneSet(u) => x \notin Rest(b, ib + W)
      BY <1>5, <1>12, <1>16
    <3>2. \A l \in Lanes : u[l] \in LaneSet(u) /\ (l \in found <=> u[l] \in B)
      BY <1>6, <1>13, <3>1 DEF LaneSet
    <3>3. \A x : x \in Range(vals) <=> x \in LaneSet(u) /\ x \notin B
      BY <1>7, <3>2 DEF LaneSet
    <3> QED
      BY <3>3
  <2> DEFINE before == Rest(a, ia) \ B
             after == Rest(a, ia + W) \ B
  <2>3. before = Range(vals) \cup after
    BY <1>12, <2>2
  <2>4. Below(Range(vals), after)
    BY <1>5, <1>12, <2>2 DEF Below
  <2>5. Pending(before) /\ Stored(vals)
    BY <1>2, <2>1 DEF Stored
  <2> HIDE DEF before
  <2>6. /\ InputInv' /\ OutInv'
        /\ Range(out') \cup after = Result' /\ Below(Range(out'), after)
    <3> HIDE DEF after
    <3> QED
      BY <1>1, <1>2, <1>7, <2>3, <2>4, <2>5, StorePending
  <2>7. PlaceInv'
    BY <1>1, <1>9, <1>11, <1>14, <1>16, <2>1 DEF IInv, PlaceInv
  <2>8. DiffInv'
    <3>1. Pending(Rest(a, ia) \ B)'
      BY <1>14, <2>1, <2>6 DEF Pending
    <3>2. Below(Past(b, ib), Rest(a, ia))'
      BY <1>14, <1>15, <2>1
    <3>3. CASE phase' = "scalar"
      BY <3>1, <3>2, <3>3 DEF DiffInv
    <3>4. CASE phase' = "merge" /\ ia' + W <= na
      <4>1. BlockOf(a, ia', block(a, ia'))
        BY <1>2, <1>11, <3>4, BlockBounds
      <4>2. Rest(a, ia') = Rest(a, ia' + W) \cup LaneSet(block(a, ia'))
            /\ \A l \in Lanes : block(a, ia')[l] = a[ia' + l]
        BY <4>1 DEF BlockOf
      <4>3. Below(Past(b, ib'), Rest(a, ia' + W))
        BY <1>15, <2>1, <4>2 DEF Below
      <4>4. \A l \in Lanes : a[ia' + l] \in Rest(a, ia')
        BY <4>2 DEF LaneSet
      <4>5. \A l \in Lanes : a[ia' + l] \notin Past(b, ib')
        <5>1. ASSUME NEW l \in Lanes, a[ia' + l] \in Past(b, ib') PROVE FALSE
          <6>1. a[ia' + l] < a[ia' + l]
            BY <1>15, <2>1, <4>4, <5>1 DEF Below
          <6>2. a[ia' + l] \in Int
            <7>1. a[ia' + l] = block(a, ia')[l]
              BY <4>2
            <7> QED
              BY <4>1, <7>1 DEF BlockOf
          <6> QED
            BY <6>1, <6>2
        <5> QED
          BY <5>1
      <4>6. matched' = {l \in Lanes : a[ia' + l] \in Past(b, ib')}
        BY <2>1, <4>5
      <4> QED
        BY <1>14, <3>1, <3>4, <4>3, <4>6 DEF DiffInv
    <3> QED
      BY <1>9, <1>16, <3>3, <3>4
  <2>9. IntersectInv' /\ ScanInv' /\ UnionInv' /\ DoneInv'
    BY <1>9, <1>14 DEF IntersectInv, ScanInv, UnionInv, DoneInv
  <2> QED
    BY <2>6, <2>7, <2>8, <2>9 DEF IInv
<1>17. CASE ~ (amax <= bmax)
  <2>1. ia' = ia /\ ib' = ib + W /\ Keep /\ matched' = found
    BY <1>9, <1>10, <1>17
  <2>2. UNCHANGED << out, top >>
    BY <2>1 DEF Keep
  <2>3. InputInv' /\ Result' = Result
    BY <1>1, <1>2, SameCall
  <2>4. OutInv'
    BY <1>1, <1>2, <2>2, <2>3 DEF OutInv, Array, call
  <2>5. PlaceInv'
    BY <1>1, <1>6, <1>9, <1>11, <1>14, <1>17, <2>1, <2>2 DEF IInv, PlaceInv
  <2>6. DiffInv'
    <3>1. Pending(Rest(a, ia) \ B)'
      BY <1>2, <1>14, <2>1, <2>2, <2>3 DEF Pending
    <3>2. matched' = {l \in Lanes : a[ia + l] \in Past(b, ib + W)}
      <4>1. \A l \in Lanes : u[l] = a[ia + l]
        BY <1>3 DEF BlockOf
      <4> QED
        BY <1>6, <2>1, <4>1
    <3> QED
      BY <1>2, <1>9, <1>14, <1>15, <1>17, <2>1, <3>1, <3>2 DEF DiffInv
  <2>7. IntersectInv' /\ ScanInv' /\ UnionInv' /\ DoneInv'
    BY <1>9, <1>14 DEF IntersectInv, ScanInv, UnionInv, DoneInv
  <2> QED
    BY <2>3, <2>4, <2>5, <2>6, <2>7 DEF IInv
<1> QED
  BY <1>16, <1>17

LEMMA DiffTailStep == IInv /\ DiffTail => IInv'
<1> SUFFICES ASSUME IInv, DiffTail PROVE IInv'
  OBVIOUS
<1>1. /\ phase = "tail" /\ op = "diff" /\ UNCHANGED call /\ carry' = carry /\ prev' = prev /\ matched' = matched
      /\ ia' = ia + W /\ ib' = ib /\ phase' = "scalar"
      /\ Store(compact(block(a, ia), tail_lanes))
  BY DEF DiffTail, At, Go
<1>2. /\ InputInv /\ OutInv /\ Array(a) /\ Array(b) /\ ia \in Nat /\ ib \in Nat
      /\ na \in Nat /\ nb \in Nat /\ na = Len(a) /\ nb = Len(b) /\ W \in Nat
      /\ ia + W <= na /\ Pending(Rest(a, ia) \ B)
      /\ matched = {l \in Lanes : a[ia + l] \in Past(b, ib)}
      /\ Below(Past(b, ib), Rest(a, ia + W))
      /\ ia + W \in Nat
  BY <1>1, InputFacts, Numbers DEF IInv, InputInv, PlaceInv, DiffInv
<1> DEFINE u == block(a, ia)
           vals == compact(u, tail_lanes)
<1>3. BlockOf(a, ia, u)
  BY <1>2, BlockBounds
<1>4. \A l \in Lanes : l \in tail_lanes <=> u[l] \notin B
  <2>1. Range(SubSeq(b, ib + 1, nb)) = Rest(b, ib)
    BY <1>2, RestArray
  <2>2. B = Past(b, ib) \cup Rest(b, ib)
    BY <1>2, RangeIs DEF B
  <2>3. \A l \in Lanes : u[l] = a[ia + l]
    BY <1>3 DEF BlockOf
  <2>4. tail_lanes = {l \in Lanes \ matched : u[l] \notin Rest(b, ib)}
    BY <2>1 DEF tail_lanes
  <2> QED
    BY <1>2, <2>2, <2>3, <2>4
<1>5. tail_lanes \in SUBSET Lanes
  BY DEF tail_lanes
<1>6. Array(vals) /\ Range(vals) = {u[l] : l \in tail_lanes}
  <2>1. u \in [Lanes -> Value] /\ \A k, l \in tail_lanes : k < l => u[k] < u[l]
    BY <1>3, <1>5 DEF BlockOf
  <2> HIDE DEF u
  <2> QED
    BY <1>5, <2>1, Compacted
<1> HIDE DEF u, vals
<1>7. Range(vals) = LaneSet(u) \ B
  <2>1. \A x : x \in Range(vals) <=> x \in LaneSet(u) /\ x \notin B
    BY <1>4, <1>5, <1>6 DEF LaneSet
  <2> QED
    BY <2>1
<1>8. /\ Rest(a, ia) = Rest(a, ia + W) \cup LaneSet(u)
      /\ \A x \in LaneSet(u) : x \in Int /\ x <= u[W]
      /\ \A x \in Rest(a, ia + W) : x \in Int /\ x > u[W]
      /\ u[W] \in Int
  BY <1>3 DEF BlockOf
<1> DEFINE before == Rest(a, ia) \ B
           after == Rest(a, ia + W) \ B
<1>9. before = Range(vals) \cup after
  BY <1>7, <1>8
<1>10. Below(Range(vals), after)
  BY <1>7, <1>8 DEF Below
<1>11. Pending(before) /\ Stored(vals)
  BY <1>1, <1>2 DEF Stored, vals, u
<1> HIDE DEF before
<1>12. /\ InputInv' /\ OutInv'
       /\ Range(out') \cup after = Result' /\ Below(Range(out'), after)
  <2> HIDE DEF after
  <2> QED
    BY <1>1, <1>2, <1>6, <1>9, <1>10, <1>11, StorePending
<1>13. op' = "diff" /\ a' = a /\ b' = b /\ na' = na /\ nb' = nb /\ B' = B
  BY <1>1, SameCall
<1>14. PlaceInv'
  BY <1>1, <1>2, <1>13 DEF IInv, PlaceInv
<1>15. DiffInv'
  BY <1>1, <1>2, <1>12, <1>13 DEF DiffInv, Pending
<1>16. IntersectInv' /\ ScanInv' /\ UnionInv' /\ DoneInv'
  BY <1>1, <1>13 DEF IntersectInv, ScanInv, UnionInv, DoneInv
<1> QED
  BY <1>12, <1>14, <1>15, <1>16 DEF IInv

\* Copying a step that stores nothing.
LEMMA KeepsOut ==
  ASSUME InputInv, OutInv, UNCHANGED call, UNCHANGED << out, top >>
  PROVE  InputInv' /\ OutInv' /\ Result' = Result /\ Range(out') = Range(out)
<1>1. InputInv' /\ Result' = Result /\ room' = room
  BY SameCall
<1> QED
  BY <1>1 DEF OutInv, Array

LEMMA Halt ==
  ASSUME IInv, UNCHANGED call, phase' = "done", InputInv', OutInv', Range(out') = Result',
         ia' \in Nat, ib' \in Nat, matched' \subseteq Lanes, carry' \in Seq(Value), prev' \in Value
  PROVE  IInv'
<1>1. PlaceInv'
  BY DEF PlaceInv
<1>2. IntersectInv' /\ DiffInv' /\ ScanInv' /\ UnionInv' /\ DoneInv'
  BY DEF IntersectInv, DiffInv, ScanInv, UnionInv, DoneInv
<1> QED
  BY <1>1, <1>2 DEF IInv

LEMMA ScalarStep == IInv /\ Scalar => IInv'
<1> SUFFICES ASSUME IInv, Scalar PROVE IInv'
  OBVIOUS
<1> DEFINE x == a[ia + 1]
           y == b[ib + 1]
<1>1. /\ phase = "scalar" /\ phase' = "scalar" /\ ia < na /\ ib < nb /\ UNCHANGED call
      /\ carry' = carry /\ prev' = prev /\ matched' = matched
      /\ ia' = (IF x <= y THEN ia + 1 ELSE ia) /\ ib' = (IF y <= x THEN ib + 1 ELSE ib)
      /\ CASE op = "intersect" -> IF x = y THEN Store(<< x >>) ELSE Keep
           [] op = "union"     -> Store(<< Min({x, y}) >>)
           [] op = "diff"      -> IF x < y THEN Store(<< x >>) ELSE Keep
  BY DEF Scalar, At
<1>2. /\ InputInv /\ OutInv /\ Array(a) /\ Array(b) /\ ia \in Nat /\ ib \in Nat
      /\ na \in Nat /\ nb \in Nat /\ na = Len(a) /\ nb = Len(b)
      /\ op \in {"intersect", "union", "diff"}
  BY <1>1, InputFacts DEF IInv, InputInv, PlaceInv
<1>3. ValueOf(a, ia, x) /\ ValueOf(b, ib, y)
  BY <1>1, <1>2, ValueBounds
<1> HIDE DEF x, y
<1>4. /\ x \in Value /\ x \in Int /\ x \in A /\ y \in Value /\ y \in Int /\ y \in B
      /\ Past(a, ia + 1) = Past(a, ia) \cup {x} /\ Rest(a, ia) = Rest(a, ia + 1) \cup {x}
      /\ Past(b, ib + 1) = Past(b, ib) \cup {y} /\ Rest(b, ib) = Rest(b, ib + 1) \cup {y}
      /\ \A z \in Past(b, ib) : z \in Int /\ z < y
      /\ \A z \in Rest(a, ia + 1) : z \in Int /\ z > x
      /\ \A z \in Rest(b, ib + 1) : z \in Int /\ z > y
  BY <1>3 DEF ValueOf, A, B
<1>5. /\ Array(<< x >>) /\ Range(<< x >>) = {x} /\ Array(<< y >>) /\ Range(<< y >>) = {y}
      /\ Array(<< >>) /\ Range(<< >>) = {}
  BY <1>4, OneValue, EmptyArray
<1>6. ia' \in Nat /\ ib' \in Nat
  BY <1>1, <1>2
<1>7. op' = op /\ a' = a /\ b' = b /\ na' = na /\ nb' = nb /\ B' = B
  BY <1>1, SameCall
<1>8. PlaceInv'
  BY <1>1, <1>6, <1>7 DEF IInv, PlaceInv
<1>9. ScanInv' /\ DoneInv'
  BY <1>1 DEF ScanInv, DoneInv
<1>10. CASE op = "intersect"
  <2> DEFINE before == Rest(a, ia) \cap Rest(b, ib)
             after == Rest(a, ia') \cap Rest(b, ib')
             vals == IF x = y THEN << x >> ELSE << >>
  <2>1. Pending(before)
    BY <1>1, <1>10 DEF IInv, IntersectInv
  <2>2. Array(vals) /\ Range(vals) = IF x = y THEN {x} ELSE {}
    BY <1>5
  <2>3. Stored(vals)
    BY <1>1, <1>10 DEF Stored
  <2> HIDE DEF vals
  <2>4. before = Range(vals) \cup after /\ Below(Range(vals), after)
    <3>1. CASE x = y
      <4>1. after = Rest(a, ia + 1) \cap Rest(b, ib + 1) /\ Range(vals) = {x}
        BY <1>1, <1>4, <2>2, <3>1
      <4> HIDE DEF after
      <4>2. before = Range(vals) \cup after
        BY <1>4, <3>1, <4>1
      <4> QED
        BY <1>4, <4>1, <4>2 DEF Below
    <3>2. CASE x < y
      <4>1. after = Rest(a, ia + 1) \cap Rest(b, ib) /\ Range(vals) = {}
        BY <1>1, <1>4, <2>2, <3>2
      <4>2. x \notin Rest(b, ib)
        BY <1>4, <3>2
      <4> QED
        BY <1>4, <4>1, <4>2 DEF Below
    <3>3. CASE y < x
      <4>1. after = Rest(a, ia) \cap Rest(b, ib + 1) /\ Range(vals) = {}
        BY <1>1, <1>4, <2>2, <3>3
      <4>2. y \notin Rest(a, ia)
        BY <1>4, <3>3
      <4> QED
        BY <1>4, <4>1, <4>2 DEF Below
    <3> QED
      BY <1>4, <3>1, <3>2, <3>3
  <2> HIDE DEF before
  <2>5. /\ InputInv' /\ OutInv'
        /\ Range(out') \cup after = Result' /\ Below(Range(out'), after)
    <3> HIDE DEF after
    <3> QED
      BY <1>1, <1>2, <2>1, <2>2, <2>3, <2>4, StorePending
  <2>6. IntersectInv'
    BY <1>7, <2>5 DEF IntersectInv, Pending
  <2>7. DiffInv' /\ UnionInv'
    BY <1>7, <1>10 DEF DiffInv, UnionInv
  <2> QED
    BY <1>8, <1>9, <2>5, <2>6, <2>7 DEF IInv
<1>11. CASE op = "union"
  <2> DEFINE before == Rest(a, ia) \cup Rest(b, ib)
             after == Rest(a, ia') \cup Rest(b, ib')
             vals == << Min({x, y}) >>
  <2>1. Pending(before)
    BY <1>1, <1>11 DEF IInv, UnionInv
  <2>2. Min({x, y}) = (IF x <= y THEN x ELSE y)
    BY <1>4, TwoValues
  <2>3. Array(vals) /\ Range(vals) = {IF x <= y THEN x ELSE y}
    BY <1>5, <2>2
  <2>4. Stored(vals)
    BY <1>1, <1>11 DEF Stored
  <2> HIDE DEF vals
  <2>5. before = Range(vals) \cup after /\ Below(Range(vals), after)
    <3>1. CASE x = y
      <4>1. after = Rest(a, ia + 1) \cup Rest(b, ib + 1) /\ Range(vals) = {x}
        BY <1>1, <1>4, <2>3, <3>1
      <4> HIDE DEF after
      <4>2. before = Range(vals) \cup after
        BY <1>4, <3>1, <4>1
      <4> QED
        BY <1>4, <3>1, <4>1, <4>2 DEF Below
    <3>2. CASE x < y
      <4>1. after = Rest(a, ia + 1) \cup Rest(b, ib) /\ Range(vals) = {x}
        BY <1>1, <1>4, <2>3, <3>2
      <4> HIDE DEF after
      <4>2. before = Range(vals) \cup after
        BY <1>4, <4>1
      <4>3. \A z \in Rest(b, ib) : x < z
        BY <1>4, <3>2
      <4> QED
        BY <1>4, <4>1, <4>2, <4>3 DEF Below
    <3>3. CASE y < x
      <4>1. after = Rest(a, ia) \cup Rest(b, ib + 1) /\ Range(vals) = {y}
        BY <1>1, <1>4, <2>3, <3>3
      <4> HIDE DEF after
      <4>2. before = Range(vals) \cup after
        BY <1>4, <4>1
      <4>3. \A z \in Rest(a, ia) : y < z
        BY <1>4, <3>3
      <4> QED
        BY <1>4, <4>1, <4>2, <4>3 DEF Below
    <3> QED
      BY <1>4, <3>1, <3>2, <3>3
  <2> HIDE DEF before
  <2>6. /\ InputInv' /\ OutInv'
        /\ Range(out') \cup after = Result' /\ Below(Range(out'), after)
    <3> HIDE DEF after
    <3> QED
      BY <1>1, <1>2, <2>1, <2>3, <2>4, <2>5, StorePending
  <2>7. UnionInv'
    BY <1>1, <1>7, <2>6 DEF UnionInv, Pending
  <2>8. DiffInv' /\ IntersectInv'
    BY <1>7, <1>11 DEF DiffInv, IntersectInv
  <2> QED
    BY <1>8, <1>9, <2>6, <2>7, <2>8 DEF IInv
<1>12. CASE op = "diff"
  <2> DEFINE before == Rest(a, ia) \ B
             after == Rest(a, ia') \ B
             vals == IF x < y THEN << x >> ELSE << >>
  <2>1. Pending(before) /\ Below(Past(b, ib), Rest(a, ia))
    BY <1>1, <1>12 DEF IInv, DiffInv
  <2>2. Array(vals) /\ Range(vals) = IF x < y THEN {x} ELSE {}
    BY <1>5
  <2>3. Stored(vals)
    BY <1>1, <1>12 DEF Stored
  <2> HIDE DEF vals
  <2>4. B = Past(b, ib) \cup Rest(b, ib)
    BY <1>2, RangeIs DEF B
  <2>5. /\ before = Range(vals) \cup after /\ Below(Range(vals), after)
        /\ Below(Past(b, ib'), Rest(a, ia'))
    <3>1. CASE x = y
      <4>1. after = Rest(a, ia + 1) \ B /\ Range(vals) = {} /\ ia' = ia + 1 /\ ib' = ib + 1
        BY <1>1, <1>4, <2>2, <3>1
      <4>2. Below(Past(b, ib + 1), Rest(a, ia + 1))
        BY <1>4, <2>1, <3>1 DEF Below
      <4> QED
        BY <1>4, <3>1, <4>1, <4>2 DEF Below
    <3>2. CASE x < y
      <4>1. after = Rest(a, ia + 1) \ B /\ Range(vals) = {x} /\ ia' = ia + 1 /\ ib' = ib
        BY <1>1, <1>4, <2>2, <3>2
      <4>2. x \notin B
        <5>1. x \notin Rest(b, ib)
          BY <1>4, <3>2
        <5>2. x \notin Past(b, ib)
          BY <1>4, <2>1 DEF Below
        <5> QED
          BY <2>4, <5>1, <5>2
      <4>3. \A p \in Past(b, ib), q \in Rest(a, ia + 1) : p < q
        BY <1>4, <2>1 DEF Below
      <4> QED
        BY <1>4, <4>1, <4>2, <4>3 DEF Below
    <3>3. CASE y < x
      <4>1. after = Rest(a, ia) \ B /\ Range(vals) = {} /\ ia' = ia /\ ib' = ib + 1
        BY <1>1, <1>4, <2>2, <3>3
      <4>2. \A p \in Past(b, ib + 1), q \in Rest(a, ia) : p < q
        BY <1>4, <2>1, <3>3 DEF Below
      <4> QED
        BY <4>1, <4>2 DEF Below
    <3> QED
      BY <1>4, <3>1, <3>2, <3>3
  <2> HIDE DEF before
  <2>6. /\ InputInv' /\ OutInv'
        /\ Range(out') \cup after = Result' /\ Below(Range(out'), after)
    <3> HIDE DEF after
    <3> QED
      BY <1>1, <1>2, <2>1, <2>2, <2>3, <2>5, StorePending
  <2>7. DiffInv'
    BY <1>1, <1>7, <2>5, <2>6 DEF DiffInv, Pending
  <2>8. UnionInv' /\ IntersectInv'
    BY <1>7, <1>12 DEF UnionInv, IntersectInv
  <2> QED
    BY <1>8, <1>9, <2>6, <2>7, <2>8 DEF IInv
<1> QED
  BY <1>2, <1>10, <1>11, <1>12

LEMMA ScalarDoneStep == IInv /\ ScalarDone => IInv'
<1> SUFFICES ASSUME IInv, ScalarDone PROVE IInv'
  OBVIOUS
<1>1. /\ phase = "scalar" /\ phase' = "done" /\ ~ (ia < na /\ ib < nb) /\ UNCHANGED call
      /\ carry' = carry /\ prev' = prev /\ matched' = matched
      /\ ia' = na /\ ib' = nb
      /\ CASE op = "intersect" -> Keep
           [] op = "union"     -> Store(SubSeq(a, ia + 1, na) \o SubSeq(b, ib + 1, nb))
           [] op = "diff"      -> Store(SubSeq(a, ia + 1, na))
  BY DEF ScalarDone, At, Go
<1>2. /\ InputInv /\ OutInv /\ Array(a) /\ Array(b) /\ ia \in Nat /\ ib \in Nat
      /\ na \in Nat /\ nb \in Nat /\ na = Len(a) /\ nb = Len(b)
      /\ op \in {"intersect", "union", "diff"}
      /\ matched \subseteq Lanes /\ carry \in Seq(Value) /\ prev \in Value
  BY <1>1, InputFacts DEF IInv, InputInv, PlaceInv
<1> DEFINE s == SubSeq(a, ia + 1, na)
           t == SubSeq(b, ib + 1, nb)
<1>3. Array(s) /\ Range(s) = Rest(a, ia) /\ Array(t) /\ Range(t) = Rest(b, ib)
  BY <1>2, RestArray
<1> HIDE DEF s, t
<1>4. Rest(a, ia) = {} \/ Rest(b, ib) = {}
  BY <1>1, <1>2, RangeIs
<1>5. Array(<< >>) /\ Range(<< >>) = {}
  BY EmptyArray
<1>6. ASSUME NEW vals, Array(vals), Stored(vals), Pending(Range(vals)) PROVE IInv'
  <2>1. Range(vals) = Range(vals) \cup {} /\ Below(Range(vals), {})
    BY DEF Below
  <2>2. InputInv' /\ OutInv' /\ Range(out') \cup {} = Result'
    BY <1>1, <1>2, <1>6, <2>1, StorePending
  <2> QED
    BY <1>1, <1>2, <2>2, Halt
<1>7. CASE op = "intersect"
  <2>1. Pending(Range(<< >>))
    <3>1. Pending(Rest(a, ia) \cap Rest(b, ib))
      BY <1>1, <1>7 DEF IInv, IntersectInv
    <3>2. Rest(a, ia) \cap Rest(b, ib) = Range(<< >>)
      BY <1>4, <1>5
    <3> QED
      BY <3>1, <3>2
  <2>2. Stored(<< >>)
    BY <1>1, <1>7 DEF Stored
  <2> QED
    BY <1>5, <1>6, <2>1, <2>2
<1>8. CASE op = "union"
  <2>1. Pending(Rest(a, ia) \cup Rest(b, ib))
    BY <1>1, <1>8 DEF IInv, UnionInv
  <2>2. Below(Range(s), Range(t))
    BY <1>3, <1>4 DEF Below
  <2>3. Array(s \o t) /\ Range(s \o t) = Rest(a, ia) \cup Rest(b, ib)
    BY <1>3, <2>2, Joined
  <2>4. Stored(s \o t)
    BY <1>1, <1>8 DEF Stored, s, t
  <2> QED
    BY <1>6, <2>1, <2>3, <2>4
<1>9. CASE op = "diff"
  <2>1. Pending(Rest(a, ia) \ B) /\ Below(Past(b, ib), Rest(a, ia))
    BY <1>1, <1>9 DEF IInv, DiffInv
  <2>2. B = Past(b, ib) \cup Rest(b, ib) /\ Rest(a, ia) \subseteq A
    BY <1>2, RangeIs DEF A, B
  <2>3. Rest(a, ia) \ B = Range(s)
    <3>1. ASSUME NEW x \in Rest(a, ia) PROVE x \notin B
      <4>1. x \notin Rest(b, ib)
        BY <1>4, <3>1
      <4>2. x \notin Past(b, ib)
        <5>1. x \in Int
          BY <1>2, <2>2, InputFacts
        <5>2. x \in Past(b, ib) => x < x
          BY <2>1, <3>1 DEF Below
        <5> QED
          BY <5>1, <5>2
      <4> QED
        BY <2>2, <4>1, <4>2
    <3> QED
      BY <1>3, <3>1
  <2>4. Stored(s)
    BY <1>1, <1>9 DEF Stored, s
  <2> QED
    BY <1>3, <1>6, <2>1, <2>3, <2>4
<1> QED
  BY <1>2, <1>7, <1>8, <1>9

\* The two ends of an array.
LEMMA Ends ==
  ASSUME NEW s, Array(s), s # << >>
  PROVE  /\ Len(s) \in Nat /\ Len(s) >= 1 /\ s[1] \in Int /\ s[Len(s)] \in Int
         /\ s[1] \in Range(s) /\ s[Len(s)] \in Range(s)
         /\ \A x \in Range(s) : x \in Int /\ s[1] <= x /\ x <= s[Len(s)]
<1>1. s \in Seq(Value) /\ Len(s) \in Nat
  BY ArrayFacts
<1>2. PICK n \in Nat : n = Len(s)
  BY <1>1
<1>3. n >= 1
  BY <1>1, <1>2, EmptySeq
<1>4. 1 \in 1 .. n /\ n \in 1 .. n /\ \A k \in 1 .. n : k \in Int /\ (k = 1 \/ 1 < k) /\ (k = n \/ k < n)
  BY <1>3
<1>5. \A k \in 1 .. n : s[k] \in Int
  BY <1>2, ArrayFacts
<1>6. \A k \in 1 .. n : s[1] <= s[k] /\ s[k] <= s[n]
  <2>1. TAKE k \in 1 .. n
  <2>2. (1 < k => s[1] < s[k]) /\ (k < n => s[k] < s[n])
    BY <1>2, <1>4, ArrayFacts
  <2> QED
    BY <1>4, <1>5, <2>2
<1>7. \A x : x \in Range(s) <=> \E k \in 1 .. n : x = s[k]
  BY <1>2, RangeIs
<1> QED
  BY <1>2, <1>3, <1>4, <1>5, <1>6, <1>7

\* The two sides of a scan, and what of the first is in the result.
LEMMA Sides ==
  ASSUME InputInv, op # "union"
  PROVE  /\ Array(rare) /\ Array(freq) /\ nf \in Nat /\ nf = Len(freq)
         /\ Result \subseteq Range(rare)
         /\ \A x \in Range(rare) : x \in Value /\ x \in Int /\ (x \in Result <=> (x \in Range(freq) <=> op = "intersect"))
         /\ op = "diff" => rare = a /\ freq = b
         /\ UNCHANGED call => rare' = rare /\ freq' = freq /\ nf' = nf
<1>1. Array(a) /\ Array(b) /\ na \in Nat /\ nb \in Nat /\ op \in {"intersect", "diff"}
  BY InputFacts DEF InputInv
<1>2. (rare = a /\ freq = b) \/ (op = "intersect" /\ rare = b /\ freq = a)
  BY <1>1 DEF rare, freq
<1>3. Array(rare) /\ Array(freq)
  BY <1>1, <1>2
<1>4. nf \in Nat /\ nf = Len(freq)
  BY <1>3, ArrayFacts DEF nf
<1>5. \A x \in Range(rare) : x \in Value /\ x \in Int
  BY <1>3, RangeIs, Numbers
<1>6. /\ Result \subseteq Range(rare)
      /\ \A x \in Range(rare) : x \in Result <=> (x \in Range(freq) <=> op = "intersect")
  BY <1>1, <1>2 DEF Result, A, B
<1>7. op = "diff" => rare = a /\ freq = b
  BY <1>2
<1>8. UNCHANGED call => rare' = rare /\ freq' = freq /\ nf' = nf
  BY SameCall DEF rare, freq, nf
<1> QED
  BY <1>3, <1>4, <1>5, <1>6, <1>7, <1>8

LEMMA CallStep == IInv /\ Call => IInv'
<1> SUFFICES ASSUME IInv, Call PROVE IInv'
  OBVIOUS
<1>1. /\ phase = "call" /\ UNCHANGED call /\ UNCHANGED << out, top >>
      /\ ia' = ia /\ ib' = ib /\ matched' = matched /\ carry' = carry /\ prev' = prev
      /\ phase' = (IF op = "intersect" /\ disjoint THEN "done"
                   ELSE IF op = "intersect" /\ skewed THEN "gallop"
                   ELSE IF cpu \in {"neon", "avx2"} /\ balanced THEN "merge"
                   ELSE IF op # "union" /\ cpu # "other" THEN "scan"
                   ELSE "scalar")
  BY DEF Call, Go
<1>2. /\ InputInv /\ OutInv /\ Array(a) /\ Array(b) /\ a # << >>
      /\ na \in Nat /\ nb \in Nat /\ na = Len(a) /\ nb = Len(b)
      /\ op \in {"intersect", "union", "diff"}
      /\ ia = 0 /\ ib = 0 /\ matched = {} /\ carry = << >> /\ prev = LAST /\ out = << >>
  BY <1>1, InputFacts DEF IInv, InputInv, PlaceInv
<1>3. op' = op /\ a' = a /\ b' = b /\ na' = na /\ nb' = nb /\ A' = A /\ B' = B /\ Result' = Result
  BY <1>1, SameCall
<1>4. InputInv' /\ OutInv'
  BY <1>1, <1>2, KeepsOut
<1>5. LAST \in Value /\ << >> \in Seq(Value) /\ 0 \in Nat
  BY Numbers, EmptySeq DEF Value
<1>6. Range(out) = {} /\ out' = << >> /\ Range(out') = {}
  BY <1>1, <1>2, EmptyArray
<1>7. CASE op = "intersect" /\ disjoint
  <2>1. b # << >>
    BY <1>2, <1>7 DEF InputInv
  <2>2. \A x \in A : x \in Int /\ a[1] <= x /\ x <= a[na]
    BY <1>2, Ends DEF A
  <2>3. \A x \in B : x \in Int /\ b[1] <= x /\ x <= b[nb]
    BY <1>2, <2>1, Ends DEF B
  <2>4. a[1] \in Int /\ a[na] \in Int /\ b[1] \in Int /\ b[nb] \in Int
    BY <1>2, <2>1, Ends
  <2>5. ASSUME NEW x \in A, x \in B PROVE FALSE
    BY <1>7, <2>2, <2>3, <2>4, <2>5 DEF disjoint
  <2>6. Result = {}
    BY <1>7, <2>5 DEF Result
  <2> QED
    BY <1>1, <1>2, <1>3, <1>4, <1>5, <1>6, <1>7, <2>6, Halt
<1>8. CASE ~ (op = "intersect" /\ disjoint)
  <2>1. phase' \in {"gallop", "merge", "scan", "scalar"}
    BY <1>1, <1>8
  <2>2. /\ phase' = "gallop" => op = "intersect"
        /\ phase' = "merge" => balanced
        /\ phase' = "scan" => op # "union"
    BY <1>1, <1>8
  <2>3. balanced => W <= na /\ W <= nb
    <3>1. lo = (IF na <= nb THEN na ELSE nb)
      BY <1>2, TwoValues DEF lo
    <3> QED
      BY <1>2, <3>1, Numbers DEF balanced
  <2>4. W \in Nat /\ W >= 2 /\ 0 + W = W /\ 0 % W = 0
    BY Numbers
  <2>5. PlaceInv'
    BY <1>1, <1>2, <1>3, <1>5, <2>1, <2>2, <2>3, <2>4 DEF PlaceInv
  <2>6. /\ Rest(a, 0) = A /\ Rest(b, 0) = B /\ Past(b, 0) = {}
    BY <1>2, RangeIs DEF A, B
  <2>9. IntersectInv'
    <3>1. ASSUME op = "intersect" PROVE (Pending(Rest(a, ia) \cap Rest(b, ib)))'
      <4>1. A \cap B = Result
        BY <3>1 DEF Result
      <4> QED
        BY <1>1, <1>2, <1>3, <1>6, <2>6, <4>1 DEF Pending, Below
    <3> QED
      BY <1>3, <3>1 DEF IntersectInv
  <2>10. DiffInv'
    <3>1. ASSUME op = "diff" PROVE (Pending(Rest(a, ia) \ B))'
      <4>1. A \ B = Result
        BY <3>1 DEF Result
      <4> QED
        BY <1>1, <1>2, <1>3, <1>6, <2>6, <4>1 DEF Pending, Below
    <3>2. (matched = {l \in Lanes : a[ia + l] \in Past(b, ib)})'
      BY <1>1, <1>2, <1>3, <2>6
    <3>3. /\ (Below(Past(b, ib), Rest(a, ia + W)))'
          /\ (Below(Past(b, ib), Rest(a, ia)))'
      BY <1>1, <1>2, <1>3, <2>6 DEF Below
    <3>4. phase' = "merge" => ia' + W <= na'
      BY <1>1, <1>2, <1>3, <2>2, <2>3, <2>4
    <3> QED
      BY <1>3, <2>1, <3>1, <3>2, <3>3, <3>4 DEF DiffInv
  <2>11. ScanInv'
    <3> SUFFICES ASSUME phase' \in {"scan", "gallop"}
                 PROVE  (/\ ib <= nf /\ Below(Past(freq, ib), Rest(rare, ia))
                         /\ Pending(Rest(rare, ia) \cap Result))'
      BY DEF ScanInv
    <3>1. op # "union"
      BY <2>2
    <3>2. /\ Array(rare) /\ Array(freq) /\ nf \in Nat /\ Result \subseteq Range(rare)
          /\ rare' = rare /\ freq' = freq /\ nf' = nf
      BY <1>1, <1>2, <3>1, Sides
    <3>3. Rest(rare, 0) = Range(rare) /\ Past(freq, 0) = {}
      BY <3>2, RangeIs
    <3>4. (ib <= nf)' /\ (Below(Past(freq, ib), Rest(rare, ia)))'
      BY <1>1, <1>2, <3>2, <3>3 DEF Below
    <3>5. Rest(rare, 0) \cap Result = Result
      BY <3>2, <3>3
    <3>6. (Pending(Rest(rare, ia) \cap Result))'
      BY <1>1, <1>2, <1>3, <1>6, <3>2, <3>5 DEF Pending, Below
    <3> QED
      BY <3>4, <3>6
  <2>12. UnionInv'
    <3>1. ASSUME op = "union" PROVE (Pending(Rest(a, ia) \cup Rest(b, ib)))'
      <4>1. A \cup B = Result
        BY <3>1 DEF Result
      <4> QED
        BY <1>1, <1>2, <1>3, <1>6, <2>6, <4>1 DEF Pending, Below
    <3> QED
      BY <1>1, <1>2, <1>3, <1>6, <2>1, <2>4, <3>1 DEF UnionInv
  <2>13. DoneInv'
    BY <2>1 DEF DoneInv
  <2> QED
    BY <1>4, <2>5, <2>9, <2>10, <2>11, <2>12, <2>13 DEF IInv
<1> QED
  BY <1>7, <1>8

----------------------------------------------------------------------------
\* Whole windows and whole blocks.
LEMMA Product ==
  ASSUME NEW w \in Nat, w >= 1, NEW q \in Nat
  PROVE  w * q \in Nat /\ (w * q) % w = 0
<1>1. w * q \in Nat /\ (w * q + 0) % w = 0
  OBVIOUS
<1> QED
  BY <1>1

LEMMA Divided ==
  ASSUME NEW w \in Nat, w >= 1, NEW x \in Nat, NEW q, q = x \div w, NEW r, r = x % w
  PROVE  q \in Nat /\ r \in Nat /\ r < w /\ x = w * q + r
<1>1. q \in Int /\ r \in Int /\ r >= 0 /\ r < w
  OBVIOUS
<1>2. x = w * q + r
  BY <1>1
<1>3. ASSUME q < 0 PROVE FALSE
  <2>1. 0 - q - 1 \in Nat /\ q = 0 - (0 - q - 1) - 1
    BY <1>1, <1>3
  <2>2. PICK p \in Nat : q = 0 - p - 1
    BY <2>1
  <2>3. w * q = 0 - w * p - w /\ w * p \in Nat
    BY <2>2
  <2> QED
    BY <1>1, <1>2, <2>3
<1> QED
  BY <1>1, <1>2, <1>3

\* The last place a whole number of steps on that a step more would pass.
LEMMA LastWhole ==
  ASSUME NEW w \in Nat, w >= 1, NEW i \in Nat, NEW n \in Nat, i <= n
  PROVE  \E f \in i .. n : (f - i) % w = 0 /\ f + w > n
<1>1. PICK x \in Nat : x = n - i
  OBVIOUS
<1>2. PICK q, r : q \in Nat /\ r \in Nat /\ r < w /\ x = w * q + r
  <2>1. \A q, r : q = x \div w /\ r = x % w => q \in Nat /\ r \in Nat /\ r < w /\ x = w * q + r
    BY Divided
  <2> QED
    BY <2>1
<1>3. PICK p : p \in Nat /\ p = w * q /\ p % w = 0
  BY <1>2, Product
<1>4. i + p \in i .. n /\ (i + p) + w > n /\ (i + p) - i = p
  BY <1>1, <1>2, <1>3
<1> QED
  BY <1>3, <1>4

\* A whole number of steps, one step back,
LEMMA StepBack ==
  ASSUME NEW w \in Nat, w >= 1, NEW x \in Nat, x % w = 0, x # 0
  PROVE  x >= w /\ (x - w) % w = 0
<1>1. PICK q, r : q \in Nat /\ r = 0 /\ x = w * q + r
  <2>1. \A q, r : q = x \div w /\ r = x % w => q \in Nat /\ r \in Nat /\ r < w /\ x = w * q + r
    BY Divided
  <2> QED
    BY <2>1
<1>2. q # 0
  BY <1>1
<1>3. PICK p \in Nat : q = p + 1
  <2>1. q - 1 \in Nat /\ q = (q - 1) + 1
    BY <1>1, <1>2
  <2> QED
    BY <2>1
<1>4. x = w * p + w /\ x - w = w * p /\ w * p \in Nat
  BY <1>1, <1>3
<1> QED
  BY <1>4, Product

\* ... and one step on.
LEMMA StepOn ==
  ASSUME NEW w \in Nat, w >= 1, NEW x \in Nat, x % w = 0
  PROVE  (x + w) % w = 0
<1>1. PICK q, r : q \in Nat /\ r = 0 /\ x = w * q + r
  <2>1. \A q, r : q = x \div w /\ r = x % w => q \in Nat /\ r \in Nat /\ r < w /\ x = w * q + r
    BY Divided
  <2> QED
    BY <2>1
<1>2. q + 1 \in Nat /\ x + w = w * (q + 1)
  BY <1>1
<1> QED
  BY <1>2, Product

\* A side with a whole block left has room for it.
LEMMA WholeLeft ==
  ASSUME NEW w \in Nat, w >= 1, NEW i \in Nat, NEW n \in Nat, i % w = 0, i \div w < n \div w
  PROVE  i + w <= n
<1>1. PICK p, r : p = i \div w /\ p \in Nat /\ r = 0 /\ i = w * p + r
  <2>1. \A q, r : q = i \div w /\ r = i % w => q \in Nat /\ r \in Nat /\ r < w /\ i = w * q + r
    BY Divided
  <2> QED
    BY <2>1
<1>2. PICK q, s : q = n \div w /\ q \in Nat /\ s \in Nat /\ n = w * q + s
  <2>1. \A u, v : u = n \div w /\ v = n % w => u \in Nat /\ v \in Nat /\ v < w /\ n = w * u + v
    BY Divided
  <2> QED
    BY <2>1
<1>3. PICK d \in Nat : q = p + 1 + d
  <2>1. q - p - 1 \in Nat /\ q = p + 1 + (q - p - 1)
    BY <1>1, <1>2
  <2> QED
    BY <2>1
<1>4. w * q = w * p + w + w * d /\ w * d \in Nat
  BY <1>1, <1>3
<1> QED
  BY <1>1, <1>2, <1>4

\* The least of a set of naturals.
LEMMA LeastIs ==
  ASSUME NEW S \in SUBSET Nat, S # {}
  PROVE  Min(S) \in S /\ \A m \in S : Min(S) <= m
<1>1. PICK n \in S : \A m \in S : ~ (<< m, n >> \in OpToRel(<, Nat))
  BY WFMin, NatLessThanWellFounded
<1>2. \A m \in S : ~ (m < n)
  BY <1>1 DEF OpToRel
<1>3. \E k \in S : \A m \in S : k <= m
  BY <1>2
<1> HIDE <1>1, <1>2
<1> QED
  BY <1>3 DEF Min

\* Where a scan stops for a value: all before is below it, and it finds the
\* value if it is there.
Sought(v, f) ==
  /\ f \in ib .. nf
  /\ \A k \in 1 .. f : freq[k] < v
  /\ has(f, v) <=> v \in Range(freq)

LEMMA SeekFinds ==
  ASSUME Array(freq), nf = Len(freq), ib \in Nat, ib <= nf,
         NEW v \in Int, \A k \in 1 .. ib : freq[k] < v
  PROVE  Sought(v, seek(v))
<1>1. PICK n \in Nat : n = nf /\ n = Len(freq)
  BY ArrayFacts
<1>2. PICK w \in Nat : w = width /\ w >= 1
  <2>1. 2 * W \in Nat /\ 2 * W >= 1 /\ W >= 1
    BY Numbers
  <2> QED
    BY <2>1, Numbers DEF width
<1>3. \A k \in 1 .. n : freq[k] \in Int
  BY <1>1, ArrayFacts
<1>4. \A j, k \in 1 .. n : j <= k => freq[j] <= freq[k]
  <2>1. TAKE j, k \in 1 .. n
  <2>2. j <= k => j < k \/ j = k
    OBVIOUS
  <2>3. j < k => freq[j] < freq[k]
    BY <1>1, ArrayFacts
  <2> QED
    BY <1>3, <2>2, <2>3
<1> DEFINE F == {f \in ib .. nf : /\ (f - ib) % width = 0
                                  /\ f + width <= nf => ~behind(freq[f + width], v)}
           g == Min(F)
<1>5. F \in SUBSET Nat /\ F # {}
  <2>1. PICK f \in ib .. n : (f - ib) % w = 0 /\ f + w > n
    BY <1>1, <1>2, LastWhole
  <2>2. ~ (f + w <= n)
    BY <1>2, <2>1
  <2>3. f \in F
    BY <1>1, <1>2, <2>1, <2>2
  <2>4. F \in SUBSET Nat
    <3>1. ib .. nf \subseteq Nat
      BY <1>1
    <3> QED
      BY <3>1
  <2> QED
    BY <2>3, <2>4
<1>6. g \in F /\ \A m \in F : g <= m
  <2> HIDE DEF F
  <2> QED
    BY <1>5, LeastIs
<1>7. g = window(v)
  BY DEF window
<1>8. /\ g \in ib .. n /\ (g - ib) % w = 0
      /\ g + w <= n => ~ (freq[g + w] < v)
      /\ \A f \in ib .. n : f < g /\ (f - ib) % w = 0 => f + w <= n /\ freq[f + w] < v
  <2>1. \A f \in ib .. n : f < g => f \notin F
    BY <1>1, <1>6
  <2> QED
    BY <1>1, <1>2, <1>6, <2>1 DEF behind
<1> HIDE DEF g, F
<1>9. \A k \in 1 .. g : k \in 1 .. n /\ freq[k] < v
  <2>1. TAKE k \in 1 .. g
  <2>2. k \in 1 .. n /\ g \in Nat
    BY <1>1, <1>8
  <2>3. CASE k <= ib
    BY <2>2, <2>3
  <2>4. CASE k > ib
    <3>1. PICK x \in Nat : x = g - ib
      BY <1>8, <2>2, <2>4
    <3>2. x # 0
      BY <2>2, <2>4, <3>1
    <3>3. x >= w /\ (x - w) % w = 0
      BY <1>2, <1>8, <3>1, <3>2, StepBack
    <3>4. g - w \in ib .. n /\ g - w < g /\ (g - w) - ib = x - w /\ (g - w) + w = g /\ g \in 1 .. n
      BY <1>1, <1>2, <1>8, <2>2, <3>1, <3>3
    <3>5. freq[g] < v
      BY <1>8, <3>3, <3>4
    <3>6. freq[k] <= freq[g]
      BY <1>4, <2>2, <3>4
    <3> QED
      BY <1>3, <2>2, <3>4, <3>5, <3>6
  <2> QED
    BY <2>2, <2>3, <2>4
<1>10. \A x : x \in Range(freq) <=> \E k \in 1 .. n : x = freq[k]
  BY <1>1, RangeIs
<1>11. CASE g + w <= n
  <2>1. seek(v) = g
    BY <1>1, <1>2, <1>7, <1>11 DEF seek
  <2>2. has(g, v) <=> \E l \in 1 .. w : freq[g + l] = v
    BY <1>1, <1>2, <1>11 DEF has
  <2>3. \A l \in 1 .. w : g + l \in 1 .. n
    BY <1>8, <1>11
  <2>4. ASSUME NEW k \in 1 .. n, v = freq[k] PROVE k - g \in 1 .. w /\ g + (k - g) = k
    <3>1. g + w \in 1 .. n /\ g \in Nat
      BY <1>1, <1>2, <1>8, <1>11
    <3>2. ~ (k <= g)
      BY <1>3, <1>9, <2>4, <3>1
    <3>3. k <= g + w
      <4>1. ~ (freq[g + w] < freq[k])
        BY <1>8, <1>11, <2>4
      <4> QED
        BY <1>1, <2>4, <3>1, <4>1, ArrayFacts
    <3> QED
      BY <3>1, <3>2, <3>3
  <2>5. has(g, v) <=> v \in Range(freq)
    BY <1>10, <2>2, <2>3, <2>4
  <2> QED
    BY <1>1, <1>8, <1>9, <2>1, <2>5 DEF Sought
<1>12. CASE ~ (g + w <= n)
  <2> DEFINE G == {h \in g .. nf : h < nf => freq[h + 1] >= v}
             f == Min(G)
  <2>1. G \in SUBSET Nat /\ n \in G
    BY <1>1, <1>8
  <2>2. f \in G /\ \A m \in G : f <= m
    <3> HIDE DEF G
    <3> QED
      BY <2>1, LeastIs
  <2>3. seek(v) = f
    BY <1>1, <1>2, <1>7, <1>12 DEF seek
  <2>4. /\ f \in g .. n /\ (f < n => freq[f + 1] >= v)
        /\ \A h \in g .. n : h < f => h < n /\ ~ (freq[h + 1] >= v)
    <3>1. \A h \in g .. n : h < f => h \notin G
      BY <1>1, <2>2
    <3> QED
      BY <1>1, <2>2, <3>1
  <2> HIDE DEF f, G
  <2>5. f \in ib .. n /\ f \in Nat /\ ~ (f + w <= n)
    BY <1>1, <1>2, <1>8, <1>12, <2>4
  <2>6. \A k \in 1 .. f : freq[k] < v
    <3>1. TAKE k \in 1 .. f
    <3>2. CASE k <= g
      BY <1>8, <1>9, <3>2
    <3>3. CASE k > g
      <4>1. k - 1 \in g .. n /\ k - 1 < f /\ (k - 1) + 1 = k /\ k \in 1 .. n
        BY <1>8, <2>5, <3>3
      <4>2. ~ (freq[k] >= v)
        BY <2>4, <4>1
      <4> QED
        BY <1>3, <4>1, <4>2
    <3> QED
      BY <1>8, <2>5, <3>2, <3>3
  <2>7. has(f, v) <=> f < n /\ freq[f + 1] = v
    BY <1>1, <1>2, <2>5 DEF has
  <2>8. ASSUME NEW k \in 1 .. n, v = freq[k] PROVE k = f + 1 /\ f < n
    <3>1. ~ (k <= f)
      BY <1>3, <2>5, <2>6, <2>8
    <3>2. f < n /\ f + 1 \in 1 .. n
      BY <2>5, <3>1
    <3>3. ~ (freq[f + 1] < freq[k])
      BY <1>3, <2>4, <2>8, <3>2
    <3>4. ~ (f + 1 < k)
      BY <1>1, <3>2, <3>3, ArrayFacts
    <3> QED
      BY <2>5, <3>1, <3>2, <3>4
  <2>9. f < n => f + 1 \in 1 .. n
    BY <2>5
  <2>10. has(f, v) <=> v \in Range(freq)
    BY <1>10, <2>7, <2>8, <2>9
  <2> QED
    BY <1>1, <2>3, <2>5, <2>6, <2>10 DEF Sought
<1> QED
  BY <1>11, <1>12

\* What a scan and a binary search know before they look for a value.
LEMMA Searching ==
  ASSUME IInv, phase \in {"scan", "gallop"}
  PROVE  /\ InputInv /\ OutInv /\ op # "union" /\ ia \in Nat /\ ib \in Nat /\ ib <= nf
         /\ Array(rare) /\ Array(freq) /\ nf \in Nat /\ nf = Len(freq) /\ Len(rare) \in Nat
         /\ matched \subseteq Lanes /\ carry \in Seq(Value) /\ prev \in Value
         /\ Below(Past(freq, ib), Rest(rare, ia)) /\ Pending(Rest(rare, ia) \cap Result)
         /\ phase = "gallop" => op = "intersect"
         /\ ia < Len(rare) =>
              /\ ValueOf(rare, ia, rare[ia + 1])
              /\ \A k \in 1 .. ib : freq[k] < rare[ia + 1]
<1>1. /\ InputInv /\ OutInv /\ op # "union" /\ ia \in Nat /\ ib \in Nat /\ ib <= nf
      /\ matched \subseteq Lanes /\ carry \in Seq(Value) /\ prev \in Value
      /\ Below(Past(freq, ib), Rest(rare, ia)) /\ Pending(Rest(rare, ia) \cap Result)
      /\ phase = "gallop" => op = "intersect"
  BY DEF IInv, PlaceInv, ScanInv
<1>2. Array(rare) /\ Array(freq) /\ nf \in Nat /\ nf = Len(freq) /\ Len(rare) \in Nat
  BY <1>1, Sides, ArrayFacts
<1>3. ASSUME ia < Len(rare)
      PROVE  /\ ValueOf(rare, ia, rare[ia + 1])
             /\ \A k \in 1 .. ib : freq[k] < rare[ia + 1]
  <2>1. PICK v : v = rare[ia + 1] /\ ValueOf(rare, ia, v)
    BY <1>1, <1>2, <1>3, ValueBounds
  <2>2. v \in Rest(rare, ia)
    BY <2>1 DEF ValueOf
  <2>3. \A k \in 1 .. ib : k \in 1 .. Len(freq) /\ k <= ib
    BY <1>1, <1>2
  <2>4. \A k \in 1 .. ib : freq[k] \in Past(freq, ib)
    BY <2>3 DEF Past
  <2> QED
    BY <1>1, <2>1, <2>2, <2>4 DEF Below
<1> QED
  BY <1>1, <1>2, <1>3

\* One value looked for and stored if it is in the result: the other side is
\* left at a place with nothing above the value before it.
LEMMA FindStep ==
  ASSUME IInv, phase \in {"scan", "gallop"}, ia < Len(rare),
         UNCHANGED call, phase' = phase, matched' = matched, carry' = carry, prev' = prev,
         NEW v, v = rare[ia + 1], ia' = ia + 1,
         ib' \in 0 .. nf, \A k \in 1 .. ib' : freq[k] <= v,
         NEW vals, vals = (IF v \in Result THEN << v >> ELSE << >>), Stored(vals)
  PROVE  IInv'
<1>1. /\ InputInv /\ OutInv /\ op # "union" /\ ia \in Nat /\ Array(rare) /\ Array(freq)
      /\ nf \in Nat /\ nf = Len(freq) /\ Pending(Rest(rare, ia) \cap Result) /\ ValueOf(rare, ia, v)
  BY Searching
<1>2. /\ op' = op /\ na' = na /\ nb' = nb /\ Result' = Result
      /\ rare' = rare /\ freq' = freq /\ nf' = nf
  BY <1>1, SameCall, Sides
<1>3. /\ v \in Value /\ v \in Int /\ Rest(rare, ia) = Rest(rare, ia + 1) \cup {v}
      /\ \A x \in Rest(rare, ia + 1) : x \in Int /\ x > v
  BY <1>1 DEF ValueOf
<1>4. Array(vals) /\ Range(vals) = IF v \in Result THEN {v} ELSE {}
  BY <1>3, OneValue, EmptyArray
<1> DEFINE before == Rest(rare, ia) \cap Result
           after == Rest(rare, ia + 1) \cap Result
<1>5. before = Range(vals) \cup after /\ Below(Range(vals), after)
  BY <1>3, <1>4 DEF Below
<1>6. Pending(before)
  BY <1>1
<1> HIDE DEF before, after
<1>7. /\ InputInv' /\ OutInv' /\ Range(out') \cup after = Result' /\ Below(Range(out'), after)
  BY <1>1, <1>4, <1>5, <1>6, StorePending
<1>8. Below(Past(freq, ib'), Rest(rare, ia + 1))
  <2>1. ASSUME NEW k \in 1 .. Len(freq), k <= ib', NEW y \in Rest(rare, ia + 1) PROVE freq[k] < y
    <3>1. freq[k] <= v /\ freq[k] \in Int
      <4>1. k \in 1 .. ib'
        BY <1>1, <2>1
      <4> QED
        BY <1>1, <4>1, ArrayFacts
    <3>2. y \in Int /\ y > v
      BY <1>3
    <3> QED
      BY <1>3, <3>1, <3>2
  <2> QED
    BY <2>1 DEF Below, Past
<1>9. ScanInv'
  <2>1. (ib <= nf)' /\ (Below(Past(freq, ib), Rest(rare, ia)))'
    BY <1>1, <1>2, <1>8
  <2>2. (Pending(Rest(rare, ia) \cap Result))'
    BY <1>2, <1>7 DEF Pending, after
  <2> QED
    BY <2>1, <2>2 DEF ScanInv
<1>10. PlaceInv'
  <2>1. ib' \in Nat /\ ia' \in Nat
    BY <1>1
  <2> QED
    BY <1>2, <2>1 DEF IInv, PlaceInv
<1>11. IntersectInv' /\ DiffInv' /\ UnionInv' /\ DoneInv'
  BY DEF IntersectInv, DiffInv, UnionInv, DoneInv
<1> QED
  BY <1>7, <1>9, <1>10, <1>11 DEF IInv

LEMMA ScanStep == IInv /\ Scan => IInv'
<1> SUFFICES ASSUME IInv, Scan PROVE IInv'
  OBVIOUS
<1> DEFINE v == rare[ia + 1]
           f == seek(v)
           vals == IF v \in Result THEN << v >> ELSE << >>
<1>1. /\ phase = "scan" /\ phase' = "scan" /\ ia < Len(rare)
      /\ UNCHANGED call /\ matched' = matched /\ carry' = carry /\ prev' = prev
      /\ ia' = ia + 1 /\ ib' = f
      /\ IF has(f, v) = (op = "intersect") THEN Store(<< v >>) ELSE Keep
  BY DEF Scan, scanning, At
<1>2. /\ InputInv /\ op # "union" /\ Array(freq) /\ nf = Len(freq) /\ nf \in Nat
      /\ ib \in Nat /\ ib <= nf /\ ValueOf(rare, ia, v) /\ \A k \in 1 .. ib : freq[k] < v
  BY <1>1, Searching
<1>3. v \in Int /\ v \in Range(rare)
  BY <1>2 DEF ValueOf
<1>4. Sought(v, f)
  <2> HIDE DEF v
  <2> QED
    BY <1>2, <1>3, SeekFinds
<1>5. v \in Result <=> (v \in Range(freq) <=> op = "intersect")
  BY <1>2, <1>3, Sides
<1> HIDE DEF f
<1>6. f \in ib .. nf /\ (\A k \in 1 .. f : freq[k] < v) /\ (has(f, v) <=> v \in Range(freq))
  BY <1>4 DEF Sought
<1>7. Stored(vals)
  <2>1. CASE v \in Result
    <3>1. has(f, v) = (op = "intersect")
      BY <1>5, <1>6, <2>1 DEF has
    <3> QED
      BY <1>1, <2>1, <3>1 DEF Stored
  <2>2. CASE v \notin Result
    <3>1. ~ (has(f, v) = (op = "intersect"))
      BY <1>5, <1>6, <2>2
    <3> QED
      BY <1>1, <2>2, <3>1 DEF Stored
  <2> QED
    BY <2>1, <2>2
<1>8. ib' \in 0 .. nf /\ \A k \in 1 .. ib' : freq[k] <= v
  <2>1. f \in 0 .. nf
    BY <1>2, <1>6
  <2>2. \A k \in 1 .. f : freq[k] < v /\ freq[k] \in Int
    <3>1. \A k \in 1 .. f : k \in 1 .. nf
      BY <1>2, <2>1
    <3> QED
      BY <1>2, <1>6, <3>1, ArrayFacts
  <2> QED
    BY <1>1, <1>3, <2>1, <2>2
<1> HIDE DEF v
<1>9. v = rare[ia + 1]
  BY DEF v
<1> QED
  BY <1>1, <1>7, <1>8, <1>9, FindStep

LEMMA ScanDoneStep == IInv /\ ScanDone => IInv'
<1> SUFFICES ASSUME IInv, ScanDone PROVE IInv'
  OBVIOUS
<1>1. /\ phase = "scan" /\ phase' = "done" /\ ~ scanning
      /\ UNCHANGED call /\ ia' = ia /\ ib' = ib /\ matched' = matched /\ carry' = carry /\ prev' = prev
      /\ IF op = "diff" THEN Store(SubSeq(a, ia + 1, na)) ELSE Keep
  BY DEF ScanDone, Go
<1>2. /\ InputInv /\ OutInv /\ op # "union" /\ ia \in Nat /\ ib \in Nat
      /\ Array(rare) /\ Array(freq) /\ Len(rare) \in Nat
      /\ matched \subseteq Lanes /\ carry \in Seq(Value) /\ prev \in Value
      /\ Pending(Rest(rare, ia) \cap Result)
      /\ ia < Len(rare) => ValueOf(rare, ia, rare[ia + 1])
  BY <1>1, Searching
<1>3. ASSUME NEW x \in Rest(rare, ia) PROVE x \notin Range(freq)
  <2>1. ia < Len(rare)
    <3>1. ia >= Len(rare) => Rest(rare, ia) = {}
      BY <1>2, RangeIs
    <3> QED
      BY <1>2, <1>3, <3>1
  <2> DEFINE v == rare[ia + 1]
  <2>2. v \in Int /\ x \in Int /\ v <= x
    BY <1>2, <1>3, <2>1 DEF ValueOf
  <2>3. freq = << >> \/ (freq # << >> /\ ~ (v <= Last(freq)))
    BY <1>1, <2>1 DEF scanning
  <2> HIDE DEF v
  <2>4. CASE freq = << >>
    BY <2>4, EmptyArray
  <2>5. CASE freq # << >> /\ ~ (v <= Last(freq))
    <3>1. Last(freq) \in Int /\ \A y \in Range(freq) : y \in Int /\ y <= Last(freq)
      BY <1>2, <2>5, Ends DEF Last
    <3> QED
      BY <2>2, <2>5, <3>1
  <2> QED
    BY <2>3, <2>4, <2>5
<1>4. Rest(rare, ia) \subseteq Range(rare)
  BY <1>2, RangeIs
<1>5. \A x \in Range(rare) : x \in Result <=> (x \in Range(freq) <=> op = "intersect")
  BY <1>2, Sides
<1>6. ASSUME NEW vals, Array(vals), Stored(vals), Range(vals) = Rest(rare, ia) \cap Result PROVE IInv'
  <2>1. Range(vals) = Range(vals) \cup {} /\ Below(Range(vals), {}) /\ Pending(Range(vals))
    BY <1>2, <1>6 DEF Below
  <2>2. InputInv' /\ OutInv' /\ Range(out') \cup {} = Result'
    BY <1>1, <1>2, <1>6, <2>1, StorePending
  <2> QED
    BY <1>1, <1>2, <2>2, Halt
<1>7. CASE op = "intersect"
  <2>1. Rest(rare, ia) \cap Result = {}
    BY <1>3, <1>4, <1>5, <1>7
  <2>2. Stored(<< >>)
    BY <1>1, <1>7 DEF Stored
  <2> QED
    BY <1>6, <2>1, <2>2, EmptyArray
<1>8. CASE op = "diff"
  <2> DEFINE s == SubSeq(a, ia + 1, na)
  <2>1. rare = a /\ na = Len(a)
    BY <1>2, <1>8, Sides, InputFacts
  <2>2. Array(s) /\ Range(s) = Rest(rare, ia)
    BY <1>2, <2>1, RestArray
  <2>3. Rest(rare, ia) \cap Result = Rest(rare, ia)
    BY <1>3, <1>4, <1>5, <1>8
  <2>4. Stored(s)
    BY <1>1, <1>8 DEF Stored
  <2> QED
    BY <1>6, <2>2, <2>3, <2>4
<1> QED
  BY <1>2, <1>7, <1>8 DEF InputInv

----------------------------------------------------------------------------
\* The doubling steps of a binary search: from one, each twice the one before,
\* and one of them past the end.
Doubled(n, f) == f = [k \in 0 .. n |-> IF k = 0 THEN 1 ELSE 2 * f[k - 1]]

LEMMA DoubledExists ==
  ASSUME NEW n \in Nat
  PROVE  \E f : Doubled(n, f)
<1> DEFINE S == {k \in Nat : \E f : Doubled(k, f)}
<1>1. 0 \in S
  <2>1. Doubled(0, [i \in 0 .. 0 |-> 1])
    BY DEF Doubled
  <2> QED
    BY <2>1
<1>2. ASSUME NEW k \in Nat, k \in S PROVE k + 1 \in S
  <2>1. PICK f : Doubled(k, f)
    BY <1>2
  <2> DEFINE g == [i \in 0 .. k + 1 |-> IF i \in 0 .. k THEN f[i] ELSE 2 * f[k]]
  <2>2. \A i \in 0 .. k : f[i] = IF i = 0 THEN 1 ELSE 2 * f[i - 1]
    BY <2>1 DEF Doubled
  <2>3. \A i \in 0 .. k + 1 : i # 0 => i - 1 \in 0 .. k /\ i - 1 \in 0 .. k + 1
    OBVIOUS
  <2>4. \A i \in 0 .. k : g[i] = f[i]
    OBVIOUS
  <2>5. \A i \in 0 .. k + 1 : ~ (i \in 0 .. k) => i = k + 1 /\ i # 0 /\ i - 1 = k
    OBVIOUS
  <2>6. \A i \in 0 .. k + 1 : g[i] = IF i = 0 THEN 1 ELSE 2 * g[i - 1]
    <3>1. TAKE i \in 0 .. k + 1
    <3>2. CASE i \in 0 .. k
      BY <2>2, <2>3, <2>4, <3>2
    <3>3. CASE ~ (i \in 0 .. k)
      <4>1. i = k + 1 /\ i # 0 /\ i - 1 = k /\ g[i - 1] = f[k]
        BY <2>4, <2>5, <3>3
      <4> QED
        BY <3>3, <4>1
    <3> QED
      BY <3>2, <3>3
  <2> HIDE DEF g
  <2>7. g = [i \in 0 .. k + 1 |-> g[i]]
    BY DEF g
  <2>8. Doubled(k + 1, g)
    BY <2>6, <2>7 DEF Doubled
  <2> QED
    BY <2>8
<1> HIDE DEF S
<1>3. n \in S
  BY <1>1, <1>2, SetInduction
<1> QED
  BY <1>3 DEF S

LEMMA Doublings ==
  ASSUME nf \in Nat
  PROVE  /\ \A s \in doublings :
              /\ s \in Nat /\ s >= 1
              /\ s # 1 => \E h \in doublings : s = 2 * h
         /\ \E s \in doublings : s > nf
<1> DEFINE double == CHOOSE f : Doubled(nf, f)
<1>1. Doubled(nf, double)
  BY DoubledExists
<1>2. doublings = {double[n] : n \in 0 .. nf}
  BY DEF doublings, Doubled
<1> HIDE DEF double
<1>3. PICK m \in Nat : m = nf
  OBVIOUS
<1>4. \A n \in 0 .. m : double[n] = IF n = 0 THEN 1 ELSE 2 * double[n - 1]
  BY <1>1, <1>3, Zenon DEF Doubled
<1> DEFINE S == {n \in Nat : n <= m => double[n] \in Nat /\ double[n] >= n + 1}
<1>5. 0 \in S
  <2>1. 0 \in 0 .. m
    OBVIOUS
  <2>2. double[0] = 1
    BY <1>4, <2>1
  <2> QED
    BY <2>2
<1>6. ASSUME NEW n \in Nat, n \in S PROVE n + 1 \in S
  <2>1. SUFFICES ASSUME n + 1 <= m PROVE double[n + 1] \in Nat /\ double[n + 1] >= (n + 1) + 1
    OBVIOUS
  <2>2. n + 1 \in 0 .. m /\ n + 1 # 0 /\ (n + 1) - 1 = n /\ n <= m
    BY <2>1
  <2>3. double[n + 1] = 2 * double[n] /\ double[n] \in Nat /\ double[n] >= n + 1
    BY <1>4, <1>6, <2>2
  <2> QED
    BY <2>3
<1> HIDE DEF S
<1>7. \A n \in 0 .. m : double[n] \in Nat /\ double[n] >= n + 1
  <2>1. Nat \subseteq S
    BY <1>5, <1>6, SetInduction
  <2> QED
    BY <2>1 DEF S
<1>8. \A s \in doublings : s \in Nat /\ s >= 1
  BY <1>2, <1>3, <1>7
<1>9. ASSUME NEW s \in doublings, s # 1 PROVE \E h \in doublings : s = 2 * h
  <2>1. PICK n \in 0 .. m : s = double[n]
    BY <1>2, <1>3
  <2>2. n # 0 /\ s = 2 * double[n - 1] /\ n - 1 \in 0 .. m
    BY <1>4, <1>9, <2>1
  <2> QED
    BY <1>2, <1>3, <2>2
<1>10. \E s \in doublings : s > nf
  <2>1. m \in 0 .. m
    OBVIOUS
  <2>2. double[m] > m
    BY <1>7, <2>1
  <2> QED
    BY <1>2, <1>3, <2>1, <2>2
<1> QED
  BY <1>8, <1>9, <1>10

\* The bracket of a value: all before it is below the value, and the value is in
\* it if it is anywhere.
Bracketed(v, s) ==
  /\ s \in Nat /\ s \div 2 \in Nat /\ ib + (s \div 2) < nf
  /\ \A k \in 1 .. ib + (s \div 2) : freq[k] < v
  /\ bracket(s) \subseteq 1 .. nf
  /\ v \in Range(freq) => \E k \in bracket(s) : freq[k] = v

LEMMA BracketHolds ==
  ASSUME Array(freq), nf = Len(freq), ib \in Nat, ib < nf,
         NEW v \in Int, \A k \in 1 .. ib : freq[k] < v
  PROVE  Bracketed(v, stride(v))
<1>1. PICK n \in Nat : n = nf /\ n = Len(freq)
  BY ArrayFacts
<1>2. \A k \in 1 .. n : freq[k] \in Int
  BY <1>1, ArrayFacts
<1>3. \A j, k \in 1 .. n : j <= k => freq[j] <= freq[k]
  <2>1. TAKE j, k \in 1 .. n
  <2>2. j <= k => j < k \/ j = k
    OBVIOUS
  <2>3. j < k => freq[j] < freq[k]
    BY <1>1, ArrayFacts
  <2> QED
    BY <1>2, <2>2, <2>3
<1>4. /\ \A s \in doublings : s \in Nat /\ s >= 1 /\ (s # 1 => \E h \in doublings : s = 2 * h)
      /\ \E s \in doublings : s > n
  BY <1>1, Doublings
<1> DEFINE S == {s \in doublings : ~(ib + s < nf /\ freq[ib + s + 1] < v)}
           s == Min(S)
<1>5. S \in SUBSET Nat /\ S # {}
  <2>1. PICK t \in doublings : t > n
    BY <1>4
  <2>2. ~ (ib + t < nf)
    BY <1>1, <1>4, <2>1
  <2>3. t \in S
    BY <2>2
  <2>4. S \in SUBSET Nat
    BY <1>4
  <2> QED
    BY <2>3, <2>4
<1>6. s \in S /\ \A t \in S : s <= t
  <2> HIDE DEF S
  <2> QED
    BY <1>5, LeastIs
<1>7. s = stride(v)
  BY DEF stride
<1>8. /\ s \in doublings /\ ~ (ib + s < n /\ freq[ib + s + 1] < v)
      /\ \A t \in doublings : t < s => ib + t < n /\ freq[ib + t + 1] < v
  <2>1. s \in doublings /\ ~ (ib + s < n /\ freq[ib + s + 1] < v)
    BY <1>1, <1>6
  <2>2. \A t \in doublings : t < s => t \notin S
    <3> HIDE DEF s, S
    <3> QED
      BY <1>4, <1>6, <2>1
  <2> QED
    BY <1>1, <2>1, <2>2
<1> HIDE DEF s, S
<1>9. s \in Nat /\ s >= 1
  BY <1>4, <1>8
<1>10. PICK h \in Nat : /\ h = s \div 2 /\ h < s
                        /\ h = 0 \/ (ib + h < n /\ freq[ib + h + 1] < v)
  <2>1. CASE s = 1
    <3>1. s \div 2 = 0
      BY <2>1
    <3> QED
      BY <2>1, <3>1
  <2>2. CASE s # 1
    <3>1. PICK h \in doublings : s = 2 * h
      BY <1>4, <1>8, <2>2
    <3>2. h \in Nat /\ h >= 1
      BY <1>4, <3>1
    <3>3. h < s /\ s \div 2 = h
      BY <3>1, <3>2
    <3>4. ib + h < n /\ freq[ib + h + 1] < v
      BY <1>8, <3>1, <3>3
    <3> QED
      BY <3>2, <3>3, <3>4
  <2> QED
    BY <2>1, <2>2
<1>11. ib + h < n
  BY <1>1, <1>10
<1>12. ASSUME NEW k \in 1 .. ib + h PROVE freq[k] < v
  <2>1. CASE h = 0
    BY <2>1
  <2>2. CASE h # 0
    <3>1. ib + h + 1 \in 1 .. n /\ k \in 1 .. n /\ k <= ib + h + 1
      BY <1>1, <1>11
    <3>2. freq[k] <= freq[ib + h + 1] /\ freq[ib + h + 1] < v
      BY <1>3, <1>10, <2>2, <3>1
    <3> QED
      BY <1>2, <3>1, <3>2
  <2> QED
    BY <2>1, <2>2
<1>13. PICK m \in Nat : /\ m <= n /\ bracket(s) = ib + h + 1 .. m
                        /\ m = n \/ (m = ib + s + 1 /\ ib + s < n)
  <2>1. ib + s + 1 \in Int /\ n \in Int
    BY <1>9
  <2>2. Min({ib + s + 1, n}) = IF ib + s + 1 <= n THEN ib + s + 1 ELSE n
    BY <2>1, TwoValues
  <2>3. bracket(s) = ib + h + 1 .. (IF ib + s + 1 <= n THEN ib + s + 1 ELSE n)
    BY <1>1, <1>10, <2>2 DEF bracket
  <2>4. CASE ib + s + 1 <= n
    <3>1. ib + s + 1 \in Nat /\ ib + s < n
      BY <1>9, <2>4
    <3> QED
      BY <2>3, <2>4, <3>1
  <2>5. CASE ~ (ib + s + 1 <= n)
    BY <2>3, <2>5
  <2> QED
    BY <2>4, <2>5
<1>14. bracket(s) \subseteq 1 .. n
  BY <1>13
<1>15. ASSUME v \in Range(freq) PROVE \E k \in bracket(s) : freq[k] = v
  <2>1. PICK k \in 1 .. n : v = freq[k]
    BY <1>1, <1>15, RangeIs
  <2>2. ~ (k <= ib + h)
    BY <1>2, <1>12, <2>1
  <2>3. k <= m
    <3>1. CASE m = ib + s + 1 /\ ib + s < n
      <4>1. m \in 1 .. n /\ ~ (freq[m] < freq[k])
        BY <1>8, <1>9, <2>1, <3>1
      <4> QED
        BY <1>1, <4>1, ArrayFacts
    <3> QED
      BY <1>13, <3>1
  <2>4. k \in ib + h + 1 .. m
    BY <1>10, <2>2, <2>3
  <2> QED
    BY <1>13, <2>1, <2>4
<1>16. s \div 2 \in Nat /\ ib + (s \div 2) < nf /\ (\A k \in 1 .. ib + (s \div 2) : freq[k] < v)
  BY <1>1, <1>10, <1>11, <1>12
<1> QED
  BY <1>1, <1>7, <1>9, <1>14, <1>15, <1>16 DEF Bracketed

\* Where a binary search leaves the other side.
Landed(v, s) ==
  LET at == {i \in bracket(s) : freq[i] = v}
      below == {i \in bracket(s) : freq[i] < v}
      f == ib + (s \div 2) + Cardinality(below) + Cardinality(at)
  IN  /\ f \in 0 .. nf
      /\ \A k \in 1 .. f : freq[k] <= v
      /\ at # {} <=> v \in Range(freq)

LEMMA SearchLands ==
  ASSUME Array(freq), nf = Len(freq), ib \in Nat, NEW v \in Int, NEW s, Bracketed(v, s)
  PROVE  Landed(v, s)
<1>1. PICK n \in Nat : n = nf /\ n = Len(freq)
  BY ArrayFacts
<1>2. PICK i0 \in Nat : i0 = ib + (s \div 2) /\ i0 < n
  BY <1>1 DEF Bracketed
<1>3. PICK m \in Int : bracket(s) = i0 + 1 .. m
  <2>1. ib + s + 1 \in Int /\ n \in Int
    BY DEF Bracketed
  <2>2. Min({ib + s + 1, n}) \in Int
    BY <2>1, TwoValues
  <2> QED
    BY <1>1, <1>2, <2>2 DEF bracket
<1>4. /\ \A k \in 1 .. i0 : freq[k] < v
      /\ i0 + 1 .. m \subseteq 1 .. n
      /\ v \in Range(freq) => \E k \in i0 + 1 .. m : freq[k] = v
  BY <1>1, <1>2, <1>3 DEF Bracketed
<1>5. \A k \in 1 .. n : freq[k] \in Int
  BY <1>1, ArrayFacts
<1> DEFINE at == {i \in i0 + 1 .. m : freq[i] = v}
           below == {i \in i0 + 1 .. m : freq[i] < v}
           C == {i \in Nat : i > i0 /\ (i <= m => freq[i] >= v)}
           e == Min(C)
<1>6. e \in C /\ \A j \in C : e <= j
  <2>1. C \in SUBSET Nat
    OBVIOUS
  <2>2. C # {}
    <3>1. PICK j \in Nat : j > i0 /\ j > m
      <4>1. CASE m >= i0
        <5>1. m + 1 \in Nat /\ m + 1 > i0 /\ m + 1 > m
          BY <4>1
        <5> QED
          BY <5>1
      <4>2. CASE ~ (m >= i0)
        <5>1. i0 + 1 \in Nat /\ i0 + 1 > i0 /\ i0 + 1 > m
          BY <4>2
        <5> QED
          BY <5>1
      <4> QED
        BY <4>1, <4>2
    <3>2. j \in C
      BY <3>1
    <3> QED
      BY <3>2
  <2> HIDE DEF C
  <2> QED
    BY <2>1, <2>2, LeastIs
<1>7. /\ e \in Nat /\ e > i0 /\ (e <= m => freq[e] >= v)
      /\ \A j \in i0 + 1 .. m : j < e => freq[j] < v
  <2>1. \A j \in i0 + 1 .. m : j \in Nat /\ j > i0 /\ j \in 1 .. n
    BY <1>4
  <2>2. \A j \in i0 + 1 .. m : j < e => j \notin C
    BY <1>6, <2>1
  <2>3. \A j \in i0 + 1 .. m : j < e => ~ (freq[j] >= v)
    BY <2>1, <2>2
  <2> QED
    BY <1>5, <1>6, <2>1, <2>3
<1> HIDE DEF e, C
<1>8. \A j \in i0 + 1 .. m : j > e => freq[j] > v
  <2>1. ASSUME NEW j \in i0 + 1 .. m, j > e PROVE freq[j] > v
    <3>1. e \in i0 + 1 .. m
      BY <1>7, <2>1
    <3>2. e \in 1 .. n /\ j \in 1 .. n /\ freq[e] >= v
      BY <1>4, <1>7, <2>1, <3>1
    <3>3. freq[e] < freq[j]
      BY <1>1, <2>1, <3>2, ArrayFacts
    <3> QED
      BY <1>5, <3>2, <3>3
  <2> QED
    BY <2>1
<1>9. e <= m + 1 \/ m <= i0
  <2>1. CASE m > i0
    <3>1. m + 1 \in Nat /\ m + 1 > i0 /\ ~ (m + 1 <= m)
      BY <2>1
    <3>2. m + 1 \in C
      BY <3>1 DEF C
    <3> QED
      BY <1>6, <3>2
  <2> QED
    BY <2>1
<1>10. e <= n + 1
  <2>1. CASE m <= i0
    <3>1. i0 + 1 \in Nat /\ i0 + 1 > i0 /\ ~ (i0 + 1 <= m)
      BY <2>1
    <3>2. i0 + 1 \in C
      BY <3>1 DEF C
    <3> QED
      BY <1>2, <1>6, <1>7, <3>2
  <2>2. CASE m > i0
    <3>1. m \in i0 + 1 .. m
      BY <2>2
    <3> QED
      BY <1>4, <1>7, <1>9, <2>2, <3>1
  <2> QED
    BY <2>1, <2>2
<1>11. below = i0 + 1 .. e - 1
  <2>1. \A j \in i0 + 1 .. m : freq[j] < v => j < e
    <3>1. TAKE j \in i0 + 1 .. m
    <3>2. freq[j] \in Int /\ j \in Int
      BY <1>4, <1>5
    <3>3. j = e => freq[j] >= v
      BY <1>7
    <3> QED
      BY <1>7, <1>8, <3>2, <3>3
  <2>2. \A j \in i0 + 1 .. e - 1 : j \in i0 + 1 .. m /\ j < e
    <3>1. TAKE j \in i0 + 1 .. e - 1
    <3>2. CASE m <= i0
      <4>1. i0 + 1 \in C
        BY <3>2 DEF C
      <4> QED
        BY <1>6, <1>7, <4>1
    <3>3. CASE ~ (m <= i0)
      BY <1>7, <1>9, <3>3
    <3> QED
      BY <3>2, <3>3
  <2>3. \A j \in i0 + 1 .. m : j < e => j \in i0 + 1 .. e - 1
    BY <1>7
  <2> QED
    BY <1>7, <2>1, <2>2, <2>3
<1>12. Cardinality(below) = e - 1 - i0
  <2>1. i0 + 1 \in Int /\ e - 1 \in Int /\ i0 + 1 <= e - 1 + 1
    BY <1>7
  <2>2. Cardinality(i0 + 1 .. e - 1) = IF i0 + 1 > e - 1 THEN 0 ELSE (e - 1) - (i0 + 1) + 1
    BY <2>1, FS_Interval
  <2> HIDE DEF below
  <2> QED
    BY <1>7, <1>11, <2>2
<1>13. at \subseteq {e}
  <2>1. \A j \in i0 + 1 .. m : freq[j] = v => j = e
    <3>1. TAKE j \in i0 + 1 .. m
    <3>2. freq[j] \in Int /\ j \in Int
      BY <1>4, <1>5
    <3> QED
      BY <1>7, <1>8, <3>2
  <2> QED
    BY <2>1
<1>14. at # {} <=> v \in Range(freq)
  <2>1. \A j \in i0 + 1 .. m : freq[j] \in Range(freq)
    BY <1>1, <1>4, RangeIs
  <2> QED
    BY <1>4, <2>1
<1>15. \A k \in 1 .. e - 1 : k \in 1 .. n /\ freq[k] < v
  <2>1. TAKE k \in 1 .. e - 1
  <2>2. k \in 1 .. n
    BY <1>7, <1>10
  <2>3. CASE k <= i0
    <3>1. k \in 1 .. i0
      BY <2>2, <2>3
    <3> QED
      BY <1>4, <2>2, <3>1
  <2>4. CASE k > i0
    <3>1. k \in i0 + 1 .. e - 1
      BY <1>7, <2>4
    <3>2. k \in below
      BY <1>11, <3>1
    <3> QED
      BY <2>2, <3>2
  <2> QED
    BY <1>2, <2>2, <2>3, <2>4
<1> DEFINE f == ib + (s \div 2) + Cardinality(below) + Cardinality(at)
<1>16. f \in 0 .. n /\ \A k \in 1 .. f : freq[k] <= v
  <2>1. CASE at = {}
    <3>1. f = e - 1
      <4>1. Cardinality(at) = 0
        BY <2>1, FS_EmptySet
      <4> HIDE DEF at, below
      <4> QED
        BY <1>2, <1>7, <1>12, <4>1
    <3> HIDE DEF f
    <3> QED
      BY <1>5, <1>7, <1>10, <1>15, <3>1
  <2>2. CASE at # {}
    <3>1. at = {e}
      BY <1>13, <2>2
    <3>2. e \in 1 .. n /\ freq[e] = v
      <4>1. e \in i0 + 1 .. m /\ freq[e] = v
        BY <3>1
      <4> QED
        BY <1>4, <4>1
    <3>3. f = e
      <4>1. Cardinality(at) = 1
        BY <3>1, FS_Singleton
      <4> HIDE DEF at, below
      <4> QED
        BY <1>2, <1>7, <1>12, <4>1
    <3> HIDE DEF f
    <3>4. \A k \in 1 .. e : k = e \/ k \in 1 .. e - 1
      BY <1>7
    <3>5. \A k \in 1 .. e : freq[k] <= v
      BY <1>5, <1>15, <3>2, <3>4
    <3> QED
      BY <1>7, <3>2, <3>3, <3>5
  <2> QED
    BY <2>1, <2>2
<1> QED
  BY <1>1, <1>3, <1>14, <1>16 DEF Landed

LEMMA GallopStep == IInv /\ Gallop => IInv'
<1> SUFFICES ASSUME IInv, Gallop PROVE IInv'
  OBVIOUS
<1> DEFINE v == rare[ia + 1]
           s == stride(v)
           at == {i \in bracket(s) : freq[i] = v}
           below == {i \in bracket(s) : freq[i] < v}
           vals == IF v \in Result THEN << v >> ELSE << >>
<1>1. /\ phase = "gallop" /\ phase' = "gallop" /\ ia < Len(rare) /\ ib < nf
      /\ UNCHANGED call /\ matched' = matched /\ carry' = carry /\ prev' = prev
      /\ ia' = ia + 1 /\ ib' = ib + (s \div 2) + Cardinality(below) + Cardinality(at)
      /\ IF at # {} THEN Store(<< v >>) ELSE Keep
  BY DEF Gallop, At
<1>2. /\ InputInv /\ op # "union" /\ op = "intersect" /\ Array(freq) /\ nf = Len(freq)
      /\ ib \in Nat /\ ValueOf(rare, ia, v) /\ \A k \in 1 .. ib : freq[k] < v
  BY <1>1, Searching
<1>3. v \in Int /\ v \in Range(rare)
  BY <1>2 DEF ValueOf
<1>4. Bracketed(v, s)
  <2> HIDE DEF v
  <2> QED
    BY <1>1, <1>2, <1>3, BracketHolds
<1>5. Landed(v, s)
  <2> HIDE DEF v, s
  <2> QED
    BY <1>2, <1>3, <1>4, SearchLands
<1>6. ib' \in 0 .. nf /\ (\A k \in 1 .. ib' : freq[k] <= v) /\ (at # {} <=> v \in Range(freq))
  <2> HIDE DEF v, s
  <2> QED
    BY <1>1, <1>5 DEF Landed
<1>7. v \in Result <=> v \in Range(freq)
  BY <1>2, <1>3, Sides
<1>8. Stored(vals)
  <2> HIDE DEF v, at
  <2> QED
    BY <1>1, <1>6, <1>7 DEF Stored
<1> HIDE DEF v
<1>9. v = rare[ia + 1]
  BY DEF v
<1> QED
  BY <1>1, <1>6, <1>8, <1>9, FindStep

LEMMA GallopDoneStep == IInv /\ GallopDone => IInv'
<1> SUFFICES ASSUME IInv, GallopDone PROVE IInv'
  OBVIOUS
<1>1. /\ phase = "gallop" /\ phase' = "done" /\ ~ (ia < Len(rare) /\ ib < nf)
      /\ UNCHANGED call /\ ia' = ia /\ ib' = ib /\ matched' = matched /\ carry' = carry /\ prev' = prev
      /\ UNCHANGED << out, top >>
  BY DEF GallopDone, Go
<1>2. /\ InputInv /\ OutInv /\ op # "union" /\ op = "intersect" /\ ia \in Nat /\ ib \in Nat
      /\ Array(rare) /\ Array(freq) /\ Len(rare) \in Nat /\ nf = Len(freq) /\ nf \in Nat
      /\ matched \subseteq Lanes /\ carry \in Seq(Value) /\ prev \in Value
      /\ Below(Past(freq, ib), Rest(rare, ia)) /\ Pending(Rest(rare, ia) \cap Result)
  BY <1>1, Searching
<1>3. Rest(rare, ia) \cap Result = {}
  <2>1. Rest(rare, ia) \subseteq Range(rare) /\ \A x \in Range(rare) : x \in Int /\ (x \in Result => x \in Range(freq))
    BY <1>2, RangeIs, Sides
  <2>2. CASE ia >= Len(rare)
    BY <1>2, <2>2, RangeIs
  <2>3. CASE ib >= nf
    <3>1. Past(freq, ib) = Range(freq)
      BY <1>2, <2>3, RangeIs
    <3>2. ASSUME NEW x \in Rest(rare, ia), x \in Result PROVE FALSE
      <4>1. x \in Int /\ x < x
        BY <1>2, <2>1, <3>1, <3>2 DEF Below
      <4> QED
        BY <4>1
    <3> QED
      BY <3>2
  <2> QED
    BY <1>1, <1>2, <2>2, <2>3
<1>4. Range(out) = Result
  BY <1>2, <1>3 DEF Pending
<1>5. InputInv' /\ OutInv' /\ Range(out') = Result'
  BY <1>1, <1>2, <1>4, KeepsOut
<1> QED
  BY <1>1, <1>2, <1>5, Halt

----------------------------------------------------------------------------
\* An ordered vector as a sequence.
LEMMA VectorSeq ==
  ASSUME NEW v, Ordered(v)
  PROVE  /\ v \in Seq(Value) /\ Len(v) = W /\ Range(v) = LaneSet(v) /\ v # << >> /\ InRow(v)
         /\ \A x \in LaneSet(v) : x \in Value /\ x \in Int /\ v[1] <= x /\ x <= v[W]
         /\ v[1] \in LaneSet(v) /\ v[W] \in LaneSet(v)
<1>1. /\ W \in Nat /\ W >= 2 /\ Lanes = 1 .. W /\ 1 \in Lanes /\ W \in Lanes
      /\ \A l \in Lanes : 1 <= l /\ l <= W
  BY Numbers DEF Lanes
<1>2. v \in [Lanes -> Value] /\ \A k, l \in Lanes : k <= l => v[k] <= v[l]
  BY DEF Ordered
<1>3. v \in Seq(Value) /\ Len(v) = W /\ DOMAIN v = Lanes
  <2>1. v \in [1 .. W -> Value]
    BY <1>1, <1>2
  <2> QED
    BY <1>1, <2>1, LenProperties, SeqDef
<1>4. Range(v) = LaneSet(v)
  BY <1>3 DEF Range, LaneSet
<1>5. v # << >>
  BY <1>1, <1>3, EmptySeq
<1>6. InRow(v)
  BY <1>1, <1>2, <1>3 DEF InRow
<1>7. /\ \A x \in LaneSet(v) : x \in Value /\ x \in Int /\ v[1] <= x /\ x <= v[W]
      /\ v[1] \in LaneSet(v) /\ v[W] \in LaneSet(v)
  <2>1. \A l \in Lanes : v[l] \in Value /\ v[l] \in Int /\ v[1] <= v[l] /\ v[l] <= v[W]
    BY <1>1, <1>2, Numbers
  <2> QED
    BY <1>1, <2>1 DEF LaneSet
<1> QED
  BY <1>3, <1>4, <1>5, <1>6, <1>7

\* A merge of a block and what was held back: of all that is left, what goes out
\* is the least.
LEMMA MergeStep ==
  ASSUME IInv, op = "union", UNCHANGED call, matched' = matched,
         NEW u, Ordered(u), NEW c, Ordered(c), NEW last \in Value, Merged(u, c, last),
         NEW low, NEW high, low = simd_merge(u, c)[1], high = simd_merge(u, c)[2],
         ia' \in Nat, ib' \in Nat, ia' % W = 0, ib' % W = 0,
         phase' = (IF more(ia', ib') THEN "merge" ELSE "tail"),
         NEW rest, rest = Rest(a, ia') \cup Rest(b, ib'),
         Range(out) \cup LaneSet(u) \cup LaneSet(c) \cup rest = Result,
         LaneSet(u) \cup LaneSet(c) \subseteq Past(a, ia') \cup Past(b, ib'),
         AtMost(Range(out), LaneSet(u) \cup LaneSet(c)),
         Below(Range(out), rest), \A y \in rest : low[W] < y,
         \/ last \in Range(out) /\ AtMost(Range(out), {last})
         \/ Range(out) = {} /\ low[1] # last
  PROVE  IInv'
<1>1. /\ InputInv /\ OutInv /\ na \in Nat /\ nb \in Nat /\ matched \subseteq Lanes /\ Array(out)
  BY InputFacts DEF IInv, PlaceInv, OutInv
<1>2. op' = op /\ a' = a /\ b' = b /\ na' = na /\ nb' = nb /\ Result' = Result
  BY SameCall
<1>3. /\ Ordered(low) /\ Ordered(high)
      /\ \A k, l \in Lanes : low[k] <= high[l]
      /\ LaneSet(low) \cup LaneSet(high) = LaneSet(u) \cup LaneSet(c)
  BY MergeSplits
<1> DEFINE vals == compact(low, unique(last, low))
<1>4. Stored(vals) /\ prev' = low[W] /\ carry' = high
  BY DEF Merged, EmitUnique, Stored
<1>5. /\ Array(vals)
      /\ Range(vals) = IF low[1] = last THEN LaneSet(low) \ {last} ELSE LaneSet(low)
  BY <1>3, WithoutRepeats
<1> HIDE DEF vals
<1>6. /\ low[1] \in LaneSet(low) /\ low[W] \in LaneSet(low) /\ last \in Int
      /\ \A x \in LaneSet(low) : x \in Value /\ x \in Int /\ low[1] <= x /\ x <= low[W]
      /\ \A x \in LaneSet(high) : x \in Int
  BY <1>3, VectorSeq, Numbers
<1>7. \A x \in Range(out) : x \in Int
  BY <1>1, RangeIs, Numbers
<1>8. AtMost(Range(out), LaneSet(low)) /\ AtMost(Range(out), LaneSet(high))
  BY <1>3 DEF AtMost
<1>9. AtMost(LaneSet(low), LaneSet(high))
  BY <1>3 DEF AtMost, LaneSet
<1>10. Range(out) \cup Range(vals) = Range(out) \cup LaneSet(low)
  BY <1>5
<1>11. Below(Range(out), Range(vals))
  <2>1. CASE Range(out) = {}
    BY <2>1 DEF Below
  <2>2. CASE last \in Range(out) /\ AtMost(Range(out), {last})
    <3>1. ASSUME NEW x \in Range(out), NEW y \in Range(vals) PROVE x < y
      <4>1. x \in Int /\ x <= last
        BY <1>7, <2>2, <3>1 DEF AtMost
      <4>2. y \in LaneSet(low) /\ y \in Int /\ last <= y
        BY <1>5, <1>6, <1>8, <2>2, <3>1 DEF AtMost
      <4>3. y # last
        <5>1. CASE low[1] = last
          BY <1>5, <3>1, <5>1
        <5>2. CASE low[1] # last
          <6>1. last <= low[1] /\ low[1] <= y /\ low[1] \in Int
            BY <1>6, <1>8, <2>2, <4>2 DEF AtMost
          <6> QED
            BY <1>6, <4>2, <5>2, <6>1
        <5> QED
          BY <5>1, <5>2
      <4> QED
        BY <1>6, <4>1, <4>2, <4>3
    <3> QED
      BY <3>1 DEF Below
  <2> QED
    BY <2>1, <2>2
<1>12. Range(vals) \subseteq Result
  BY <1>3, <1>5
<1>13. /\ InputInv' /\ OutInv' /\ Range(out') = Range(out) \cup LaneSet(low)
  BY <1>1, <1>4, <1>5, <1>10, <1>11, <1>12, StoreKeeps
<1>14. /\ carry' \in Seq(Value) /\ Len(carry') = W /\ Range(carry') = LaneSet(high)
       /\ carry' # << >> /\ InRow(carry') /\ Ordered(carry')
  BY <1>3, <1>4, VectorSeq
<1>15. prev' \in Value
  BY <1>4, <1>6
<1> DEFINE left == LaneSet(high) \cup rest
<1>16. Range(out') \cup left = Result
  BY <1>3, <1>13
<1>17. /\ AtMost(Range(out'), LaneSet(high)) /\ Below(Range(out'), rest)
       /\ prev' \in Range(out') /\ AtMost(Range(out'), {prev'})
  <2>1. AtMost(Range(out'), LaneSet(high))
    BY <1>8, <1>9, <1>13 DEF AtMost
  <2>2. Below(Range(out'), rest)
    <3>1. \A y \in rest : y \in Int
      <4>1. rest \subseteq Value
        <5>1. Rest(a, ia') \subseteq Range(a) /\ Rest(b, ib') \subseteq Range(b)
          BY <1>1, RangeIs DEF InputInv
        <5> QED
          BY <1>1, <5>1, RangeIs DEF InputInv
      <4> QED
        BY <4>1, Numbers
    <3>2. \A x \in LaneSet(low), y \in rest : x < y
      BY <1>6, <3>1
    <3> QED
      BY <1>13, <3>2 DEF Below
  <2>3. prev' \in Range(out') /\ AtMost(Range(out'), {prev'})
    BY <1>4, <1>6, <1>8, <1>13 DEF AtMost
  <2> QED
    BY <2>1, <2>2, <2>3
<1>18. AtMost(Range(out'), left)
  <2>1. \A x \in Range(out'), y \in rest : x <= y
    <3>1. \A x \in Range(out') : x \in Int
      BY <1>6, <1>7, <1>13
    <3>2. rest \subseteq Result
      OBVIOUS
    <3>3. Result \subseteq A \cup B
      BY DEF Result
    <3>4. \A y \in rest : y \in Int
      BY <1>1, <3>2, <3>3, InputFacts
    <3> QED
      BY <1>17, <3>1, <3>4 DEF Below
  <2> QED
    BY <1>17, <2>1 DEF AtMost
<1>19. phase' = "merge" => ia' + W <= na /\ ib' + W <= nb
  <2>1. phase' = "merge" => ia' \div W < na \div W /\ ib' \div W < nb \div W
    BY DEF more
  <2>2. W \in Nat /\ W >= 1
    BY Numbers
  <2> QED
    BY <1>1, <2>1, <2>2, WholeLeft
<1>20. PlaceInv'
  BY <1>1, <1>2, <1>14, <1>15, <1>19 DEF PlaceInv
<1>21. Left' = left
  BY <1>2, <1>14 DEF Left
<1>22. UnionInv'
  <2>1. (Range(out) \cup Left = Result)' /\ (AtMost(Range(out), Left))'
    BY <1>2, <1>16, <1>18, <1>21
  <2>2. (Range(carry) \subseteq Past(a, ia) \cup Past(b, ib))'
    BY <1>2, <1>3, <1>14
  <2>3. /\ (AtMost(Range(out), Range(carry)))' /\ (Below(Range(out), Rest(a, ia) \cup Rest(b, ib)))'
        /\ (prev \in Range(out))' /\ (AtMost(Range(out), {prev}))'
    BY <1>2, <1>14, <1>17
  <2>4. /\ (Ordered(carry))' /\ (Len(carry) = W)' /\ (InRow(carry))' /\ (carry # << >>)'
    BY <1>14 DEF Ordered, InRow, Lanes, Value
  <2> QED
    BY <2>1, <2>2, <2>3, <2>4 DEF UnionInv
<1>23. IntersectInv' /\ DiffInv' /\ ScanInv' /\ DoneInv'
  BY <1>2 DEF IntersectInv, DiffInv, ScanInv, DoneInv
<1> QED
  BY <1>13, <1>20, <1>22, <1>23 DEF IInv

LEMMA UnionFirstStep == IInv /\ UnionFirst => IInv'
<1> SUFFICES ASSUME IInv, UnionFirst PROVE IInv'
  OBVIOUS
<1> DEFINE u == block(a, 0)
           c == block(b, 0)
           low == simd_merge(u, c)[1]
           high == simd_merge(u, c)[2]
           rest == Rest(a, ia') \cup Rest(b, ib')
<1>1. /\ phase = "merge" /\ op = "union" /\ carry = << >> /\ UNCHANGED call /\ matched' = matched
      /\ Merged(u, c, LAST) /\ ia' = W /\ ib' = W
      /\ phase' = (IF more(W, W) THEN "merge" ELSE "tail")
  BY DEF UnionFirst, At, Go
<1>2. /\ InputInv /\ OutInv /\ Array(a) /\ Array(b) /\ ia = 0 /\ ib = 0 /\ out = << >>
      /\ 0 + W <= Len(a) /\ 0 + W <= Len(b)
  BY <1>1, InputFacts DEF IInv, InputInv, PlaceInv, UnionInv
<1>3. W \in Nat /\ W >= 2 /\ 0 + W = W /\ W % W = 0 /\ LAST \in Value /\ LAST \in Int /\ 1 \in Lanes /\ 2 \in Lanes /\ W \in Lanes
  BY Numbers DEF Lanes, Value
<1>4. BlockOf(a, 0, u) /\ BlockOf(b, 0, c)
  <2>1. 0 \in Nat
    OBVIOUS
  <2> QED
    BY <1>2, <2>1, BlockBounds
<1> HIDE DEF u, c
<1>5. /\ Ordered(u) /\ Ordered(c)
      /\ Past(a, W) = Past(a, 0) \cup LaneSet(u) /\ Past(b, W) = Past(b, 0) \cup LaneSet(c)
      /\ Rest(a, 0) = Rest(a, W) \cup LaneSet(u) /\ Rest(b, 0) = Rest(b, W) \cup LaneSet(c)
      /\ \A x \in Rest(a, W) : x \in Int /\ x > u[W]
      /\ \A x \in Rest(b, W) : x \in Int /\ x > c[W]
      /\ u[1] < u[2] /\ u[1] \in LaneSet(u) /\ u[1] \in Int /\ u[2] \in Int /\ u[W] \in Int /\ c[W] \in Int
      /\ u[2] \in Value
  BY <1>3, <1>4 DEF BlockOf
<1>6. /\ Ordered(low) /\ Ordered(high)
      /\ \A k, l \in Lanes : low[k] <= high[l]
      /\ LaneSet(low) \cup LaneSet(high) = LaneSet(u) \cup LaneSet(c)
      /\ low[W] <= u[W] /\ low[W] <= c[W]
  BY <1>5, MergeSplits
<1> HIDE DEF low, high
<1>7. Range(out) = {}
  BY <1>2, EmptyArray
<1>8. low[1] # LAST
  <2>1. low[1] <= u[1]
    <3>1. u[1] \in LaneSet(low) \/ u[1] \in LaneSet(high)
      BY <1>5, <1>6
    <3>2. \A x \in LaneSet(low) : low[1] <= x
      BY <1>6, VectorSeq
    <3>3. \A x \in LaneSet(high) : low[1] <= x
      BY <1>3, <1>6 DEF LaneSet
    <3> QED
      BY <3>1, <3>2, <3>3
  <2>2. u[2] <= LAST
    BY <1>5, Numbers DEF Value
  <2> QED
    BY <1>3, <1>5, <2>1, <2>2
<1>9. \A y \in rest : low[W] < y
  <2>1. low[W] \in Int
    <3>1. low[W] \in LaneSet(low)
      BY <1>6, VectorSeq
    <3> QED
      BY <1>6, <3>1, VectorSeq
  <2> QED
    BY <1>1, <1>5, <1>6, <2>1
<1>10. Range(out) \cup LaneSet(u) \cup LaneSet(c) \cup rest = Result
  <2>1. Result = Rest(a, 0) \cup Rest(b, 0)
    BY <1>1, <1>2, RangeIs DEF Result, A, B
  <2> QED
    BY <1>1, <1>5, <1>7, <2>1
<1>11. LaneSet(u) \cup LaneSet(c) \subseteq Past(a, ia') \cup Past(b, ib')
  BY <1>1, <1>5
<1>12. AtMost(Range(out), LaneSet(u) \cup LaneSet(c)) /\ Below(Range(out), rest)
  BY <1>7 DEF AtMost, Below
<1>13. /\ ia' \in Nat /\ ib' \in Nat /\ ia' % W = 0 /\ ib' % W = 0
       /\ phase' = (IF more(ia', ib') THEN "merge" ELSE "tail")
  BY <1>1, <1>3
<1>14. low = simd_merge(u, c)[1] /\ high = simd_merge(u, c)[2]
  BY DEF low, high
<1>15. PICK r : r = rest
  OBVIOUS
<1> QED
  BY <1>1, <1>3, <1>5, <1>7, <1>8, <1>9, <1>10, <1>11, <1>12, <1>13, <1>14, MergeStep

LEMMA UnionBlockStep == IInv /\ UnionBlock => IInv'
<1> SUFFICES ASSUME IInv, UnionBlock PROVE IInv'
  OBVIOUS
<1> DEFINE u == IF from_a THEN block(a, ia) ELSE block(b, ib)
           low == simd_merge(u, carry)[1]
           high == simd_merge(u, carry)[2]
           rest == Rest(a, ia') \cup Rest(b, ib')
<1>1. /\ phase = "merge" /\ op = "union" /\ carry # << >> /\ UNCHANGED call /\ matched' = matched
      /\ Merged(u, carry, prev)
      /\ IF from_a THEN ia' = ia + W /\ ib' = ib ELSE ia' = ia /\ ib' = ib + W
      /\ phase' = (IF more(ia', ib') THEN "merge" ELSE "tail")
  BY DEF UnionBlock, At, Go
<1>2. /\ InputInv /\ OutInv /\ Array(a) /\ Array(b) /\ ia \in Nat /\ ib \in Nat
      /\ ia + W <= Len(a) /\ ib + W <= Len(b) /\ prev \in Value
      /\ ia % W = 0 /\ ib % W = 0 /\ Ordered(carry)
      /\ Range(carry) \subseteq Past(a, ia) \cup Past(b, ib)
      /\ Range(out) \cup Left = Result
      /\ AtMost(Range(out), Range(carry))
      /\ Below(Range(out), Rest(a, ia) \cup Rest(b, ib))
      /\ prev \in Range(out) /\ AtMost(Range(out), {prev})
  BY <1>1, InputFacts DEF IInv, InputInv, PlaceInv, UnionInv
<1>3. W \in Nat /\ W >= 2 /\ 1 \in Lanes /\ W \in Lanes
  BY Numbers DEF Lanes
<1>4. PICK p : BlockOf(a, ia, p) /\ p = block(a, ia)
  BY <1>2, BlockBounds
<1>5. PICK q : BlockOf(b, ib, q) /\ q = block(b, ib)
  BY <1>2, BlockBounds
<1>6. /\ Ordered(p) /\ p[1] = a[ia + 1] /\ p[1] \in Int /\ p[W] \in Int /\ p[1] \in LaneSet(p)
      /\ Past(a, ia + W) = Past(a, ia) \cup LaneSet(p) /\ Rest(a, ia) = Rest(a, ia + W) \cup LaneSet(p)
      /\ (\A x \in LaneSet(p) : x \in Int /\ p[1] <= x /\ x <= p[W])
      /\ (\A x \in Past(a, ia) : x \in Int /\ x < p[1]) /\ (\A x \in Rest(a, ia + W) : x \in Int /\ x > p[W])
  BY <1>3, <1>4 DEF BlockOf
<1>7. /\ Ordered(q) /\ q[1] = b[ib + 1] /\ q[1] \in Int /\ q[W] \in Int /\ q[1] \in LaneSet(q)
      /\ Past(b, ib + W) = Past(b, ib) \cup LaneSet(q) /\ Rest(b, ib) = Rest(b, ib + W) \cup LaneSet(q)
      /\ (\A x \in LaneSet(q) : x \in Int /\ q[1] <= x /\ x <= q[W])
      /\ (\A x \in Past(b, ib) : x \in Int /\ x < q[1]) /\ (\A x \in Rest(b, ib + W) : x \in Int /\ x > q[W])
  BY <1>3, <1>5 DEF BlockOf
<1>8. u = IF p[1] <= q[1] THEN p ELSE q
  BY <1>4, <1>5, <1>6, <1>7 DEF from_a
<1>9. IF p[1] <= q[1] THEN ia' = ia + W /\ ib' = ib ELSE ia' = ia /\ ib' = ib + W
  BY <1>1, <1>6, <1>7 DEF from_a
<1> HIDE DEF u
<1>10. Ordered(u)
  BY <1>6, <1>7, <1>8
<1>11. /\ Range(carry) = LaneSet(carry) /\ carry[W] \in LaneSet(carry)
       /\ \A x \in LaneSet(carry) : x \in Int
  BY <1>2, VectorSeq
<1>12. /\ Ordered(low) /\ Ordered(high) /\ low[W] <= u[W] /\ low[W] <= carry[W]
  BY <1>2, <1>10, MergeSplits
<1> HIDE DEF low, high
<1>13. low[W] \in Int
  <2>1. low[W] \in LaneSet(low)
    BY <1>12, VectorSeq
  <2> QED
    BY <1>12, <2>1, VectorSeq
<1>14. ia' \in Nat /\ ib' \in Nat /\ ia' % W = 0 /\ ib' % W = 0
  <2>1. W >= 1
    BY <1>3
  <2>2. (ia + W) % W = 0
    BY <1>2, <1>3, <2>1, StepOn
  <2>3. (ib + W) % W = 0
    BY <1>2, <1>3, <2>1, StepOn
  <2> QED
    BY <1>2, <1>3, <1>9, <2>2, <2>3
<1>15. /\ LaneSet(u) \cup rest = Rest(a, ia) \cup Rest(b, ib)
       /\ LaneSet(u) \cup LaneSet(carry) \subseteq Past(a, ia') \cup Past(b, ib')
  <2>1. CASE p[1] <= q[1]
    <3>1. u = p /\ ia' = ia + W /\ ib' = ib
      BY <1>8, <1>9, <2>1
    <3> QED
      BY <1>2, <1>6, <1>11, <3>1
  <2>2. CASE ~ (p[1] <= q[1])
    <3>1. u = q /\ ia' = ia /\ ib' = ib + W
      BY <1>8, <1>9, <2>2
    <3> QED
      BY <1>2, <1>7, <1>11, <3>1
  <2> QED
    BY <2>1, <2>2
<1>16. Range(out) \cup LaneSet(u) \cup LaneSet(carry) \cup rest = Result
  BY <1>2, <1>11, <1>15 DEF Left
<1>17. \A y \in rest : low[W] < y
  <2>1. CASE p[1] <= q[1]
    <3>1. u = p /\ rest = Rest(a, ia + W) \cup Rest(b, ib)
      BY <1>8, <1>9, <2>1
    <3>2. carry[W] \in Int /\ carry[W] < q[1]
      BY <1>2, <1>6, <1>7, <1>11, <2>1
    <3>3. \A y \in Rest(b, ib) : y \in Int /\ q[1] <= y
      BY <1>7
    <3> HIDE DEF rest
    <3> QED
      BY <1>6, <1>7, <1>12, <1>13, <3>1, <3>2, <3>3
  <2>2. CASE ~ (p[1] <= q[1])
    <3>1. u = q /\ rest = Rest(a, ia) \cup Rest(b, ib + W)
      BY <1>8, <1>9, <2>2
    <3>2. carry[W] \in Int /\ carry[W] < p[1]
      BY <1>2, <1>6, <1>7, <1>11, <2>2
    <3>3. \A y \in Rest(a, ia) : y \in Int /\ p[1] <= y
      BY <1>6
    <3> HIDE DEF rest
    <3> QED
      BY <1>6, <1>7, <1>12, <1>13, <3>1, <3>2, <3>3
  <2> QED
    BY <2>1, <2>2
<1>18. Below(Range(out), rest)
  BY <1>2, <1>15 DEF Below
<1>19. AtMost(Range(out), LaneSet(u) \cup LaneSet(carry))
  <2>1. \A x \in Range(out) : x \in Int
    BY <1>2, RangeIs, Numbers DEF OutInv
  <2>2. \A x \in Range(out), y \in LaneSet(u) : x < y /\ y \in Int
    BY <1>2, <1>6, <1>7, <1>8, <1>15 DEF Below
  <2> QED
    BY <1>2, <1>11, <2>1, <2>2 DEF AtMost
<1>20. low = simd_merge(u, carry)[1] /\ high = simd_merge(u, carry)[2]
  BY DEF low, high
<1> QED
  BY <1>1, <1>2, <1>10, <1>14, <1>15, <1>16, <1>17, <1>18, <1>19, <1>20, MergeStep

----------------------------------------------------------------------------
\* What one side of a union's tail shows, and what is left of it when the least
\* of the three is taken.
Shown(h, some, left, left1, m) ==
  /\ h \in Value /\ left \subseteq Value
  /\ \A x \in left : h <= x
  /\ some => h \in left
  /\ ~ some => h = LAST /\ left = {}
  /\ m <= h => left1 \subseteq left /\ left \subseteq left1 \cup {m}
  /\ some /\ m = h => m \in left

LEMMA ArrayShows ==
  ASSUME NEW s, Array(s), NEW i \in Nat, NEW m \in Value,
         NEW j, j = (IF head(s, i) = m THEN i + 1 ELSE i)
  PROVE  /\ j \in Nat
         /\ Shown(head(s, i), i < Len(s), Rest(s, i), Rest(s, j), m)
<1>1. PICK n \in Nat : n = Len(s)
  BY ArrayFacts
<1>2. LAST \in Value /\ Rest(s, i) \subseteq Value /\ Rest(s, j) \subseteq Value /\ j \in Nat
  <2>1. j \in Nat
    OBVIOUS
  <2>2. Rest(s, i) \subseteq Range(s) /\ Rest(s, j) \subseteq Range(s) /\ Range(s) \subseteq Value
    BY <2>1, RangeIs
  <2> QED
    BY <2>1, <2>2, Numbers DEF Value
<1>3. CASE i < n
  <2>1. PICK x : x = s[i + 1] /\ ValueOf(s, i, x)
    BY <1>1, <1>3, ValueBounds
  <2>2. head(s, i) = x
    BY <1>1, <1>3, <2>1 DEF head
  <2>3. /\ x \in Value /\ x \in Int /\ x \in Rest(s, i) /\ Rest(s, i) = Rest(s, i + 1) \cup {x}
        /\ \A y \in Rest(s, i + 1) : y \in Int /\ y > x
    BY <2>1 DEF ValueOf
  <2>4. \A y \in Rest(s, i) : x <= y
    BY <2>3
  <2>5. Rest(s, j) \subseteq Rest(s, i) /\ Rest(s, i) \subseteq Rest(s, j) \cup {m}
    BY <2>2, <2>3
  <2> QED
    BY <1>1, <1>2, <1>3, <2>2, <2>3, <2>4, <2>5 DEF Shown
<1>4. CASE ~ (i < n)
  <2>1. head(s, i) = LAST
    BY <1>1, <1>4 DEF head
  <2>2. i >= n /\ j >= n
    BY <1>1, <1>4
  <2>3. Rest(s, i) = {} /\ Rest(s, j) = {}
    BY <1>1, <1>2, <2>2, RangeIs
  <2> QED
    BY <1>1, <1>2, <1>4, <2>1, <2>3 DEF Shown
<1> QED
  BY <1>3, <1>4

LEMMA CarryShows ==
  ASSUME NEW s \in Seq(Value), InRow(s), NEW m \in Value,
         NEW t, t = (IF s # << >> /\ Head(s) = m THEN Tail(s) ELSE s)
  PROVE  /\ t \in Seq(Value) /\ InRow(t)
         /\ Shown(head(s, 0), s # << >>, Range(s), Range(t), m)
<1>1. PICK n \in Nat : n = Len(s) /\ DOMAIN s = 1 .. n
  BY LenProperties
<1>2. (\A i \in 1 .. n : s[i] \in Value /\ s[i] \in Int) /\ LAST \in Value
  BY <1>1, ElementOfSeq, Numbers DEF Value
<1>3. \A x : x \in Range(s) <=> \E i \in 1 .. n : x = s[i]
  BY <1>1 DEF Range
<1>4. CASE s # << >>
  <2>1. n >= 1 /\ 1 \in 1 .. n
    BY <1>1, <1>4, EmptySeq
  <2>2. head(s, 0) = s[1] /\ Head(s) = s[1]
    <3>1. head(s, 0) = s[0 + 1] /\ 0 + 1 = 1
      BY <1>1, <2>1 DEF head
    <3>2. Head(s) = s[1]
      BY <1>4, HeadTailProperties
    <3> QED
      BY <3>1, <3>2
  <2>3. \A i \in 1 .. n : s[1] <= s[i]
    BY <1>1, <2>1 DEF InRow
  <2> DEFINE r == Tail(s)
  <2>4. r \in Seq(Value) /\ Len(r) = n - 1 /\ \A i \in 1 .. n - 1 : r[i] = s[i + 1] /\ i + 1 \in 1 .. n
    <3>1. r \in Seq(Value) /\ Len(r) = n - 1 /\ \A i \in 1 .. Len(r) : r[i] = s[i + 1]
      BY <1>1, <1>4, HeadTailProperties
    <3> QED
      BY <3>1
  <2> HIDE DEF r
  <2>5. InRow(r)
    <3>1. \A i, j \in 1 .. n - 1 : i <= j => i + 1 <= j + 1
      OBVIOUS
    <3> QED
      BY <1>1, <2>4, <3>1 DEF InRow
  <2>6. Range(r) \subseteq Range(s) /\ Range(s) \subseteq Range(r) \cup {s[1]}
    <3>1. DOMAIN r = 1 .. n - 1
      BY <2>4, LenProperties
    <3>2. \A x : x \in Range(r) <=> \E i \in 1 .. n - 1 : x = r[i]
      BY <3>1 DEF Range
    <3>3. \A i \in 1 .. n : i = 1 \/ (i - 1 \in 1 .. n - 1 /\ (i - 1) + 1 = i)
      OBVIOUS
    <3>4. \A i \in 1 .. n : s[i] = s[1] \/ s[i] \in Range(r)
      <4>1. TAKE i \in 1 .. n
      <4>2. CASE i - 1 \in 1 .. n - 1 /\ (i - 1) + 1 = i
        <5>1. r[i - 1] = s[i]
          BY <2>4, <4>2
        <5> QED
          BY <3>2, <4>2, <5>1
      <4> QED
        BY <3>3, <4>2
    <3>5. \A x \in Range(r) : x \in Range(s)
      BY <1>3, <2>4, <3>2
    <3>6. \A x \in Range(s) : x \in Range(r) \cup {s[1]}
      BY <1>3, <3>4
    <3> QED
      BY <3>5, <3>6
  <2>7. t = (IF s[1] = m THEN r ELSE s)
    BY <1>4, <2>2 DEF r
  <2>8. t \in Seq(Value) /\ InRow(t) /\ Range(t) \subseteq Range(s) /\ Range(s) \subseteq Range(t) \cup {m}
    BY <2>4, <2>5, <2>6, <2>7
  <2>9. \A x \in Range(s) : x \in Value /\ s[1] <= x
    BY <1>2, <1>3, <2>3
  <2>10. s[1] \in Range(s) /\ s[1] \in Value
    BY <1>2, <1>3, <2>1
  <2> QED
    BY <1>4, <2>2, <2>8, <2>9, <2>10 DEF Shown
<1>5. CASE s = << >>
  <2>1. n = 0
    BY <1>1, <1>5, EmptySeq
  <2>2. head(s, 0) = LAST /\ Range(s) = {} /\ t = s
    BY <1>1, <1>3, <1>5, <2>1 DEF head
  <2> QED
    BY <1>2, <1>5, <2>2 DEF Shown
<1> QED
  BY <1>4, <1>5

\* The least of what is left, whether anything is, and what taking it leaves.
Taken(m, carry1, ia1, ib1, left1) ==
  /\ m \in Value /\ m \in Int /\ ia1 \in Nat /\ ib1 \in Nat
  /\ carry1 \in Seq(Value) /\ InRow(carry1)
  /\ \A x \in Left : x \in Int /\ m <= x
  /\ left1 \subseteq Left /\ Left \subseteq left1 \cup {m}
  /\ used_up => Left = {}
  /\ ~ used_up => m \in Left

LEMMA TailShows ==
  ASSUME IInv, phase = "tail", op = "union", NEW m, m = least,
         NEW carry1, carry1 = (IF carry # << >> /\ Head(carry) = m THEN Tail(carry) ELSE carry),
         NEW ia1, ia1 = (IF head(a, ia) = m THEN ia + 1 ELSE ia),
         NEW ib1, ib1 = (IF head(b, ib) = m THEN ib + 1 ELSE ib),
         NEW left1, left1 = Range(carry1) \cup Rest(a, ia1) \cup Rest(b, ib1)
  PROVE  Taken(m, carry1, ia1, ib1, left1)
<1>1. /\ InputInv /\ Array(a) /\ Array(b) /\ ia \in Nat /\ ib \in Nat /\ na = Len(a) /\ nb = Len(b)
      /\ carry \in Seq(Value) /\ InRow(carry)
  BY InputFacts DEF IInv, InputInv, PlaceInv, UnionInv
<1>2. PICK x, y, z : x = head(carry, 0) /\ y = head(a, ia) /\ z = head(b, ib)
  OBVIOUS
<1>3. (ia < na <=> ia < Len(a)) /\ (ib < nb <=> ib < Len(b))
  BY <1>1
<1>4. x \in Value /\ y \in Value /\ z \in Value
  <2>1. LAST \in Value
    BY Numbers DEF Value
  <2>2. \A s : s \in Seq(Value) => \A i \in Nat : head(s, i) \in Value
    <3>1. TAKE s
    <3>2. HAVE s \in Seq(Value)
    <3>3. TAKE i \in Nat
    <3>4. Len(s) \in Nat
      BY <3>2, LenProperties
    <3>5. i < Len(s) => i + 1 \in 1 .. Len(s)
      BY <3>4
    <3>6. i < Len(s) => s[i + 1] \in Value
      BY <3>2, <3>5, ElementOfSeq
    <3> QED
      BY <2>1, <3>6 DEF head
  <2> QED
    BY <1>1, <1>2, <2>2, ArrayFacts
<1>5. /\ m \in {x, y, z} /\ m \in Value /\ m \in Int /\ x \in Int /\ y \in Int /\ z \in Int
      /\ m <= x /\ m <= y /\ m <= z
  <2>1. {x, y, z} \in SUBSET Nat /\ {x, y, z} # {}
    BY <1>4, Numbers
  <2>2. Min({x, y, z}) \in {x, y, z} /\ \A n \in {x, y, z} : Min({x, y, z}) <= n
    BY <2>1, LeastIs
  <2>3. m = Min({x, y, z})
    BY <1>2 DEF least
  <2> QED
    BY <1>4, <2>2, <2>3, Numbers
<1>6. carry1 \in Seq(Value) /\ InRow(carry1) /\ Shown(x, carry # << >>, Range(carry), Range(carry1), m)
  BY <1>1, <1>2, <1>3, <1>5, CarryShows
<1>7. ia1 \in Nat /\ Shown(y, ia < Len(a), Rest(a, ia), Rest(a, ia1), m)
  BY <1>1, <1>2, <1>3, <1>5, ArrayShows
<1>8. ib1 \in Nat /\ Shown(z, ib < Len(b), Rest(b, ib), Rest(b, ib1), m)
  BY <1>1, <1>2, <1>3, <1>5, ArrayShows
<1>9. \A v \in Left : v \in Int /\ m <= v
  <2>1. \A v \in Left : v \in Value /\ (x <= v \/ y <= v \/ z <= v)
    BY <1>6, <1>7, <1>8 DEF Left, Shown
  <2>2. \A v \in Left : v \in Int
    BY <2>1, Numbers
  <2> QED
    BY <1>5, <2>1, <2>2
<1>10. left1 \subseteq Left /\ Left \subseteq left1 \cup {m}
  BY <1>5, <1>6, <1>7, <1>8 DEF Left, Shown
<1>11. used_up <=> m = LAST /\ carry = << >> /\ ~ (ia < Len(a)) /\ ~ (ib < Len(b))
  <2>1. (ia >= na <=> ~ (ia < na)) /\ (ib >= nb <=> ~ (ib < nb))
    BY <1>1, ArrayFacts
  <2> QED
    BY <1>3, <2>1 DEF used_up
<1>12. used_up => Left = {}
  BY <1>6, <1>7, <1>8, <1>11 DEF Left, Shown
<1>13. ASSUME ~ used_up PROVE m \in Left
  <2>1. CASE (m = x /\ carry # << >>) \/ (m = y /\ ia < Len(a)) \/ (m = z /\ ib < Len(b))
    BY <1>6, <1>7, <1>8, <2>1 DEF Left, Shown
  <2>2. CASE ~ ((m = x /\ carry # << >>) \/ (m = y /\ ia < Len(a)) \/ (m = z /\ ib < Len(b)))
    <3>1. m = LAST
      BY <1>3, <1>5, <1>6, <1>7, <1>8, <2>2 DEF Shown
    <3>2. m = x /\ m = y /\ m = z
      <4>1. x <= LAST /\ y <= LAST /\ z <= LAST
        BY <1>4, Numbers DEF Value
      <4> QED
        BY <1>5, <3>1, <4>1
    <3> QED
      BY <1>3, <1>11, <1>13, <2>2, <3>1, <3>2
  <2> QED
    BY <2>1, <2>2
<1> QED
  BY <1>5, <1>6, <1>7, <1>8, <1>9, <1>10, <1>12, <1>13 DEF Taken

LEMMA UnionTailStep == IInv /\ UnionTail => IInv'
<1> SUFFICES ASSUME IInv, UnionTail PROVE IInv'
  OBVIOUS
<1>1. PICK m : m = least
  OBVIOUS
<1>2. /\ phase = "tail" /\ phase' = "tail" /\ op = "union" /\ ~ used_up
      /\ UNCHANGED call /\ matched' = matched /\ prev' = prev
      /\ IF out = << >> \/ Last(out) # m THEN Store(<< m >>) ELSE Keep
      /\ carry' = (IF carry # << >> /\ Head(carry) = m THEN Tail(carry) ELSE carry)
      /\ ia' = (IF head(a, ia) = m THEN ia + 1 ELSE ia)
      /\ ib' = (IF head(b, ib) = m THEN ib + 1 ELSE ib)
  BY <1>1 DEF UnionTail, At
<1>3. PICK left1 : left1 = Range(carry') \cup Rest(a, ia') \cup Rest(b, ib')
  OBVIOUS
<1>4. /\ m \in Value /\ m \in Int /\ ia' \in Nat /\ ib' \in Nat
      /\ carry' \in Seq(Value) /\ InRow(carry')
      /\ \A x \in Left : x \in Int /\ m <= x
      /\ left1 \subseteq Left /\ Left \subseteq left1 \cup {m}
      /\ m \in Left
  <2>1. Taken(m, carry', ia', ib', left1)
    BY <1>1, <1>2, <1>3, TailShows
  <2> QED
    BY <1>2, <2>1 DEF Taken
<1>5. /\ InputInv /\ OutInv /\ Array(out) /\ Range(out) \cup Left = Result /\ AtMost(Range(out), Left)
  BY <1>2 DEF IInv, OutInv, UnionInv
<1>6. op' = op /\ a' = a /\ b' = b /\ Result' = Result
  BY <1>2, SameCall
<1> DEFINE vals == IF out = << >> \/ Last(out) # m THEN << m >> ELSE << >>
<1>7. Stored(vals)
  BY <1>2 DEF Stored
<1>8. Array(vals) /\ Range(vals) = IF out = << >> \/ Last(out) # m THEN {m} ELSE {}
  BY <1>4, OneValue, EmptyArray
<1> HIDE DEF vals
<1>9. out # << >> => /\ Last(out) \in Range(out) /\ Last(out) \in Int
                     /\ \A x \in Range(out) : x \in Int /\ x <= Last(out)
  BY <1>5, Ends DEF Last
<1>10. Below(Range(out), Range(vals))
  <2>1. CASE out = << >>
    BY <2>1, EmptyArray DEF Below
  <2>2. CASE out # << >>
    <3>1. Last(out) <= m
      BY <1>4, <1>5, <1>9, <2>2 DEF AtMost
    <3>2. \A y \in Range(vals) : y = m /\ Last(out) < m
      BY <1>4, <1>8, <1>9, <2>2, <3>1
    <3> QED
      BY <1>4, <1>9, <2>2, <3>2 DEF Below
  <2> QED
    BY <2>1, <2>2
<1>11. Range(vals) \subseteq Result
  BY <1>4, <1>5, <1>8
<1>12. InputInv' /\ OutInv' /\ Range(out') = Range(out) \cup Range(vals)
  BY <1>2, <1>5, <1>7, <1>8, <1>10, <1>11, StoreKeeps
<1>13. Range(out') = Range(out) \cup {m}
  <2>1. CASE out = << >> \/ Last(out) # m
    BY <1>8, <1>12, <2>1
  <2>2. CASE ~ (out = << >> \/ Last(out) # m)
    BY <1>8, <1>9, <1>12, <2>2
  <2> QED
    BY <2>1, <2>2
<1>14. Range(out') \cup left1 = Result /\ AtMost(Range(out'), left1)
  <2>1. Range(out') \cup left1 = Result
    BY <1>4, <1>5, <1>13
  <2>2. AtMost(Range(out'), left1)
    BY <1>4, <1>5, <1>13 DEF AtMost
  <2> QED
    BY <2>1, <2>2
<1>15. UnionInv'
  <2>1. Left' = left1
    BY <1>3, <1>6 DEF Left
  <2>2. (Range(out) \cup Left = Result)' /\ (AtMost(Range(out), Left))' /\ (InRow(carry))'
    BY <1>4, <1>6, <1>14, <2>1 DEF InRow
  <2> QED
    BY <1>2, <2>2 DEF UnionInv
<1>16. PlaceInv'
  <2>1. matched \subseteq Lanes /\ prev \in Value
    BY DEF IInv, PlaceInv
  <2> QED
    BY <1>2, <1>4, <1>6, <2>1 DEF PlaceInv
<1>17. IntersectInv' /\ DiffInv' /\ ScanInv' /\ DoneInv'
  BY <1>2, <1>6 DEF IntersectInv, DiffInv, ScanInv, DoneInv
<1> QED
  BY <1>12, <1>15, <1>16, <1>17 DEF IInv

LEMMA UnionDoneStep == IInv /\ UnionDone => IInv'
<1> SUFFICES ASSUME IInv, UnionDone PROVE IInv'
  OBVIOUS
<1>1. /\ phase = "tail" /\ phase' = "done" /\ op = "union" /\ used_up /\ UNCHANGED call
      /\ ia' = ia /\ ib' = ib /\ matched' = matched /\ carry' = carry /\ prev' = prev
      /\ UNCHANGED << out, top >>
  BY DEF UnionDone, Go
<1>2. /\ InputInv /\ OutInv /\ Range(out) \cup Left = Result
      /\ ia \in Nat /\ ib \in Nat /\ matched \subseteq Lanes /\ carry \in Seq(Value) /\ prev \in Value
  BY <1>1 DEF IInv, PlaceInv, UnionInv
<1>3. Left = {}
  <2>1. PICK m, c, i, j : /\ m = least
                          /\ c = (IF carry # << >> /\ Head(carry) = m THEN Tail(carry) ELSE carry)
                          /\ i = (IF head(a, ia) = m THEN ia + 1 ELSE ia)
                          /\ j = (IF head(b, ib) = m THEN ib + 1 ELSE ib)
    OBVIOUS
  <2>2. PICK left1 : left1 = Range(c) \cup Rest(a, i) \cup Rest(b, j)
    OBVIOUS
  <2>3. Taken(m, c, i, j, left1)
    BY <1>1, <2>1, <2>2, TailShows
  <2> QED
    BY <1>1, <2>3 DEF Taken
<1>4. InputInv' /\ OutInv' /\ Range(out') = Result'
  BY <1>1, <1>2, <1>3, KeepsOut
<1> QED
  BY <1>1, <1>2, <1>4, Halt

----------------------------------------------------------------------------
LEMMA NextStep == IInv /\ [Next]_vars => IInv'
<1>1. IInv /\ UNCHANGED vars => IInv'
  <2> SUFFICES ASSUME IInv, UNCHANGED vars PROVE IInv'
    OBVIOUS
  <2>1. /\ UNCHANGED call /\ UNCHANGED << out, top >> /\ phase' = phase
        /\ ia' = ia /\ ib' = ib /\ matched' = matched /\ carry' = carry /\ prev' = prev
    BY DEF vars, call
  <2>2. /\ op' = op /\ cpu' = cpu /\ a' = a /\ b' = b /\ na' = na /\ nb' = nb /\ B' = B /\ Result' = Result
        /\ InputInv'
    BY <2>1, SameCall DEF IInv
  <2>3. rare' = rare /\ freq' = freq /\ nf' = nf
    BY <2>2 DEF rare, freq, nf
  <2>4. OutInv' /\ PlaceInv'
    BY <2>1, <2>2, KeepsOut DEF IInv, PlaceInv
  <2>5. IntersectInv' /\ DiffInv' /\ DoneInv'
    BY <2>1, <2>2 DEF IInv, IntersectInv, DiffInv, DoneInv, Pending
  <2>6. ScanInv'
    BY <2>1, <2>2, <2>3 DEF IInv, ScanInv, Pending
  <2>7. UnionInv'
    BY <2>1, <2>2 DEF IInv, UnionInv, Left, Pending, InRow, Ordered
  <2> QED
    BY <2>2, <2>4, <2>5, <2>6, <2>7 DEF IInv
<1> QED
  BY <1>1, CallStep, IntersectBlockStep, DiffBlockStep, DiffTailStep, ScalarStep,
     ScalarDoneStep, ScanStep, ScanDoneStep, GallopStep, GallopDoneStep,
     UnionFirstStep, UnionBlockStep, UnionTailStep, UnionDoneStep DEF Next

LEMMA Inductive == Spec => []IInv
<1> QED
  BY InitIInv, NextStep, PTL DEF Spec

\* No kernel loads a block where there is none or stores past the room its
\* caller gave, whatever the lengths, the processor and the operation.
THEOREM KernelsStayInBounds == Spec => []InBounds
<1>1. IInv => InBounds
  <2> SUFFICES ASSUME IInv PROVE InBounds
    OBVIOUS
  <2>1. TypeOK
    BY DEF IInv, InputInv, PlaceInv, OutInv, Array, Value, TypeOK
  <2>2. phase = "tail" /\ op = "diff" => ia + W <= na
    BY DEF IInv, DiffInv
  <2> QED
    BY <2>1, <2>2 DEF IInv, PlaceInv, OutInv, InBounds
<1> QED
  BY <1>1, Inductive, PTL

\* Whichever kernel an operation is dispatched to, and whichever finishes its
\* tail, what is emitted ascends and in the end is the operation on the two sets.
THEOREM KernelsAreExact == Spec => []Exact
<1>1. IInv => Exact
  <2> SUFFICES ASSUME IInv PROVE Exact
    OBVIOUS
  <2>1. Array(out)
    BY DEF IInv, OutInv
  <2>2. Ascends
    <3>1. \A i \in 1 .. Len(out) - 1 : i \in 1 .. Len(out) /\ i + 1 \in 1 .. Len(out) /\ i < i + 1
      BY <2>1, ArrayFacts
    <3> QED
      BY <2>1, <3>1 DEF Array, Ascends
  <2>3. phase = "done" => Range(out) = Result
    BY DEF IInv, DoneInv
  <2> QED
    BY <2>2, <2>3 DEF Exact, Result, A, B
<1> QED
  BY <1>1, Inductive, PTL

=============================================================================
