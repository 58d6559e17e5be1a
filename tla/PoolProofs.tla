----------------------------- MODULE PoolProofs ------------------------------
(***************************************************************************)
(* For any threads and any use of the pools: whatever a call takes it puts *)
(* back, on every path through it and also when it panics; a pool of       *)
(* working memory never counts less than it has handed out; no pool keeps  *)
(* more buffers than its budget lets it; and all result pools together     *)
(* count no less than the bitmaps there are.                               *)
(*                                                                         *)
(* A call is a sequence of pool steps.  The argument is about how many     *)
(* buffers of each pool a call holds before and after each of them, and,   *)
(* for the last claim, about sums over the threads.                        *)
(***************************************************************************)
EXTENDS Pool, SequenceTheorems, FiniteSetTheorems, WellFoundedInduction, TLAPS

----------------------------------------------------------------------------
\* How many buffers of each pool a call holds.
Counts == [Pools -> Nat]

Differences == [Pools -> Int]

Zero == [p \in Pools |-> 0]

HeldCounts(t) == [p \in Pools |-> HeldCount(t, p)]

More(g, p) == [g EXCEPT ![p] = @ + 1]
Less(g, p, n) == [g EXCEPT ![p] = @ - n]

\* One step of a call that holds g takes it to h.  A take may panic, and what
\* unwinding gives back is right if no fold's scratch is held and the operand
\* stack is held at most once.
Does(g, s, h) ==
  \/ /\ s.op = "take"
     /\ g["fold-scratch"] = 0 /\ g["operand-stack"] <= 1
     /\ h = More(g, s.pool)
  \/ s.op = "put" /\ s.n < g[s.pool] /\ h = Less(g, s.pool, 1)
  \/ s.op = "swap" /\ g["arena"] > 0 /\ g["result"] > 0 /\ h = g
  \/ s.op \in {"own", "lose"} /\ g["result"] > 0 /\ h = Less(g, "result", 1)

\* The steps in turn take g to h.
Runs(g, steps, h) ==
  \E f \in [1 .. Len(steps) + 1 -> Counts] :
    /\ f[1] = g /\ f[Len(steps) + 1] = h
    /\ \A i \in 1 .. Len(steps) : Does(f[i], steps[i], f[i + 1])

\* What a call holds once its steps are done: nothing, but between the
\* instructions of a tree its operand stack and the arenas on it.
AtRest(c, h) ==
  \A p \in Pools :
    IF c = "tree"
    THEN p # "arena" => h[p] = IF p = "operand-stack" THEN 1 ELSE 0
    ELSE h[p] = 0

\* The steps left of this call take what it holds to nothing.
Closes(g, steps, c) == \E h \in Counts : Runs(g, steps, h) /\ AtRest(c, h)

Balanced ==
  \A t \in Threads :
    /\ Closes(HeldCounts(t), todo[t], call[t])
    /\ call[t] = "none" => todo[t] = << >>

IInv == TypeOK /\ Balanced /\ WorkingLiveExact

----------------------------------------------------------------------------
\* Facts about running steps.

LEMMA CountsFacts ==
  ASSUME NEW g \in Counts, NEW p \in Pools
  PROVE  /\ More(g, p) \in Counts
         /\ \A n \in Nat : n <= g[p] => Less(g, p, n) \in Counts
  BY DEF Counts, More, Less

\* Before anything is known of what is left.
LEMMA IntCounts ==
  /\ \A g \in Counts : g \in Differences
  /\ \A g \in Differences, p \in Pools, n \in Int :
       More(g, p) \in Differences /\ Less(g, p, n) \in Differences
<1>1. ASSUME NEW g \in Counts
      PROVE  g \in Differences
  <2>1. \A p \in Pools : g[p] \in Int
    BY DEF Counts
  <2> QED
    BY <2>1 DEF Counts, Differences
<1>2. ASSUME NEW g \in Differences, NEW p \in Pools, NEW n \in Int
      PROVE  More(g, p) \in Differences /\ Less(g, p, n) \in Differences
  BY <1>2 DEF More, Less, Differences
<1> QED
  BY <1>1, <1>2

LEMMA SameCounts ==
  ASSUME NEW g \in Differences, NEW h \in Differences, \A p \in Pools : g[p] = h[p]
  PROVE  g = h
  BY DEF Differences

LEMMA ZeroCounts == Zero \in Counts
  BY DEF Zero, Counts

\* Doing nothing.
LEMMA RunsNone ==
  ASSUME NEW g \in Counts
  PROVE  Runs(g, << >>, g)
<1> DEFINE f == [i \in 1 .. 1 |-> g]
<1>1. f \in [1 .. Len(<< >>) + 1 -> Counts] /\ f[1] = g /\ f[Len(<< >>) + 1] = g
  OBVIOUS
<1>2. \A i \in 1 .. Len(<< >>) : Does(f[i], << >>[i], f[i + 1])
  OBVIOUS
<1> HIDE DEF f
<1> QED
  BY <1>1, <1>2 DEF Runs

LEMMA RunsOne ==
  ASSUME NEW g \in Counts, NEW h \in Counts, NEW a, Does(g, a, h)
  PROVE  Runs(g, << a >>, h)
<1> DEFINE f == << g, h >>
<1>1. f \in [1 .. Len(<< a >>) + 1 -> Counts]
  OBVIOUS
<1>2. \A i \in 1 .. Len(<< a >>) : Does(f[i], << a >>[i], f[i + 1])
  OBVIOUS
<1> QED
  BY <1>1, <1>2 DEF Runs

\* One call after another.
LEMMA RunsConcat ==
  ASSUME NEW s \in Seq(Instruction), NEW r \in Seq(Instruction),
         NEW g, NEW m, NEW h, Runs(g, s, m), Runs(m, r, h)
  PROVE  Runs(g, s \o r, h)
<1>1. PICK u \in [1 .. Len(s) + 1 -> Counts] :
        /\ u[1] = g /\ u[Len(s) + 1] = m
        /\ \A i \in 1 .. Len(s) : Does(u[i], s[i], u[i + 1])
  BY DEF Runs
<1>2. PICK v \in [1 .. Len(r) + 1 -> Counts] :
        /\ v[1] = m /\ v[Len(r) + 1] = h
        /\ \A i \in 1 .. Len(r) : Does(v[i], r[i], v[i + 1])
  BY DEF Runs
<1>3. /\ Len(s) \in Nat /\ Len(r) \in Nat /\ Len(s \o r) = Len(s) + Len(r)
      /\ \A i \in 1 .. Len(s) + Len(r) :
           (s \o r)[i] = IF i <= Len(s) THEN s[i] ELSE r[i - Len(s)]
  BY ConcatProperties
<1> DEFINE f == [i \in 1 .. Len(s) + Len(r) + 1 |->
                   IF i <= Len(s) THEN u[i] ELSE v[i - Len(s)]]
<1>4. f \in [1 .. Len(s \o r) + 1 -> Counts]
  BY <1>3
<1>5. f[1] = g
  BY <1>1, <1>2, <1>3
<1>6. f[Len(s \o r) + 1] = h
  BY <1>2, <1>3
<1>7. ASSUME NEW i \in 1 .. Len(s \o r)
      PROVE  Does(f[i], (s \o r)[i], f[i + 1])
  <2>1. CASE i < Len(s)
    BY <2>1, <1>1, <1>3
  <2>2. CASE i = Len(s)
    <3>1. f[i] = u[i] /\ f[i + 1] = v[1] /\ (s \o r)[i] = s[i]
      BY <2>2, <1>3
    <3> QED
      BY <3>1, <2>2, <1>1, <1>2, <1>3
  <2>3. CASE i > Len(s)
    <3>1. /\ f[i] = v[i - Len(s)] /\ f[i + 1] = v[i - Len(s) + 1]
          /\ (s \o r)[i] = r[i - Len(s)] /\ i - Len(s) \in 1 .. Len(r)
      BY <2>3, <1>3
    <3> QED
      BY <3>1, <1>2
  <2> QED
    BY <2>1, <2>2, <2>3, <1>3
<1> HIDE DEF f
<1> QED
  BY <1>4, <1>5, <1>6, <1>7 DEF Runs

\* The first step, and the rest.
LEMMA RunsFirst ==
  ASSUME NEW s \in Seq(Instruction), s # << >>,
         NEW g, NEW h, Runs(g, s, h)
  PROVE  \E m \in Counts : Does(g, Head(s), m) /\ Runs(m, Tail(s), h)
<1>1. PICK u \in [1 .. Len(s) + 1 -> Counts] :
        /\ u[1] = g /\ u[Len(s) + 1] = h
        /\ \A i \in 1 .. Len(s) : Does(u[i], s[i], u[i + 1])
  BY DEF Runs
<1>2. /\ Len(s) \in Nat \ {0} /\ Head(s) = s[1] /\ Len(Tail(s)) = Len(s) - 1
      /\ \A i \in 1 .. Len(Tail(s)) : Tail(s)[i] = s[i + 1]
  BY HeadTailProperties, EmptySeq
<1> DEFINE f == [i \in 1 .. Len(Tail(s)) + 1 |-> u[i + 1]]
<1>3. f \in [1 .. Len(Tail(s)) + 1 -> Counts]
  BY <1>2
<1>4. f[1] = u[2] /\ f[Len(Tail(s)) + 1] = h
  BY <1>1, <1>2
<1>5. \A i \in 1 .. Len(Tail(s)) : Does(f[i], Tail(s)[i], f[i + 1])
  BY <1>1, <1>2
<1>6. u[2] \in Counts /\ Does(g, Head(s), u[2])
  BY <1>1, <1>2
<1> HIDE DEF f
<1>7. Runs(u[2], Tail(s), h)
  BY <1>3, <1>4, <1>5 DEF Runs
<1> QED
  BY <1>6, <1>7

LEMMA RunsEnd ==
  ASSUME NEW g, NEW h, Runs(g, << >>, h)
  PROVE  g = h
  BY DEF Runs

LEMMA RunsTwo ==
  ASSUME NEW g \in Counts, NEW m \in Counts, NEW h \in Counts, NEW a, NEW b,
         Does(g, a, m), Does(m, b, h)
  PROVE  Runs(g, << a, b >>, h)
<1> DEFINE f == << g, m, h >>
<1>1. f \in [1 .. Len(<< a, b >>) + 1 -> Counts]
  OBVIOUS
<1>2. \A i \in 1 .. Len(<< a, b >>) : Does(f[i], << a, b >>[i], f[i + 1])
  OBVIOUS
<1> QED
  BY <1>1, <1>2 DEF Runs

LEMMA RunsThree ==
  ASSUME NEW g \in Counts, NEW m \in Counts, NEW k \in Counts, NEW h \in Counts,
         NEW a, NEW b, NEW c, Does(g, a, m), Does(m, b, k), Does(k, c, h)
  PROVE  Runs(g, << a, b, c >>, h)
<1> DEFINE f == << g, m, k, h >>
<1>1. f \in [1 .. Len(<< a, b, c >>) + 1 -> Counts]
  OBVIOUS
<1>2. \A i \in 1 .. Len(<< a, b, c >>) : Does(f[i], << a, b, c >>[i], f[i + 1])
  OBVIOUS
<1> QED
  BY <1>1, <1>2 DEF Runs

LEMMA RunsFour ==
  ASSUME NEW g \in Counts, NEW m \in Counts, NEW k \in Counts, NEW l \in Counts,
         NEW h \in Counts, NEW a, NEW b, NEW c, NEW d,
         Does(g, a, m), Does(m, b, k), Does(k, c, l), Does(l, d, h)
  PROVE  Runs(g, << a, b, c, d >>, h)
<1> DEFINE f == << g, m, k, l, h >>
<1>1. f \in [1 .. Len(<< a, b, c, d >>) + 1 -> Counts]
  OBVIOUS
<1>2. \A i \in 1 .. Len(<< a, b, c, d >>) : Does(f[i], << a, b, c, d >>[i], f[i + 1])
  OBVIOUS
<1> QED
  BY <1>1, <1>2 DEF Runs

\* The single steps.
LEMMA DoesTake ==
  ASSUME NEW g \in Counts, NEW p \in Pools, NEW n \in Nat,
         g["fold-scratch"] = 0, g["operand-stack"] <= 1
  PROVE  Does(g, take(p, n), More(g, p)) /\ More(g, p) \in Counts
  BY DEF Does, take, More, Counts

LEMMA DoesPut ==
  ASSUME NEW g \in Counts, NEW p \in Pools, NEW n \in Nat, n < g[p]
  PROVE  Does(g, put(p, n), Less(g, p, 1)) /\ Less(g, p, 1) \in Counts
  BY DEF Does, put, Less, Counts

LEMMA MoreThenLess ==
  ASSUME NEW g \in Counts, NEW p \in Pools
  PROVE  Less(More(g, p), p, 1) = g
<1>1. Less(More(g, p), p, 1) \in Counts
  BY DEF Counts, More, Less
<1>2. \A q \in Pools : Less(More(g, p), p, 1)[q] = g[q]
  BY DEF Counts, More, Less
<1> QED
  BY <1>1, <1>2 DEF Counts

\* A step left out, or taken.
LEMMA RunsWhen ==
  ASSUME NEW c \in BOOLEAN, NEW s \in Seq(Instruction), NEW g \in Counts, NEW h \in Counts,
         c => Runs(g, s, h), ~ c => g = h
  PROVE  When(c, s) \in Seq(Instruction) /\ Runs(g, When(c, s), h)
  BY RunsNone DEF When

LEMMA Instructions ==
  /\ \A p \in Pools, n \in Nat : take(p, n) \in Instruction /\ put(p, n) \in Instruction
  /\ swap \in Instruction /\ own \in Instruction /\ lose \in Instruction
  BY DEF Instruction, take, put, swap, own, lose, Pools, Working

LEMMA PoolNames ==
  {"arena", "slot-plan", "union-agg", "fold-scratch", "operand-stack", "result"} = Pools
  BY DEF Pools, Working

LEMMA PoolMembers ==
  /\ "arena" \in Pools /\ "slot-plan" \in Pools /\ "union-agg" \in Pools
  /\ "fold-scratch" \in Pools /\ "operand-stack" \in Pools /\ "result" \in Pools
  BY PoolNames

----------------------------------------------------------------------------
\* What each call takes it puts back.

\* A FoldScratch loan.
LEMMA LoanRuns ==
  ASSUME NEW g \in Counts, NEW c \in BOOLEAN, g["fold-scratch"] = 0, g["operand-stack"] <= 1
  PROVE  When(c, scratch_loan) \in Seq(Instruction) /\ Runs(g, When(c, scratch_loan), g)
<1> DEFINE m == More(g, "fold-scratch")
<1>1. Does(g, take("fold-scratch", 1), m) /\ m \in Counts
  BY DoesTake, PoolNames
<1>2. m["fold-scratch"] = 1
  BY PoolNames DEF More, Counts
<1>3. Does(m, put("fold-scratch", 0), g)
  <2> HIDE DEF m
  <2>1. Does(m, put("fold-scratch", 0), Less(m, "fold-scratch", 1))
    BY <1>1, <1>2, DoesPut, PoolNames
  <2> QED
    BY <2>1, MoreThenLess, PoolNames DEF m
<1> HIDE DEF m
<1>4. Runs(g, scratch_loan, g)
  BY <1>1, <1>3, RunsTwo DEF scratch_loan
<1>5. scratch_loan \in Seq(Instruction)
  BY Instructions, PoolNames DEF scratch_loan
<1> QED
  BY <1>4, <1>5, RunsWhen

\* serialize_inner trades an arena for a result.
LEMMA SerializeRuns ==
  ASSUME NEW g \in Counts, g["fold-scratch"] = 0, g["operand-stack"] <= 1, g["arena"] > 0
  PROVE  serialize_steps \in Seq(Instruction) /\ Runs(g, serialize_steps, Less(g, "arena", 1))
<1> DEFINE m == More(g, "result")
<1>1. Does(g, take("result", 0), m) /\ m \in Counts
  BY DoesTake, PoolNames
<1>2. m["result"] = g["result"] + 1 /\ m["arena"] = g["arena"]
  BY PoolNames DEF More, Counts
<1>3. Less(m, "result", 1) = g
  BY MoreThenLess, PoolNames
<1> HIDE DEF m
<1>4. Does(m, swap, m) /\ Does(m, own, g)
  BY <1>1, <1>2, <1>3, PoolNames DEF Does, swap, own, Counts
<1>5. Does(g, put("arena", 0), Less(g, "arena", 1)) /\ Less(g, "arena", 1) \in Counts
  BY DoesPut, PoolNames
<1>6. Runs(g, serialize_steps, Less(g, "arena", 1))
  BY <1>1, <1>4, <1>5, RunsFour DEF serialize_steps
<1>7. serialize_steps \in Seq(Instruction)
  BY Instructions, PoolNames DEF serialize_steps
<1> QED
  BY <1>6, <1>7

\* A call that takes a result buffer and hands it over, or frees it.
LEMMA CopyRuns ==
  ASSUME NEW g \in Counts, g["fold-scratch"] = 0, g["operand-stack"] <= 1, NEW bytes \in Nat
  PROVE  /\ copy_steps(bytes) \in Seq(Instruction) /\ Runs(g, copy_steps(bytes), g)
         /\ reject_steps(bytes) \in Seq(Instruction) /\ Runs(g, reject_steps(bytes), g)
<1> DEFINE m == More(g, "result")
<1>1. Does(g, take("result", bytes), m) /\ m \in Counts
  BY DoesTake, PoolNames
<1>2. m["result"] = g["result"] + 1
  BY PoolNames DEF More, Counts
<1>3. Less(m, "result", 1) = g
  BY MoreThenLess, PoolNames
<1> HIDE DEF m
<1>4. Does(m, own, g) /\ Does(m, lose, g)
  BY <1>1, <1>2, <1>3, PoolNames DEF Does, lose, own, Counts
<1>5. Runs(g, copy_steps(bytes), g) /\ Runs(g, reject_steps(bytes), g)
  BY <1>1, <1>4, RunsTwo DEF copy_steps, reject_steps
<1>6. copy_steps(bytes) \in Seq(Instruction) /\ reject_steps(bytes) \in Seq(Instruction)
  BY Instructions, PoolNames DEF copy_steps, reject_steps
<1> QED
  BY <1>5, <1>6

\* Planning leaves a slot vector taken.
LEMMA PlanRuns ==
  ASSUME NEW analyzed \in BOOLEAN
  PROVE  /\ plan_steps(analyzed) \in Seq(Instruction)
         /\ Runs(Zero, plan_steps(analyzed), More(Zero, "slot-plan"))
<1> DEFINE m == More(Zero, "slot-plan")
<1>1. Does(Zero, take("slot-plan", 1), m) /\ m \in Counts
  BY DoesTake, PoolNames, ZeroCounts DEF Zero
<1>2. m["fold-scratch"] = 0 /\ m["operand-stack"] = 0
  BY PoolNames DEF More, Zero
<1> HIDE DEF m
<1>3. When(analyzed, scratch_loan) \in Seq(Instruction) /\ Runs(m, When(analyzed, scratch_loan), m)
  BY <1>1, <1>2, LoanRuns
<1>4. Runs(Zero, << take("slot-plan", 1) >>, m) /\ << take("slot-plan", 1) >> \in Seq(Instruction)
  BY <1>1, RunsOne, ZeroCounts, Instructions, PoolNames
<1>5. Runs(Zero, plan_steps(analyzed), m)
  BY <1>3, <1>4, RunsConcat DEF plan_steps
<1>6. plan_steps(analyzed) \in Seq(Instruction)
  BY <1>3, <1>4, ConcatProperties DEF plan_steps
<1> QED
  BY <1>5, <1>6 DEF m

\* A flat operation.
LEMMA FlatRuns ==
  ASSUME NEW bytes \in Nat, NEW analyzed \in BOOLEAN, NEW key_major \in BOOLEAN
  PROVE  /\ flat_steps(bytes, analyzed, key_major) \in Seq(Instruction)
         /\ Runs(Zero, flat_steps(bytes, analyzed, key_major), Zero)
<1> DEFINE m == More(Zero, "slot-plan")
           k == More(m, "arena")
           a == More(Zero, "arena")
           body == << take("arena", bytes), put("slot-plan", 0) >>
<1>1. m \in Counts /\ m["fold-scratch"] = 0 /\ m["operand-stack"] = 0
  BY PoolNames DEF More, Zero, Counts
<1>2. Does(m, take("arena", bytes), k) /\ k \in Counts
  <2> HIDE DEF m
  <2> QED
    BY <1>1, DoesTake, PoolNames
<1>3. k["slot-plan"] = 1
  BY PoolNames DEF More, Zero
<1>4. Less(k, "slot-plan", 1) = a
  BY PoolNames DEF More, Less, Zero
<1>5. a \in Counts /\ a["arena"] = 1 /\ a["fold-scratch"] = 0 /\ a["operand-stack"] = 0
  BY PoolNames DEF More, Zero, Counts
<1>6. Less(a, "arena", 1) = Zero
  BY MoreThenLess, ZeroCounts, PoolNames
<1> HIDE DEF m, k, a
<1>7. Does(k, put("slot-plan", 0), a)
  BY <1>2, <1>3, <1>4, DoesPut, PoolNames
<1>8. Runs(m, body, a) /\ body \in Seq(Instruction)
  BY <1>1, <1>2, <1>5, <1>7, RunsTwo, Instructions, PoolNames
<1> HIDE DEF body
<1>9. /\ When(key_major, scratch_loan) \in Seq(Instruction)
      /\ Runs(a, When(key_major, scratch_loan), a)
  BY <1>5, LoanRuns
<1>10. serialize_steps \in Seq(Instruction) /\ Runs(a, serialize_steps, Zero)
  BY <1>5, <1>6, SerializeRuns
<1>11. plan_steps(analyzed) \in Seq(Instruction) /\ Runs(Zero, plan_steps(analyzed), m)
  BY PlanRuns DEF m
<1>12. plan_steps(analyzed) \o body \in Seq(Instruction) /\ Runs(Zero, plan_steps(analyzed) \o body, a)
  BY <1>8, <1>11, RunsConcat, ConcatProperties
<1>13. /\ (plan_steps(analyzed) \o body) \o When(key_major, scratch_loan) \in Seq(Instruction)
       /\ Runs(Zero, (plan_steps(analyzed) \o body) \o When(key_major, scratch_loan), a)
  BY <1>9, <1>12, RunsConcat, ConcatProperties
<1>14. /\ ((plan_steps(analyzed) \o body) \o When(key_major, scratch_loan)) \o serialize_steps
            \in Seq(Instruction)
       /\ Runs(Zero, ((plan_steps(analyzed) \o body) \o When(key_major, scratch_loan))
                        \o serialize_steps, Zero)
  BY <1>10, <1>13, RunsConcat, ConcatProperties
<1> QED
  BY <1>14 DEF flat_steps, body

\* Dropping the n arenas below the `above` newest.
LEMMA TruncateRuns ==
  ASSUME NEW g \in Counts, NEW n \in Nat, NEW above \in Nat, n + above <= g["arena"]
  PROVE  /\ truncate_steps(n, above) \in Seq(Instruction)
         /\ Less(g, "arena", n) \in Counts
         /\ Runs(g, truncate_steps(n, above), Less(g, "arena", n))
<1> DEFINE s == truncate_steps(n, above)
           f == [i \in 1 .. n + 1 |-> Less(g, "arena", i - 1)]
<1>1. s \in [1 .. n -> Instruction]
  BY Instructions, PoolNames DEF truncate_steps
<1>2. s \in Seq(Instruction) /\ Len(s) = n
  BY <1>1, SeqDef, LenProperties
<1>3. \A i \in 0 .. n : Less(g, "arena", i) \in Counts /\ Less(g, "arena", i)["arena"] = g["arena"] - i
  BY PoolNames DEF Less, Counts
<1>4. f \in [1 .. Len(s) + 1 -> Counts]
  BY <1>2, <1>3
<1>5. f[1] = g /\ f[Len(s) + 1] = Less(g, "arena", n)
  <2>1. Less(g, "arena", 0) = g
    BY PoolNames DEF Less, Counts
  <2> QED
    BY <1>2, <2>1
<1>6. ASSUME NEW i \in 1 .. Len(s)
      PROVE  Does(f[i], s[i], f[i + 1])
  <2> DEFINE c == Less(g, "arena", i - 1)
  <2>1. s[i] = put("arena", n - i + above)
    BY <1>2 DEF truncate_steps
  <2>2. c \in Counts /\ n - i + above \in Nat /\ n - i + above < c["arena"]
    BY <1>2, <1>3, PoolNames DEF Counts
  <2>3. Less(c, "arena", 1) = Less(g, "arena", i)
    <3>1. Less(c, "arena", 1) \in Differences /\ Less(g, "arena", i) \in Differences
      <4>1. g \in Differences /\ i - 1 \in Int /\ i \in Int /\ "arena" \in Pools
        BY <1>2, IntCounts, PoolNames
      <4>2. c \in Differences
        BY <4>1, IntCounts
      <4> HIDE DEF c
      <4> QED
        BY <4>1, <4>2, IntCounts
    <3>2. \A p \in Pools : Less(c, "arena", 1)[p] = Less(g, "arena", i)[p]
      BY <1>2 DEF Less, Counts
    <3> QED
      BY <3>1, <3>2, SameCounts
  <2>4. f[i] = c /\ f[i + 1] = Less(g, "arena", i)
    BY <1>2
  <2> HIDE DEF c, f, s
  <2> QED
    BY <2>1, <2>2, <2>3, <2>4, DoesPut, PoolNames
<1> HIDE DEF f
<1>7. Runs(g, s, Less(g, "arena", n))
  BY <1>4, <1>5, <1>6 DEF Runs
<1> QED
  BY <1>2, <1>3, <1>7

\* What a tree holds between its instructions.
AtRestInTree(g) == \A p \in Pools : p # "arena" => g[p] = IF p = "operand-stack" THEN 1 ELSE 0

\* A Combine turns n arenas into one.
LEMMA CombineRuns ==
  ASSUME NEW g \in Counts, AtRestInTree(g), NEW bytes \in Nat, NEW n \in 0 .. g["arena"],
         NEW observed \in BOOLEAN, NEW key_major \in BOOLEAN
  PROVE  /\ combine_steps(bytes, n, observed, key_major) \in Seq(Instruction)
         /\ \E h \in Counts :
              AtRestInTree(h) /\ Runs(g, combine_steps(bytes, n, observed, key_major), h)
<1> DEFINE observing == << take("union-agg", 1), take("slot-plan", 1), put("union-agg", 0) >>
           m  == IF observed THEN More(g, "slot-plan") ELSE g
           u  == More(g, "union-agg")
           us == More(u, "slot-plan")
           k  == More(m, "arena")
           a  == More(g, "arena")
           h  == Less(a, "arena", n)
<1>1. g["fold-scratch"] = 0 /\ g["operand-stack"] = 1 /\ g["slot-plan"] = 0
  BY PoolNames DEF AtRestInTree
<1>2. /\ m \in Counts /\ m["fold-scratch"] = 0 /\ m["operand-stack"] = 1
      /\ u \in Counts /\ u["fold-scratch"] = 0 /\ u["operand-stack"] = 1
      /\ us \in Counts /\ us["union-agg"] > 0
      /\ a \in Counts /\ a["arena"] = g["arena"] + 1
      /\ a["fold-scratch"] = 0 /\ a["operand-stack"] = 1
  BY <1>1, PoolNames DEF More, Counts
<1>3. Less(us, "union-agg", 1) = More(g, "slot-plan")
  <2>1. Less(us, "union-agg", 1) \in Differences /\ More(g, "slot-plan") \in Differences
    <3>1. g \in Differences /\ us \in Differences
      BY <1>2, IntCounts
    <3> HIDE DEF us
    <3> QED
      BY <3>1, IntCounts, PoolMembers
  <2>2. \A p \in Pools : Less(us, "union-agg", 1)[p] = More(g, "slot-plan")[p]
    BY DEF Less, More, Counts
  <2> QED
    BY <2>1, <2>2, SameCounts
<1>4. observed => k["slot-plan"] > 0 /\ Less(k, "slot-plan", 1) = a
  <2> SUFFICES ASSUME observed PROVE k["slot-plan"] > 0 /\ Less(k, "slot-plan", 1) = a
    OBVIOUS
  <2>1. Less(k, "slot-plan", 1) \in Differences /\ a \in Differences
    <3>1. m \in Differences /\ a \in Differences
      BY <1>2, IntCounts
    <3>2. k \in Differences
      <4> HIDE DEF m
      <4> QED
        BY <3>1, IntCounts, PoolMembers
    <3> HIDE DEF k, a
    <3> QED
      BY <3>1, <3>2, IntCounts, PoolNames
  <2>2. \A p \in Pools : Less(k, "slot-plan", 1)[p] = a[p]
    BY DEF Less, More, Counts
  <2>3. k["slot-plan"] > 0
    BY PoolNames DEF More, Counts
  <2> QED
    BY <2>1, <2>2, <2>3, SameCounts
<1>5. AtRestInTree(h)
  BY PoolNames DEF AtRestInTree, Less, More, Counts
<1>6. ~ observed => k = a
  OBVIOUS
<1>7. /\ Does(g, take("union-agg", 1), u)
      /\ Does(u, take("slot-plan", 1), us)
      /\ Does(us, put("union-agg", 0), More(g, "slot-plan"))
      /\ More(g, "slot-plan") \in Counts
  <2>1. Does(g, take("union-agg", 1), u)
    BY <1>1, DoesTake, PoolNames
  <2>2. Does(u, take("slot-plan", 1), us)
    <3> HIDE DEF u
    <3> QED
      BY <1>2, DoesTake, PoolNames
  <2>3. Does(us, put("union-agg", 0), Less(us, "union-agg", 1)) /\ Less(us, "union-agg", 1) \in Counts
    <3> HIDE DEF us
    <3> QED
      BY <1>2, DoesPut, PoolNames
  <2> QED
    BY <1>3, <2>1, <2>2, <2>3
<1>8. observing \in Seq(Instruction) /\ (observed => Runs(g, observing, m))
  <2>1. observing \in Seq(Instruction)
    BY Instructions, PoolNames
  <2> HIDE DEF u, us
  <2>2. observed => Runs(g, observing, m)
    BY <1>2, <1>7, RunsThree
  <2> QED
    BY <2>1, <2>2
<1>9. ~ observed => g = m
  OBVIOUS
<1>10. Does(m, take("arena", bytes), k) /\ k \in Counts
  <2> HIDE DEF m
  <2> QED
    BY <1>2, DoesTake, PoolNames
<1> HIDE DEF m, u, us, k, a, observing
<1>11. When(observed, observing) \in Seq(Instruction) /\ Runs(g, When(observed, observing), m)
  BY <1>2, <1>8, <1>9, RunsWhen
<1>12. << take("arena", bytes) >> \in Seq(Instruction) /\ Runs(m, << take("arena", bytes) >>, k)
  BY <1>2, <1>10, RunsOne, Instructions, PoolNames
<1>13. /\ When(observed, << put("slot-plan", 0) >>) \in Seq(Instruction)
       /\ Runs(k, When(observed, << put("slot-plan", 0) >>), a)
  <2>1. << put("slot-plan", 0) >> \in Seq(Instruction)
    BY Instructions, PoolNames
  <2>2. observed => Runs(k, << put("slot-plan", 0) >>, a)
    BY <1>2, <1>4, <1>10, RunsOne, DoesPut, PoolNames
  <2> QED
    BY <1>2, <1>6, <1>10, <2>1, <2>2, RunsWhen
<1>14. /\ When(key_major, scratch_loan) \in Seq(Instruction)
       /\ Runs(a, When(key_major, scratch_loan), a)
  BY <1>2, LoanRuns
<1>15. truncate_steps(n, 1) \in Seq(Instruction) /\ Runs(a, truncate_steps(n, 1), h) /\ h \in Counts
  <2>1. n \in Nat /\ n + 1 <= a["arena"]
    BY <1>2, PoolNames DEF Counts
  <2> QED
    BY <1>2, <2>1, TruncateRuns
<1> HIDE DEF h
<1>16. /\ When(observed, observing) \o << take("arena", bytes) >> \in Seq(Instruction)
       /\ Runs(g, When(observed, observing) \o << take("arena", bytes) >>, k)
  BY <1>11, <1>12, RunsConcat, ConcatProperties
<1> DEFINE allocated == When(observed, observing) \o << take("arena", bytes) >>
<1> HIDE DEF allocated
<1>17. /\ allocated \o When(observed, << put("slot-plan", 0) >>) \in Seq(Instruction)
       /\ Runs(g, allocated \o When(observed, << put("slot-plan", 0) >>), a)
  BY <1>13, <1>16, RunsConcat, ConcatProperties DEF allocated
<1> DEFINE planned == allocated \o When(observed, << put("slot-plan", 0) >>)
<1> HIDE DEF planned
<1>18. /\ planned \o When(key_major, scratch_loan) \in Seq(Instruction)
       /\ Runs(g, planned \o When(key_major, scratch_loan), a)
  BY <1>14, <1>17, RunsConcat, ConcatProperties DEF planned
<1> DEFINE folded == planned \o When(key_major, scratch_loan)
<1> HIDE DEF folded
<1>19. /\ folded \o truncate_steps(n, 1) \in Seq(Instruction)
       /\ Runs(g, folded \o truncate_steps(n, 1), h)
  BY <1>15, <1>18, RunsConcat, ConcatProperties DEF folded
<1>20. folded \o truncate_steps(n, 1) = combine_steps(bytes, n, observed, key_major)
  BY DEF folded, planned, allocated, observing, combine_steps
<1> QED
  BY <1>5, <1>15, <1>19, <1>20

\* The unwinding of a call that panicked: what has no guard is gone already.
GuardedOf(g) == [p \in Pools |-> IF p \in Guarded THEN g[p] ELSE 0]

LEMMA UnwindRuns ==
  ASSUME TypeOK, NEW t \in Threads, NEW p \in Pools,
         HeldCount(t, "fold-scratch") = 0, HeldCount(t, "operand-stack") <= 1
  PROVE  /\ unwind_steps(t, p) \in Seq(Instruction)
         /\ Runs(GuardedOf(HeldCounts(t)), unwind_steps(t, p), Zero)
<1> DEFINE arenas == HeldCount(t, "arena")
           ops    == HeldCount(t, "operand-stack")
           local  == IF p = "fold-scratch" /\ arenas > 0 THEN 1 ELSE 0
           g      == GuardedOf(HeldCounts(t))
           m      == IF local = 1 THEN Less(g, "arena", 1) ELSE g
           k      == Less(m, "arena", arenas - local)
           newest == When(local = 1, << put("arena", 0) >>)
           others == truncate_steps(arenas - local, 0)
           stack  == When(ops > 0, << put("operand-stack", 0) >>)
<1>1. \A q \in Pools : HeldCount(t, q) \in Nat
  BY DEF TypeOK, HeldCount
<1>2. g \in Counts /\ g["arena"] = arenas /\ arenas \in Nat
  BY <1>1, PoolMembers DEF GuardedOf, HeldCounts, Counts, Guarded
<1>3. /\ m \in Counts /\ m["arena"] = arenas - local
      /\ \A q \in Pools : q # "arena" => m[q] = g[q]
  <2> HIDE DEF g, arenas
  <2> QED
    BY <1>2, PoolMembers DEF Counts, Less
<1>4. arenas - local \in Nat
  BY <1>2
<1>5. newest \in Seq(Instruction) /\ Runs(g, newest, m)
  <2>1. << put("arena", 0) >> \in Seq(Instruction)
    BY Instructions, PoolMembers
  <2>2. local = 1 => Runs(g, << put("arena", 0) >>, m)
    <3> SUFFICES ASSUME local = 1 PROVE Runs(g, << put("arena", 0) >>, m)
      OBVIOUS
    <3>1. g["arena"] > 0
      BY <1>2
    <3> HIDE DEF g
    <3>2. Does(g, put("arena", 0), Less(g, "arena", 1)) /\ Less(g, "arena", 1) \in Counts
      BY <1>2, <3>1, DoesPut, PoolMembers
    <3> QED
      BY <1>2, <3>2, RunsOne
  <2>3. local # 1 => g = m
    OBVIOUS
  <2> HIDE DEF g, m, local
  <2> QED
    BY <1>2, <1>3, <2>1, <2>2, <2>3, RunsWhen
<1>6. others \in Seq(Instruction) /\ k \in Counts /\ Runs(m, others, k)
  <2> HIDE DEF m, local, arenas
  <2> QED
    BY <1>3, <1>4, TruncateRuns
<1>7. stack \in Seq(Instruction) /\ Runs(k, stack, Zero)
  <2>1. \A q \in Pools : k[q] = IF q = "operand-stack" THEN ops ELSE 0
    <3>1. \A q \in Pools : g[q] = IF q \in {"arena", "operand-stack"} THEN HeldCount(t, q) ELSE 0
      BY DEF GuardedOf, HeldCounts, Guarded
    <3> HIDE DEF g, local
    <3>2. \A q \in Pools : k[q] = IF q = "arena" THEN m[q] - (arenas - local) ELSE m[q]
      <4> HIDE DEF m
      <4> QED
        BY <1>3 DEF Less, Counts
    <3> HIDE DEF k, m
    <3> QED
      BY <1>3, <1>4, <1>1, <3>1, <3>2
  <2>2. ops \in Nat /\ ops <= 1
    BY <1>1, PoolMembers
  <2> HIDE DEF k, ops
  <2>3. << put("operand-stack", 0) >> \in Seq(Instruction)
    BY Instructions, PoolMembers
  <2>4. ops > 0 => Runs(k, << put("operand-stack", 0) >>, Zero)
    <3> SUFFICES ASSUME ops > 0 PROVE Runs(k, << put("operand-stack", 0) >>, Zero)
      OBVIOUS
    <3>1. k["operand-stack"] = 1
      BY <2>1, <2>2, PoolMembers
    <3>2. /\ Does(k, put("operand-stack", 0), Less(k, "operand-stack", 1))
          /\ Less(k, "operand-stack", 1) \in Counts
      BY <1>6, <3>1, DoesPut, PoolMembers
    <3>3. Less(k, "operand-stack", 1) = Zero
      <4>1. \A q \in Pools : Less(k, "operand-stack", 1)[q] = 0
        BY <1>6, <2>1, <3>1 DEF Less, Counts
      <4> QED
        BY <3>2, <4>1 DEF Zero, Counts
    <3> QED
      BY <1>6, <3>2, <3>3, RunsOne, ZeroCounts
  <2>5. ~ (ops > 0) => k = Zero
    BY <1>6, <2>1, <2>2 DEF Zero, Counts
  <2>6. (ops > 0) \in BOOLEAN
    OBVIOUS
  <2> DEFINE some == ops > 0
  <2> HIDE DEF some
  <2>7. /\ When(some, << put("operand-stack", 0) >>) \in Seq(Instruction)
        /\ Runs(k, When(some, << put("operand-stack", 0) >>), Zero)
    BY <1>6, <2>3, <2>4, <2>5, <2>6, RunsWhen, ZeroCounts DEF some
  <2> QED
    BY <2>7 DEF some
<1> HIDE DEF newest, others, stack, g, m, k
<1>8. newest \o others \in Seq(Instruction) /\ Runs(g, newest \o others, k)
  BY <1>5, <1>6, RunsConcat, ConcatProperties
<1>9. (newest \o others) \o stack \in Seq(Instruction) /\ Runs(g, (newest \o others) \o stack, Zero)
  BY <1>7, <1>8, RunsConcat, ConcatProperties
<1>10. (newest \o others) \o stack = unwind_steps(t, p)
  BY DEF newest, others, stack, unwind_steps
<1> QED
  BY <1>9, <1>10 DEF g

\* The end of a tree: its last operand is copied, or is the arena that becomes
\* the result.
LEMMA FinishRuns ==
  ASSUME NEW g \in Counts, AtRestInTree(g), g["arena"] <= 1, NEW bytes \in Nat
  PROVE  /\ finish_steps(bytes, g["arena"] = 1) \in Seq(Instruction)
         /\ Runs(g, finish_steps(bytes, g["arena"] = 1), Zero)
<1> DEFINE m == More(Zero, "operand-stack")
           body == IF g["arena"] = 1 THEN serialize_steps ELSE copy_steps(bytes)
<1>1. g["fold-scratch"] = 0 /\ g["operand-stack"] = 1
  BY PoolNames DEF AtRestInTree
<1>2. m \in Counts /\ m["operand-stack"] = 1 /\ Less(m, "operand-stack", 1) = Zero
  BY MoreThenLess, ZeroCounts, PoolNames DEF More, Zero, Counts
<1>3. body \in Seq(Instruction) /\ Runs(g, body, m)
  <2>1. CASE g["arena"] = 1
    <3>1. Less(g, "arena", 1) = m
      <4>1. Less(g, "arena", 1) \in Differences /\ m \in Differences
        BY <1>2, IntCounts, PoolMembers
      <4>2. \A p \in Pools : Less(g, "arena", 1)[p] = m[p]
        BY <2>1 DEF Less, Counts, More, Zero, AtRestInTree
      <4> QED
        BY <4>1, <4>2, SameCounts
    <3> HIDE DEF m
    <3> QED
      BY <1>1, <2>1, <3>1, SerializeRuns
  <2>2. CASE g["arena"] # 1
    <3>1. g["arena"] = 0
      BY <2>2, PoolNames DEF Counts
    <3>2. g = m
      <4>1. \A p \in Pools : g[p] = m[p]
        BY <3>1 DEF Counts, More, Zero, AtRestInTree
      <4> QED
        BY <1>2, <4>1 DEF Counts
    <3> HIDE DEF m
    <3> QED
      BY <1>1, <2>2, <3>2, CopyRuns
  <2> QED
    BY <2>1, <2>2
<1> HIDE DEF m, body
<1>4. /\ << put("operand-stack", 0) >> \in Seq(Instruction)
      /\ Runs(m, << put("operand-stack", 0) >>, Zero)
  BY <1>2, RunsOne, DoesPut, ZeroCounts, Instructions, PoolNames
<1>5. /\ body \o << put("operand-stack", 0) >> \in Seq(Instruction)
      /\ Runs(g, body \o << put("operand-stack", 0) >>, Zero)
  BY <1>3, <1>4, RunsConcat, ConcatProperties
<1> QED
  BY <1>5 DEF body, finish_steps

----------------------------------------------------------------------------
\* Facts about the lists of buffers.

LEMMA MaxMinOfTwo ==
  ASSUME NEW a \in Int, NEW b \in Int
  PROVE  /\ Max({a, b}) \in {a, b} /\ Max({a, b}) >= a /\ Max({a, b}) >= b
         /\ Min({a, b}) \in {a, b} /\ Min({a, b}) <= a /\ Min({a, b}) <= b
<1>1. \E z \in {a, b} : \A v \in {a, b} : z >= v
  OBVIOUS
<1>2. \E z \in {a, b} : \A v \in {a, b} : z <= v
  OBVIOUS
<1> QED
  BY <1>1, <1>2 DEF Max, Min

LEMMA MaxMinOfTwoNat ==
  ASSUME NEW a \in Nat, NEW b \in Nat
  PROVE  Max({a, b}) \in Nat /\ Min({a, b}) \in Nat
<1>1. Max({a, b}) \in {a, b} /\ Min({a, b}) \in {a, b}
  BY MaxMinOfTwo
<1> QED
  BY <1>1

LEMMA FrontProperties ==
  ASSUME NEW S, NEW s \in Seq(S), s # << >>
  PROVE  Front(s) \in Seq(S) /\ Len(Front(s)) = Len(s) - 1 /\ Last(s) \in S /\ Len(s) > 0
<1>1. Len(s) \in Nat \ {0}
  BY EmptySeq
<1>2. \A i \in 1 .. Len(s) - 1 : s[i] \in S
  BY <1>1, ElementOfSeq
<1>3. /\ SubSeq(s, 1, Len(s) - 1) \in Seq(S)
      /\ Len(SubSeq(s, 1, Len(s) - 1)) = IF 1 <= Len(s) - 1 THEN Len(s) - 1 - 1 + 1 ELSE 0
  BY <1>1, <1>2, SubSeqProperties
<1>4. s[Len(s)] \in S
  BY <1>1, ElementOfSeq
<1> DEFINE f == SubSeq(s, 1, Len(s) - 1)
<1>5. Front(s) = f /\ Last(s) = s[Len(s)]
  BY DEF Front, Last
<1> HIDE DEF f
<1>6. f \in Seq(S) /\ Len(f) = IF 1 <= Len(s) - 1 THEN Len(s) - 1 - 1 + 1 ELSE 0
  BY ONLY <1>3 DEF f
<1>7. Len(f) = Len(s) - 1
  BY <1>1, <1>6
<1> QED
  BY <1>1, <1>4, <1>5, <1>6, <1>7

LEMMA RemoveAtProperties ==
  ASSUME NEW S, NEW s \in Seq(S), NEW i \in 1 .. Len(s)
  PROVE  RemoveAt(s, i) \in Seq(S) /\ Len(RemoveAt(s, i)) = Len(s) - 1
<1>1. Len(s) \in Nat
  BY LenProperties
<1>2. \A k \in 1 .. Len(s) : s[k] \in S
  BY ElementOfSeq
<1>3. SubSeq(s, 1, i - 1) \in Seq(S) /\ Len(SubSeq(s, 1, i - 1)) = i - 1
  BY <1>1, <1>2, SubSeqProperties
<1>4. SubSeq(s, i + 1, Len(s)) \in Seq(S) /\ Len(SubSeq(s, i + 1, Len(s))) = Len(s) - i
  BY <1>1, <1>2, SubSeqProperties
<1> DEFINE before == SubSeq(s, 1, i - 1)
           after  == SubSeq(s, i + 1, Len(s))
<1> HIDE DEF before, after
<1>5. before \in Seq(S) /\ Len(before) = i - 1 /\ after \in Seq(S) /\ Len(after) = Len(s) - i
  BY ONLY <1>3, <1>4 DEF before, after
<1>6. before \o after \in Seq(S) /\ Len(before \o after) = Len(before) + Len(after)
  BY <1>5, ConcatProperties
<1>7. RemoveAt(s, i) = before \o after
  BY DEF RemoveAt, before, after
<1> QED
  BY SMTT(60), <1>1, <1>5, <1>6, <1>7

----------------------------------------------------------------------------
\* Facts about a step of one thread.

LEMMA UseFacts ==
  ASSUME TypeOK
  PROVE  /\ use.threads \subseteq Threads /\ use.sizes \subseteq Nat
         /\ use.budgets \subseteq Nat /\ use.policies \subseteq {"Allocate", "Fail"}
         /\ use.sizeLists \subseteq Seq(Nat) /\ use.buffers \in Nat /\ use.warmup \in Nat
<1>1. use \in Uses
  BY DEF TypeOK
<1>2. ASSUME NEW l \in use.sizeLists
      PROVE  l \in Seq(Nat)
  <2>1. l \in Seq(use.sizes) /\ use.sizes \subseteq Nat
    BY <1>1, PoolAssumption
  <2>2. Len(l) \in Nat /\ l \in [1 .. Len(l) -> Nat]
    BY <2>1, LenProperties
  <2> QED
    BY <2>2, SeqDef
<1> QED
  BY <1>1, <1>2, PoolAssumption

\* A call about to make a step can make it, and what is left of it then closes.
LEMMA StepFacts ==
  ASSUME IInv, NEW t \in Threads, todo[t] # << >>
  PROVE  /\ step(t) \in Instruction /\ Tail(todo[t]) \in Seq(Instruction) /\ call[t] # "none"
         /\ \E m \in Counts : Does(HeldCounts(t), step(t), m) /\ Closes(m, Tail(todo[t]), call[t])
<1>1. todo[t] \in Seq(Instruction)
  BY DEF IInv, TypeOK
<1>2. call[t] # "none"
  BY DEF IInv, Balanced
<1>3. PICK h \in Counts : Runs(HeldCounts(t), todo[t], h) /\ AtRest(call[t], h)
  BY DEF IInv, Balanced, Closes
<1>4. PICK m \in Counts : Does(HeldCounts(t), Head(todo[t]), m) /\ Runs(m, Tail(todo[t]), h)
  BY <1>1, <1>3, RunsFirst
<1> QED
  BY <1>1, <1>2, <1>3, <1>4, HeadTailProperties DEF Closes, step

LEMMA HeldIsCounts ==
  ASSUME TypeOK, NEW t \in Threads
  PROVE  HeldCounts(t) \in Counts
  BY DEF TypeOK, HeldCounts, HeldCount, Counts

\* The other threads are where they were.
LEMMA BalancedStep ==
  ASSUME Balanced, NEW t \in Threads,
         \A u \in Threads \ {t} : held'[u] = held[u] /\ todo'[u] = todo[u] /\ call'[u] = call[u],
         Closes([p \in Pools |-> Len(held'[t][p])], todo'[t], call'[t]),
         call'[t] = "none" => todo'[t] = << >>
  PROVE  Balanced'
<1>1. ASSUME NEW u \in Threads
      PROVE  /\ Closes([p \in Pools |-> Len(held'[u][p])], todo'[u], call'[u])
             /\ call'[u] = "none" => todo'[u] = << >>
  <2>1. CASE u = t
    BY <2>1
  <2>2. CASE u # t
    BY <2>2 DEF Balanced, HeldCounts, HeldCount
  <2> QED
    BY <2>1, <2>2
<1> QED
  BY <1>1 DEF Balanced, HeldCounts, HeldCount

LEMMA ExactStep ==
  ASSUME WorkingLiveExact, NEW t \in Threads,
         \A u \in Threads \ {t} :
           held'[u] = held[u] /\ live'[u] = live[u] /\ panicked'[u] = panicked[u],
         \A p \in Working : /\ live'[t][p] >= Len(held'[t][p])
                            /\ panicked'[t] \/ live'[t][p] = Len(held'[t][p])
  PROVE  WorkingLiveExact'
<1>1. ASSUME NEW u \in Threads, NEW p \in Working
      PROVE  /\ live'[u][p] >= Len(held'[u][p])
             /\ panicked'[u] \/ live'[u][p] = Len(held'[u][p])
  <2>1. CASE u = t
    BY <2>1
  <2>2. CASE u # t
    BY <2>2 DEF WorkingLiveExact, HeldCount
  <2> QED
    BY <2>1, <2>2
<1> QED
  BY <1>1 DEF WorkingLiveExact, HeldCount

----------------------------------------------------------------------------
\* Each action keeps the invariant.

\* Starting a call from which nothing is held, or going on with a tree.
LEMMA StartKeeps ==
  ASSUME IInv, NEW t \in Threads, NEW s \in Seq(Instruction),
         Runs(Zero, s, Zero), Start(t, s)
  PROVE  IInv'
<1> USE DEF IInv
<1>1. call[t] = "none"
  BY DEF Start, MayStart
<1>2. HeldCounts(t) = Zero
  <2>1. PICK h \in Counts : Runs(HeldCounts(t), << >>, h) /\ AtRest("none", h)
    BY <1>1 DEF Balanced, Closes
  <2>2. HeldCounts(t) = h
    BY <2>1, RunsEnd
  <2> QED
    BY <2>1, <2>2 DEF AtRest, Counts, Zero
<1>3. TypeOK'
  BY DEF Start, TypeOK, configVars, poolVars
<1>4. Balanced'
  <2>1. Closes([p \in Pools |-> Len(held'[t][p])], todo'[t], call'[t])
    <3>1. [p \in Pools |-> Len(held'[t][p])] = Zero
      BY <1>2 DEF Start, HeldCounts, HeldCount
    <3>2. todo'[t] = s /\ call'[t] = "running"
      BY DEF Start, TypeOK
    <3>3. AtRest("running", Zero)
      BY DEF AtRest, Zero
    <3> QED
      BY <3>1, <3>2, <3>3, ZeroCounts DEF Closes
  <2> QED
    BY <2>1, BalancedStep DEF Start, TypeOK
<1>5. WorkingLiveExact'
  BY DEF Start, WorkingLiveExact, HeldCount, poolVars
<1> QED
  BY <1>3, <1>4, <1>5

LEMMA StartCallKeeps ==
  ASSUME IInv, NEW t \in Threads, StartFlat(t) \/ StartCopy(t) \/ StartReject(t)
  PROVE  IInv'
<1>1. use.sizes \subseteq Nat
  BY UseFacts DEF IInv
<1>2. CASE StartFlat(t)
  <2>1. PICK bytes \in use.sizes, analyzed \in BOOLEAN, key_major \in BOOLEAN :
          Start(t, flat_steps(bytes, analyzed, key_major))
    BY <1>2 DEF StartFlat
  <2> QED
    BY <1>1, <2>1, FlatRuns, StartKeeps
<1>3. CASE StartCopy(t)
  <2>1. PICK bytes \in use.sizes : Start(t, copy_steps(bytes))
    BY <1>3 DEF StartCopy
  <2>2. copy_steps(bytes) \in Seq(Instruction) /\ Runs(Zero, copy_steps(bytes), Zero)
    <3>1. bytes \in Nat /\ Zero["fold-scratch"] = 0 /\ Zero["operand-stack"] <= 1
      BY <1>1, PoolMembers DEF Zero
    <3> QED
      BY <3>1, CopyRuns, ZeroCounts
  <2> QED
    BY <2>1, <2>2, StartKeeps
<1>4. CASE StartReject(t)
  <2>1. PICK bytes \in use.sizes : Start(t, reject_steps(bytes))
    BY <1>4 DEF StartReject
  <2>2. reject_steps(bytes) \in Seq(Instruction) /\ Runs(Zero, reject_steps(bytes), Zero)
    <3>1. bytes \in Nat /\ Zero["fold-scratch"] = 0 /\ Zero["operand-stack"] <= 1
      BY <1>1, PoolMembers DEF Zero
    <3> QED
      BY <3>1, CopyRuns, ZeroCounts
  <2> QED
    BY <2>1, <2>2, StartKeeps
<1> QED
  BY <1>2, <1>3, <1>4

\* Nothing is held before a tree, which starts by taking its operand stack.
LEMMA StartTreeKeeps ==
  ASSUME IInv, NEW t \in Threads, StartTree(t)
  PROVE  IInv'
<1> USE DEF IInv
<1>1. call[t] = "none"
  BY DEF StartTree, MayStart
<1>2. HeldCounts(t) = Zero
  <2>1. PICK h \in Counts : Runs(HeldCounts(t), << >>, h) /\ AtRest("none", h)
    BY <1>1 DEF Balanced, Closes
  <2>2. HeldCounts(t) = h
    BY <2>1, RunsEnd
  <2> QED
    BY <2>1, <2>2 DEF AtRest, Counts, Zero
<1> DEFINE s == << take("operand-stack", 1) >>
           m == More(Zero, "operand-stack")
<1>3. s \in Seq(Instruction)
  BY Instructions, PoolMembers
<1>4. Runs(Zero, s, m) /\ m \in Counts
  <2>1. Does(Zero, take("operand-stack", 1), m) /\ m \in Counts
    BY ZeroCounts, DoesTake, PoolMembers DEF Zero
  <2> HIDE DEF m
  <2> QED
    BY <2>1, RunsOne, ZeroCounts
<1>5. AtRest("tree", m)
  BY DEF AtRest, More, Zero
<1> HIDE DEF s, m
<1>6. todo' = [todo EXCEPT ![t] = s] /\ call' = [call EXCEPT ![t] = "tree"]
  BY DEF StartTree, s
<1>7. TypeOK'
  <2>1. << >> \in Seq(Instruction) /\ s \in Seq(Instruction)
    BY <1>3
  <2>2. todo' \in [Threads -> Seq(Instruction)]
    BY <1>6, <2>1 DEF TypeOK
  <2>3. last' \in [Threads -> Seq(Instruction)]
    <3> DEFINE none == << >>
    <3>1. none \in Seq(Instruction) /\ last' = [last EXCEPT ![t] = none]
      BY <2>1 DEF StartTree
    <3> HIDE DEF none
    <3> QED
      BY <3>1 DEF TypeOK
  <2> QED
    BY <1>6, <2>2, <2>3 DEF StartTree, TypeOK, configVars, poolVars
<1>8. Balanced'
  <2>1. Closes([p \in Pools |-> Len(held'[t][p])], todo'[t], call'[t])
    <3>1. [p \in Pools |-> Len(held'[t][p])] = Zero
      BY <1>2 DEF StartTree, HeldCounts, HeldCount
    <3>2. todo'[t] = s /\ call'[t] = "tree"
      BY <1>6 DEF TypeOK
    <3> QED
      BY <1>4, <1>5, <3>1, <3>2 DEF Closes
  <2> QED
    BY <2>1, <1>6, BalancedStep DEF StartTree, TypeOK
<1>9. WorkingLiveExact'
  BY DEF StartTree, WorkingLiveExact, HeldCount, poolVars
<1> QED
  BY <1>7, <1>8, <1>9

\* Going on with a tree.
LEMMA ContinueKeeps ==
  ASSUME IInv, NEW t \in Threads, NEW s \in Seq(Instruction), NEW c \in {"running", "tree"},
         Continue(t, s), call' = [call EXCEPT ![t] = c], Closes(HeldCounts(t), s, c)
  PROVE  IInv'
<1> USE DEF IInv
<1>1. TypeOK'
  BY DEF Continue, TypeOK, configVars, poolVars
<1>2. Balanced'
  <2>1. Closes([p \in Pools |-> Len(held'[t][p])], todo'[t], call'[t])
    <3>1. [p \in Pools |-> Len(held'[t][p])] = HeldCounts(t)
      BY DEF Continue, HeldCounts, HeldCount
    <3>2. todo'[t] = s /\ call'[t] = c
      BY DEF Continue, TypeOK
    <3> QED
      BY <3>1, <3>2
  <2> QED
    BY <2>1, BalancedStep DEF Continue, TypeOK
<1>3. WorkingLiveExact'
  BY DEF Continue, WorkingLiveExact, HeldCount, poolVars
<1> QED
  BY <1>1, <1>2, <1>3

\* What is held between the instructions of a tree.
LEMMA TreeHolds ==
  ASSUME IInv, NEW t \in Threads, AtInstruction(t)
  PROVE  /\ HeldCounts(t) \in Counts /\ AtRestInTree(HeldCounts(t))
         /\ HeldCounts(t)["arena"] = HeldCount(t, "arena")
<1>1. PICK h \in Counts : Runs(HeldCounts(t), << >>, h) /\ AtRest("tree", h)
  BY DEF IInv, Balanced, Closes, AtInstruction
<1>2. HeldCounts(t) = h
  BY <1>1, RunsEnd
<1> QED
  BY <1>1, <1>2, PoolMembers DEF AtRest, AtRestInTree, HeldCounts

LEMMA TreeKeeps ==
  ASSUME IInv, NEW t \in Threads, TreeStep(t)
  PROVE  IInv'
<1> DEFINE g == HeldCounts(t)
<1>1. AtInstruction(t)
  BY DEF TreeStep, TreeCombine, TreeGuard, TreeFinish
<1>2. g \in Counts /\ AtRestInTree(g) /\ g["arena"] = HeldCount(t, "arena") /\ g["arena"] \in Nat
  BY <1>1, TreeHolds, PoolMembers DEF Counts
<1>3. call[t] = "tree" /\ call \in [Threads -> {"none", "running", "tree", "unwinding"}]
  BY <1>1 DEF AtInstruction, IInv, TypeOK
<1>4. use.sizes \subseteq Nat
  BY UseFacts DEF IInv
<1> HIDE DEF g
<1>5. CASE TreeCombine(t)
  <2>1. PICK bytes \in use.sizes, n \in 0 .. HeldCount(t, "arena"),
             observed \in BOOLEAN, key_major \in BOOLEAN :
          Continue(t, combine_steps(bytes, n, observed, key_major))
    BY <1>5 DEF TreeCombine
  <2> DEFINE s == combine_steps(bytes, n, observed, key_major)
  <2>2. s \in Seq(Instruction) /\ \E h \in Counts : AtRestInTree(h) /\ Runs(g, s, h)
    BY <1>2, <1>4, <2>1, CombineRuns
  <2>3. Closes(g, s, "tree")
    BY <2>2 DEF Closes, AtRest, AtRestInTree
  <2>4. call' = [call EXCEPT ![t] = "tree"]
    BY <1>3, <1>5 DEF TreeCombine
  <2> HIDE DEF s
  <2> QED
    BY <2>1, <2>2, <2>3, <2>4, ContinueKeeps DEF g, s
<1>6. CASE TreeGuard(t)
  <2>1. PICK n \in 1 .. HeldCount(t, "arena") : Continue(t, truncate_steps(n, 0))
    BY <1>6 DEF TreeGuard
  <2> DEFINE s == truncate_steps(n, 0)
             h == Less(g, "arena", n)
  <2>2. s \in Seq(Instruction) /\ h \in Counts /\ Runs(g, s, h)
    <3>1. n \in Nat /\ n + 0 <= g["arena"] /\ 0 \in Nat
      BY <1>2, <2>1
    <3> QED
      BY <1>2, <3>1, TruncateRuns
  <2>3. AtRestInTree(h)
    BY <1>2 DEF AtRestInTree, Less, Counts
  <2> HIDE DEF s, h
  <2>4. Closes(g, s, "tree")
    BY <2>2, <2>3 DEF Closes, AtRest, AtRestInTree
  <2>5. call' = [call EXCEPT ![t] = "tree"]
    BY <1>3, <1>6 DEF TreeGuard
  <2> QED
    BY <2>1, <2>2, <2>4, <2>5, ContinueKeeps DEF g, s
<1>7. CASE TreeFinish(t)
  <2>1. PICK bytes \in use.sizes : Continue(t, finish_steps(bytes, HeldCount(t, "arena") = 1))
    BY <1>7 DEF TreeFinish
  <2> DEFINE s == finish_steps(bytes, g["arena"] = 1)
  <2>2. g["arena"] <= 1
    BY <1>2, <1>7 DEF TreeFinish
  <2>3. s \in Seq(Instruction) /\ Runs(g, s, Zero)
    BY <1>2, <1>4, <2>1, <2>2, FinishRuns
  <2>4. Closes(g, s, "running")
    BY <2>3, ZeroCounts DEF Closes, AtRest, Zero
  <2>5. call' = [call EXCEPT ![t] = "running"]
    BY <1>7 DEF TreeFinish
  <2>6. Continue(t, s)
    BY <1>2, <2>1
  <2> HIDE DEF s
  <2> QED
    BY <2>3, <2>4, <2>5, <2>6, ContinueKeeps DEF g
<1> QED
  BY <1>5, <1>6, <1>7 DEF TreeStep

LEMMA ReturnKeeps ==
  ASSUME IInv, NEW t \in Threads, Return(t)
  PROVE  IInv'
<1> USE DEF IInv
<1>1. TypeOK'
  <2>1. calm' \in [Threads -> Nat]
    <3>1. use.warmup \in Nat /\ calm[t] + 1 \in Nat
      BY SMTT(60), UseFacts DEF TypeOK
    <3>2. Min({calm[t] + 1, use.warmup}) \in Nat
      BY <3>1, MaxMinOfTwoNat
    <3> QED
      BY <3>2 DEF Return, TypeOK
  <2> QED
    BY <2>1 DEF Return, TypeOK, configVars, poolVars
<1>2. Balanced'
  <2>1. Closes([p \in Pools |-> Len(held'[t][p])], todo'[t], call'[t])
    <3>1. [p \in Pools |-> Len(held'[t][p])] = HeldCounts(t)
      BY DEF Return, HeldCounts, HeldCount
    <3>2. todo'[t] = todo[t] /\ call'[t] = "none" /\ call[t] \in {"running", "unwinding"}
      BY DEF Return, TypeOK
    <3>3. Closes(HeldCounts(t), todo[t], call[t])
      BY DEF Balanced
    <3> QED
      BY <3>1, <3>2, <3>3 DEF Closes, AtRest
  <2>2. todo'[t] = << >>
    BY DEF Return
  <2> QED
    BY <2>1, <2>2, BalancedStep DEF Return, TypeOK
<1>3. WorkingLiveExact'
  BY DEF Return, WorkingLiveExact, HeldCount, poolVars
<1> QED
  BY <1>1, <1>2, <1>3

LEMMA OverflowedType ==
  ASSUME TypeOK, NEW t \in Threads
  PROVE  overflowed(t) \in [Threads -> Nat]
<1>1. overflows[t] + 1 \in Nat /\ MaxOverflows \in Nat
  BY PoolAssumption DEF TypeOK
<1>2. Min({overflows[t] + 1, MaxOverflows}) \in Nat
  BY <1>1, MaxMinOfTwoNat
<1> QED
  BY <1>2 DEF overflowed, TypeOK

LEMMA TakeKeeps ==
  ASSUME IInv, NEW t \in Threads, Take(t)
  PROVE  IInv'
<1> USE DEF IInv
<1> DEFINE p == step(t).pool
           bytes == step(t).n
           got == Max({idle_or_new(t, p), bytes})
<1>1. todo[t] # << >> /\ step(t).op = "take"
  BY DEF Take, At
<1>2. /\ step(t) \in Instruction /\ Tail(todo[t]) \in Seq(Instruction) /\ call[t] # "none"
      /\ \E m \in Counts : Does(HeldCounts(t), step(t), m) /\ Closes(m, Tail(todo[t]), call[t])
  BY <1>1, StepFacts
<1>3. p \in Pools /\ bytes \in Nat
  BY <1>2 DEF Instruction
<1>4. Closes(More(HeldCounts(t), p), Tail(todo[t]), call[t])
  BY <1>1, <1>2 DEF Does
<1>5. got \in Nat
  <2>1. free[t][p] \in Seq(Nat)
    BY <1>3 DEF TypeOK
  <2>2. idle_or_new(t, p) \in Nat
    BY <2>1, FrontProperties DEF idle_or_new
  <2> QED
    BY <1>3, <2>2, MaxMinOfTwoNat
<1> DEFINE kept == IF free[t][p] = << >> THEN free[t][p] ELSE Front(free[t][p])
<1>6. kept \in Seq(Nat)
  <2>1. free[t][p] \in Seq(Nat)
    BY <1>3 DEF TypeOK
  <2> QED
    BY <2>1, FrontProperties
<1>7. /\ live' = [live EXCEPT ![t][p] = live[t][p] + 1]
      /\ free' = [free EXCEPT ![t][p] = kept]
      /\ held' = [held EXCEPT ![t][p] = Append(held[t][p], got)]
      /\ grown' = [grown EXCEPT ![t] = @ \/ idle_or_new(t, p) < bytes]
      /\ overflows' \in {overflows, overflowed(t)}
      /\ calm' \in {calm, [calm EXCEPT ![t] = 0]}
      /\ todo' = [todo EXCEPT ![t] = Tail(todo[t])]
      /\ UNCHANGED << configVars, owned, call, last, panicked >>
  <2>1. calm' \in {calm, [calm EXCEPT ![t] = 0]}
    BY DEF Take, TypeOK
  <2> QED
    BY <1>3, <2>1 DEF Take, TypeOK, handed_out
<1>8. /\ Append(held[t][p], got) \in Seq(Nat)
      /\ Len(Append(held[t][p], got)) = HeldCount(t, p) + 1
  BY <1>3, <1>5, AppendProperties DEF TypeOK, HeldCount
<1> HIDE DEF p, bytes, got, kept
<1>9. TypeOK'
  <2>1. /\ held' \in [Threads -> [Pools -> Seq(Nat)]]
        /\ free' \in [Threads -> [Pools -> Seq(Nat)]]
        /\ live' \in [Threads -> [Pools -> Nat]]
    <3> DEFINE longer == Append(held[t][p], got)
    <3>1. longer \in Seq(Nat) /\ held' = [held EXCEPT ![t][p] = longer]
      BY <1>7, <1>8
    <3> HIDE DEF longer
    <3>2. held' \in [Threads -> [Pools -> Seq(Nat)]]
      BY <1>3, <3>1 DEF TypeOK
    <3>3. free' \in [Threads -> [Pools -> Seq(Nat)]]
      BY <1>3, <1>6, <1>7 DEF TypeOK
    <3>4. live' \in [Threads -> [Pools -> Nat]]
      BY SMTT(60), <1>3, <1>7 DEF TypeOK
    <3> QED
      BY <3>2, <3>3, <3>4
  <2>2. todo' \in [Threads -> Seq(Instruction)]
    BY <1>2, <1>7 DEF TypeOK
  <2>3. overflows' \in [Threads -> Nat] /\ calm' \in [Threads -> Nat]
    <3>1. overflowed(t) \in [Threads -> Nat]
      BY OverflowedType
    <3>2. calm' \in [Threads -> Nat]
      <4> DEFINE reset == [calm EXCEPT ![t] = 0]
      <4>1. reset \in [Threads -> Nat] /\ calm' \in {calm, reset}
        BY <1>7 DEF TypeOK
      <4> HIDE DEF reset
      <4> QED
        BY <4>1 DEF TypeOK
    <3> QED
      BY <1>7, <3>1, <3>2 DEF TypeOK
  <2>4. grown' \in [Threads -> BOOLEAN]
    BY <1>7 DEF TypeOK
  <2> QED
    BY <1>7, <2>1, <2>2, <2>3, <2>4 DEF TypeOK, configVars
<1>10. Balanced'
  <2>1. [q \in Pools |-> Len(held'[t][q])] = More(HeldCounts(t), p)
    BY <1>3, <1>7, <1>8 DEF More, HeldCounts, HeldCount, TypeOK
  <2>2. todo'[t] = Tail(todo[t]) /\ call'[t] = call[t]
    BY <1>7 DEF TypeOK
  <2>3. \A u \in Threads \ {t} : held'[u] = held[u] /\ todo'[u] = todo[u] /\ call'[u] = call[u]
    BY <1>7 DEF TypeOK
  <2> QED
    BY <1>2, <1>4, <2>1, <2>2, <2>3, BalancedStep
<1>11. WorkingLiveExact'
  <2>1. \A q \in Working : /\ live'[t][q] >= Len(held'[t][q])
                           /\ panicked'[t] \/ live'[t][q] = Len(held'[t][q])
    <3> SUFFICES ASSUME NEW q \in Working
                 PROVE  /\ live'[t][q] >= Len(held'[t][q])
                        /\ panicked'[t] \/ live'[t][q] = Len(held'[t][q])
      OBVIOUS
    <3>1. live[t][q] \in Nat /\ HeldCount(t, q) \in Nat /\ q \in Pools
      BY DEF TypeOK, HeldCount, Pools
    <3>2. live[t][q] >= HeldCount(t, q) /\ (panicked[t] \/ live[t][q] = HeldCount(t, q))
      BY DEF WorkingLiveExact
    <3>3. CASE q = p
      <4>1. live'[t][q] = live[t][q] + 1 /\ Len(held'[t][q]) = HeldCount(t, q) + 1
        BY <1>3, <1>7, <1>8, <3>3 DEF TypeOK
      <4> QED
        BY <1>7, <3>1, <3>2, <4>1
    <3>4. CASE q # p
      <4>1. live'[t][q] = live[t][q] /\ Len(held'[t][q]) = HeldCount(t, q)
        BY <1>3, <1>7, <3>1, <3>4 DEF TypeOK, HeldCount
      <4> QED
        BY <1>7, <3>1, <3>2, <4>1
    <3> QED
      BY <3>3, <3>4
  <2>2. \A u \in Threads \ {t} :
          held'[u] = held[u] /\ live'[u] = live[u] /\ panicked'[u] = panicked[u]
    BY <1>7 DEF TypeOK
  <2> QED
    BY <2>1, <2>2, ExactStep
<1> QED
  BY <1>9, <1>10, <1>11

LEMMA PutKeeps ==
  ASSUME IInv, NEW t \in Threads, Put(t)
  PROVE  IInv'
<1> USE DEF IInv
<1> DEFINE p == step(t).pool
           k == HeldCount(t, p) - step(t).n
           kept == retained(t, free[t][p], held[t][p][k])
<1>1. todo[t] # << >> /\ step(t).op = "put"
  BY DEF Put, At
<1>2. /\ step(t) \in Instruction /\ Tail(todo[t]) \in Seq(Instruction) /\ call[t] # "none"
      /\ \E m \in Counts : Does(HeldCounts(t), step(t), m) /\ Closes(m, Tail(todo[t]), call[t])
  BY <1>1, StepFacts
<1>3. p \in Pools /\ step(t).n \in Nat
  BY <1>2 DEF Instruction
<1>4. /\ Closes(Less(HeldCounts(t), p, 1), Tail(todo[t]), call[t])
      /\ step(t).n < HeldCount(t, p)
  <2>1. step(t).n < HeldCounts(t)[p] /\ Closes(Less(HeldCounts(t), p, 1), Tail(todo[t]), call[t])
    BY <1>1, <1>2 DEF Does
  <2> QED
    BY <1>3, <2>1 DEF HeldCounts
<1>5. HeldCount(t, p) \in Nat /\ held[t][p] \in Seq(Nat) /\ free[t][p] \in Seq(Nat)
  BY <1>3 DEF TypeOK, HeldCount
<1>6. k \in 1 .. HeldCount(t, p)
  BY <1>3, <1>4, <1>5
<1>7. RemoveAt(held[t][p], k) \in Seq(Nat) /\ Len(RemoveAt(held[t][p], k)) = HeldCount(t, p) - 1
  BY <1>5, <1>6, RemoveAtProperties DEF HeldCount
<1>8. kept \in Seq(Nat)
  <2>1. held[t][p][k] \in Nat
    BY <1>5, <1>6, ElementOfSeq DEF HeldCount
  <2> QED
    BY <1>5, <2>1, AppendProperties DEF retained
<1>9. /\ live' = [live EXCEPT ![t][p] = saturating_dec(live[t][p])]
      /\ free' = [free EXCEPT ![t][p] = kept]
      /\ held' = [held EXCEPT ![t][p] = RemoveAt(held[t][p], k)]
      /\ todo' = [todo EXCEPT ![t] = Tail(todo[t])]
      /\ UNCHANGED << configVars, overflows, owned, call, grown, calm, last, panicked >>
  BY <1>3 DEF Put, TypeOK
<1> HIDE DEF p, k, kept
<1>10. TypeOK'
  <2>1. saturating_dec(live[t][p]) \in Nat
    BY <1>3 DEF TypeOK, saturating_dec
  <2>2. /\ held' \in [Threads -> [Pools -> Seq(Nat)]]
        /\ free' \in [Threads -> [Pools -> Seq(Nat)]]
        /\ live' \in [Threads -> [Pools -> Nat]]
    BY <1>3, <1>7, <1>8, <1>9, <2>1 DEF TypeOK
  <2>3. todo' \in [Threads -> Seq(Instruction)]
    BY <1>2, <1>9 DEF TypeOK
  <2> QED
    BY <1>9, <2>2, <2>3 DEF TypeOK, configVars
<1>11. Balanced'
  <2>1. [q \in Pools |-> Len(held'[t][q])] = Less(HeldCounts(t), p, 1)
    BY <1>3, <1>7, <1>9 DEF Less, HeldCounts, HeldCount, TypeOK
  <2>2. todo'[t] = Tail(todo[t]) /\ call'[t] = call[t]
    BY <1>9 DEF TypeOK
  <2>3. \A u \in Threads \ {t} : held'[u] = held[u] /\ todo'[u] = todo[u] /\ call'[u] = call[u]
    BY <1>9 DEF TypeOK
  <2> QED
    BY <1>2, <1>4, <2>1, <2>2, <2>3, BalancedStep
<1>12. WorkingLiveExact'
  <2>1. \A q \in Working : /\ live'[t][q] >= Len(held'[t][q])
                           /\ panicked'[t] \/ live'[t][q] = Len(held'[t][q])
    <3> SUFFICES ASSUME NEW q \in Working
                 PROVE  /\ live'[t][q] >= Len(held'[t][q])
                        /\ panicked'[t] \/ live'[t][q] = Len(held'[t][q])
      OBVIOUS
    <3>1. live[t][q] \in Nat /\ HeldCount(t, q) \in Nat /\ q \in Pools
      BY DEF TypeOK, HeldCount, Pools
    <3>2. live[t][q] >= HeldCount(t, q) /\ (panicked[t] \/ live[t][q] = HeldCount(t, q))
      BY DEF WorkingLiveExact
    <3>3. CASE q = p
      <4>1. live'[t][q] = saturating_dec(live[t][q]) /\ Len(held'[t][q]) = HeldCount(t, q) - 1
        BY <1>3, <1>7, <1>9, <3>3 DEF TypeOK
      <4>2. saturating_dec(live[t][q]) = live[t][q] - 1
        BY <1>3, <1>4, <1>5, <3>1, <3>2, <3>3 DEF saturating_dec
      <4> QED
        BY <1>9, <3>1, <3>2, <4>1, <4>2
    <3>4. CASE q # p
      <4>1. live'[t][q] = live[t][q] /\ Len(held'[t][q]) = HeldCount(t, q)
        BY <1>3, <1>9, <3>1, <3>4 DEF TypeOK, HeldCount
      <4> QED
        BY <1>9, <3>1, <3>2, <4>1
    <3> QED
      BY <3>3, <3>4
  <2>2. \A u \in Threads \ {t} :
          held'[u] = held[u] /\ live'[u] = live[u] /\ panicked'[u] = panicked[u]
    BY <1>9 DEF TypeOK
  <2> QED
    BY <2>1, <2>2, ExactStep
<1> QED
  BY <1>10, <1>11, <1>12

LEMMA TakePanicsKeeps ==
  ASSUME IInv, NEW t \in Threads, TakePanics(t)
  PROVE  IInv'
<1> USE DEF IInv
<1> DEFINE p == step(t).pool
           left == [q \in Pools |-> IF q \in Guarded THEN held[t][q] ELSE << >>]
           unwinding == unwind_steps(t, p)
<1>1. todo[t] # << >> /\ step(t).op = "take"
  BY DEF TakePanics, At
<1>2. step(t) \in Instruction /\ \E m \in Counts : Does(HeldCounts(t), step(t), m)
  BY <1>1, StepFacts
<1>3. p \in Pools
  BY <1>2 DEF Instruction
<1>4. HeldCount(t, "fold-scratch") = 0 /\ HeldCount(t, "operand-stack") <= 1
  BY <1>1, <1>2, PoolMembers DEF Does, HeldCounts
<1>5. unwinding \in Seq(Instruction) /\ Runs(GuardedOf(HeldCounts(t)), unwinding, Zero)
  BY <1>3, <1>4, UnwindRuns
<1>6. /\ live' = [live EXCEPT ![t][p] = live[t][p] + 1]
      /\ todo' = [todo EXCEPT ![t] = unwinding]
      /\ held' = [held EXCEPT ![t] = left]
      /\ overflows' = overflowed(t)
      /\ call' = [call EXCEPT ![t] = "unwinding"]
      /\ calm' = [calm EXCEPT ![t] = 0]
      /\ panicked' = [panicked EXCEPT ![t] = TRUE]
      /\ UNCHANGED << configVars, free, owned, grown, last >>
  BY <1>3 DEF TakePanics, TypeOK, handed_out
<1>7. left \in [Pools -> Seq(Nat)]
  <2> DEFINE none == << >>
  <2>1. none \in Seq(Nat) /\ left = [q \in Pools |-> IF q \in Guarded THEN held[t][q] ELSE none]
    OBVIOUS
  <2> HIDE DEF none, left
  <2> QED
    BY <2>1 DEF TypeOK
<1>8. \A q \in Pools : Len(left[q]) = IF q \in Guarded THEN HeldCount(t, q) ELSE 0
  BY DEF HeldCount
<1> HIDE DEF p, left, unwinding
<1>9. TypeOK'
  <2>1. live' \in [Threads -> [Pools -> Nat]]
    BY <1>3, <1>6 DEF TypeOK
  <2>2. held' \in [Threads -> [Pools -> Seq(Nat)]]
    BY <1>6, <1>7 DEF TypeOK
  <2>3. todo' \in [Threads -> Seq(Instruction)]
    BY <1>5, <1>6 DEF TypeOK
  <2>4. overflows' \in [Threads -> Nat]
    BY <1>6, OverflowedType
  <2>5. /\ call' \in [Threads -> {"none", "running", "tree", "unwinding"}]
        /\ calm' \in [Threads -> Nat] /\ panicked' \in [Threads -> BOOLEAN]
    BY <1>6 DEF TypeOK
  <2> QED
    BY <1>6, <2>1, <2>2, <2>3, <2>4, <2>5 DEF TypeOK, configVars
<1>10. Balanced'
  <2>1. [q \in Pools |-> Len(held'[t][q])] = GuardedOf(HeldCounts(t))
    BY <1>6, <1>8 DEF GuardedOf, HeldCounts, TypeOK
  <2>2. todo'[t] = unwinding /\ call'[t] = "unwinding"
    BY <1>6 DEF TypeOK
  <2>3. Closes([q \in Pools |-> Len(held'[t][q])], todo'[t], call'[t])
    BY <1>5, <2>1, <2>2, ZeroCounts DEF Closes, AtRest, Zero
  <2>4. \A u \in Threads \ {t} : held'[u] = held[u] /\ todo'[u] = todo[u] /\ call'[u] = call[u]
    BY <1>6 DEF TypeOK
  <2> QED
    BY <2>2, <2>3, <2>4, BalancedStep
<1>11. WorkingLiveExact'
  <2>1. \A q \in Working : /\ live'[t][q] >= Len(held'[t][q])
                           /\ panicked'[t] \/ live'[t][q] = Len(held'[t][q])
    <3> SUFFICES ASSUME NEW q \in Working
                 PROVE  live'[t][q] >= Len(held'[t][q]) /\ panicked'[t]
      OBVIOUS
    <3>1. live[t][q] \in Nat /\ HeldCount(t, q) \in Nat /\ q \in Pools
      BY DEF TypeOK, HeldCount, Pools
    <3>2. live[t][q] >= HeldCount(t, q)
      BY DEF WorkingLiveExact
    <3>3. Len(held'[t][q]) \in {HeldCount(t, q), 0}
      BY <1>6, <1>8, <3>1 DEF TypeOK
    <3>4. live'[t][q] \in {live[t][q], live[t][q] + 1}
      BY <1>3, <1>6, <3>1 DEF TypeOK
    <3>5. panicked'[t]
      BY <1>6 DEF TypeOK
    <3>6. PICK n, h, l, g :
            n = live[t][q] /\ h = HeldCount(t, q) /\ l = live'[t][q] /\ g = Len(held'[t][q])
      OBVIOUS
    <3>7. n \in Nat /\ h \in Nat /\ n >= h /\ g \in {h, 0} /\ l \in {n, n + 1}
      BY <3>1, <3>2, <3>3, <3>4, <3>6
    <3>8. l >= g
      BY <3>7
    <3> QED
      BY <3>5, <3>6, <3>8
  <2>2. \A u \in Threads \ {t} :
          held'[u] = held[u] /\ live'[u] = live[u] /\ panicked'[u] = panicked[u]
    BY <1>6 DEF TypeOK
  <2> QED
    BY <2>1, <2>2, ExactStep
<1> QED
  BY <1>9, <1>10, <1>11

\* A swap, and what becomes of the result buffer: no working memory is touched.
LEMMA SameCountsKeep ==
  ASSUME IInv, NEW t \in Threads, todo[t] # << >>, NEW m \in Counts,
         Closes(m, Tail(todo[t]), call[t]),
         TypeOK', todo' = [todo EXCEPT ![t] = Tail(todo[t])],
         UNCHANGED << live, call, panicked >>,
         \A u \in Threads \ {t} : held'[u] = held[u],
         \A q \in Pools : Len(held'[t][q]) = m[q],
         \A q \in Working : m[q] = HeldCount(t, q)
  PROVE  IInv'
<1> USE DEF IInv
<1>1. call[t] # "none"
  BY StepFacts
<1>2. Balanced'
  <2>1. [q \in Pools |-> Len(held'[t][q])] = m
    BY DEF Counts
  <2>2. todo'[t] = Tail(todo[t]) /\ call'[t] = call[t]
    BY DEF TypeOK
  <2>3. \A u \in Threads \ {t} : held'[u] = held[u] /\ todo'[u] = todo[u] /\ call'[u] = call[u]
    BY DEF TypeOK
  <2> QED
    BY <1>1, <2>1, <2>2, <2>3, BalancedStep
<1>3. WorkingLiveExact'
  <2>1. \A q \in Working : /\ live'[t][q] >= Len(held'[t][q])
                           /\ panicked'[t] \/ live'[t][q] = Len(held'[t][q])
    BY DEF WorkingLiveExact, Pools
  <2> QED
    BY <2>1, ExactStep
<1> QED
  BY <1>2, <1>3

LEMMA SwapKeeps ==
  ASSUME IInv, NEW t \in Threads, Swap(t)
  PROVE  IInv'
<1> USE DEF IInv
<1> DEFINE a == HeldCount(t, "arena")
           r == HeldCount(t, "result")
           arenas  == [held[t]["arena"] EXCEPT ![a] = held[t]["result"][r]]
           results == [held[t]["result"] EXCEPT ![r] = held[t]["arena"][a]]
           swapped == [held[t] EXCEPT !["arena"] = arenas, !["result"] = results]
<1>1. todo[t] # << >> /\ step(t).op = "swap"
  BY DEF Swap, At
<1>2. /\ Tail(todo[t]) \in Seq(Instruction)
      /\ \E m \in Counts : Does(HeldCounts(t), step(t), m) /\ Closes(m, Tail(todo[t]), call[t])
  BY <1>1, StepFacts
<1>3. /\ Closes(HeldCounts(t), Tail(todo[t]), call[t]) /\ HeldCounts(t) \in Counts
      /\ HeldCounts(t)["arena"] > 0 /\ HeldCounts(t)["result"] > 0
  BY <1>1, <1>2 DEF Does
<1>4. held[t]["arena"] \in Seq(Nat) /\ held[t]["result"] \in Seq(Nat)
  BY PoolMembers DEF TypeOK
<1>5. a \in 1 .. Len(held[t]["arena"]) /\ r \in 1 .. Len(held[t]["result"])
  BY <1>3, <1>4, PoolMembers DEF HeldCounts, HeldCount
<1>6. held[t]["arena"][a] \in Nat /\ held[t]["result"][r] \in Nat
  BY <1>4, <1>5, ElementOfSeq
<1>7. /\ arenas \in Seq(Nat) /\ Len(arenas) = a
      /\ results \in Seq(Nat) /\ Len(results) = r
  <2> HIDE DEF a, r
  <2>1. a = Len(held[t]["arena"]) /\ r = Len(held[t]["result"])
    BY DEF a, r, HeldCount
  <2> QED
    BY <1>4, <1>5, <1>6, <2>1, ExceptSeq
<1>8. held' = [held EXCEPT ![t] = swapped]
  <2>1. held' = [held EXCEPT ![t]["arena"][a] = held[t]["result"][r],
                             ![t]["result"][r] = held[t]["arena"][a]]
    BY DEF Swap
  <2> HIDE DEF a, r
  <2> QED
    BY <2>1, PoolMembers DEF TypeOK
<1>9. /\ todo' = [todo EXCEPT ![t] = Tail(todo[t])]
      /\ UNCHANGED << configVars, poolVars, owned, call, grown, calm, last, panicked >>
  BY DEF Swap
<1>10. /\ swapped \in [Pools -> Seq(Nat)]
       /\ \A q \in Pools : Len(swapped[q]) = HeldCount(t, q)
  <2> HIDE DEF arenas, results
  <2>1. swapped \in [Pools -> Seq(Nat)]
    BY <1>7, PoolMembers DEF TypeOK
  <2>2. \A q \in Pools : Len(swapped[q]) = HeldCount(t, q)
    BY <1>7, PoolMembers DEF TypeOK, HeldCount
  <2> QED
    BY <2>1, <2>2
<1> HIDE DEF swapped
<1>11. TypeOK'
  <2>1. held' \in [Threads -> [Pools -> Seq(Nat)]]
    BY <1>8, <1>10 DEF TypeOK
  <2>2. todo' \in [Threads -> Seq(Instruction)]
    BY <1>2, <1>9 DEF TypeOK
  <2> QED
    BY <1>9, <2>1, <2>2 DEF TypeOK, configVars, poolVars
<1>12. /\ \A u \in Threads \ {t} : held'[u] = held[u]
       /\ \A q \in Pools : Len(held'[t][q]) = HeldCounts(t)[q]
       /\ \A q \in Working : HeldCounts(t)[q] = HeldCount(t, q)
  BY <1>8, <1>10 DEF TypeOK, HeldCounts, Pools
<1> QED
  BY <1>1, <1>3, <1>9, <1>11, <1>12, SameCountsKeep DEF poolVars

LEMMA OwnLoseKeep ==
  ASSUME IInv, NEW t \in Threads, Own(t) \/ Lose(t)
  PROVE  IInv'
<1> USE DEF IInv
<1> DEFINE buffers == held[t]["result"]
           left == Front(buffers)
           m == Less(HeldCounts(t), "result", 1)
<1>1. todo[t] # << >> /\ step(t).op \in {"own", "lose"}
  BY DEF Own, Lose, At
<1>2. /\ Tail(todo[t]) \in Seq(Instruction)
      /\ \E n \in Counts : Does(HeldCounts(t), step(t), n) /\ Closes(n, Tail(todo[t]), call[t])
  BY <1>1, StepFacts
<1>3. /\ Closes(m, Tail(todo[t]), call[t]) /\ m \in Counts
      /\ HeldCounts(t)["result"] > 0
  BY <1>1, <1>2 DEF Does
<1>4. buffers \in Seq(Nat) /\ buffers # << >>
  BY <1>3, PoolMembers DEF TypeOK, HeldCounts, HeldCount
<1>5. /\ left \in Seq(Nat) /\ Len(left) = Len(buffers) - 1 /\ Last(buffers) \in Nat
  BY <1>4, FrontProperties
<1>6. /\ held' = [held EXCEPT ![t]["result"] = left]
      /\ todo' = [todo EXCEPT ![t] = Tail(todo[t])]
      /\ UNCHANGED << configVars, poolVars, call, grown, last, panicked >>
  BY PoolMembers DEF Own, Lose, TypeOK
<1>7. owned' \in [Threads -> Seq(Nat)] /\ calm' \in [Threads -> Nat]
  <2>1. CASE Own(t)
    <3> DEFINE longer == Append(owned[t], Last(buffers))
    <3>1. longer \in Seq(Nat)
      BY <1>5, AppendProperties DEF TypeOK
    <3>2. owned' = [owned EXCEPT ![t] = longer] /\ calm' = calm
      BY <2>1 DEF Own
    <3> HIDE DEF longer
    <3> QED
      BY <3>1, <3>2 DEF TypeOK
  <2>2. CASE Lose(t)
    BY <2>2 DEF Lose, TypeOK
  <2> QED
    BY <2>1, <2>2
<1>8. \A q \in Pools : m[q] = IF q = "result" THEN Len(buffers) - 1 ELSE HeldCount(t, q)
  BY PoolMembers DEF Less, HeldCounts, HeldCount
<1> HIDE DEF left, m
<1>9. TypeOK'
  <2>1. held' \in [Threads -> [Pools -> Seq(Nat)]]
    BY <1>5, <1>6, PoolMembers DEF TypeOK
  <2>2. todo' \in [Threads -> Seq(Instruction)]
    BY <1>2, <1>6 DEF TypeOK
  <2> QED
    BY <1>6, <1>7, <2>1, <2>2 DEF TypeOK, configVars, poolVars
<1>10. /\ \A u \in Threads \ {t} : held'[u] = held[u]
       /\ \A q \in Pools : Len(held'[t][q]) = m[q]
       /\ \A q \in Working : m[q] = HeldCount(t, q)
  BY <1>5, <1>6, <1>8, PoolMembers DEF TypeOK, Pools, Working, HeldCount
<1> QED
  BY <1>1, <1>3, <1>6, <1>9, <1>10, SameCountsKeep DEF poolVars

LEMMA RetainedProperties ==
  ASSUME TypeOK, NEW t \in Threads, NEW idle \in Seq(Nat), NEW item \in Nat
  PROVE  /\ retained(t, idle, item) \in Seq(Nat)
         /\ Len(retained(t, idle, item)) > Len(idle) =>
              Len(retained(t, idle, item)) <= budget[t].buffers
<1>1. /\ Append(idle, item) \in Seq(Nat) /\ Len(Append(idle, item)) = Len(idle) + 1
      /\ Len(idle) \in Nat /\ budget[t].buffers \in Nat
  BY AppendProperties, LenProperties DEF TypeOK
<1> DEFINE longer == Append(idle, item)
<1> HIDE DEF longer
<1>2. retained(t, idle, item) = IF Len(idle) < budget[t].buffers THEN longer ELSE idle
  BY DEF retained, longer
<1>3. longer \in Seq(Nat) /\ Len(longer) = Len(idle) + 1
  BY <1>1 DEF longer
<1> QED
  BY <1>1, <1>2, <1>3

LEMMA PrewarmedProperties ==
  ASSUME TypeOK, NEW t \in Threads, NEW idle \in Seq(Nat)
  PROVE  /\ prewarmed(t, idle) \in Seq(Nat)
         /\ Len(prewarmed(t, idle)) > Len(idle) =>
              Len(prewarmed(t, idle)) <= budget[t].buffers
<1> DEFINE room == Max({0, budget[t].buffers - Len(idle)})
           n == Min({room, Len(sizes[t])})
           more == SubSeq(sizes[t], 1, n)
<1>1. /\ sizes[t] \in Seq(Nat) /\ Len(sizes[t]) \in Nat
      /\ Len(idle) \in Nat /\ budget[t].buffers \in Nat
  BY LenProperties DEF TypeOK
<1>2. room \in {0, budget[t].buffers - Len(idle)} /\ room >= 0
  <2>1. 0 \in Int /\ budget[t].buffers - Len(idle) \in Int
    BY <1>1
  <2> QED
    BY <2>1, MaxMinOfTwo
<1>3. room \in Nat
  BY <1>1, <1>2
<1>4. n \in {room, Len(sizes[t])} /\ n <= room /\ n <= Len(sizes[t])
  <2> HIDE DEF room
  <2>1. room \in Int /\ Len(sizes[t]) \in Int
    BY <1>1, <1>3
  <2> QED
    BY <2>1, MaxMinOfTwo
<1>5. n \in Nat
  BY <1>1, <1>3, <1>4
<1>6. \A i \in 1 .. n : sizes[t][i] \in Nat
  <2> HIDE DEF n
  <2> QED
    BY <1>1, <1>4, <1>5, ElementOfSeq
<1>7. more \in Seq(Nat) /\ Len(more) = IF 1 <= n THEN n - 1 + 1 ELSE 0
  <2> HIDE DEF n
  <2> QED
    BY <1>5, <1>6, SubSeqProperties
<1> HIDE DEF more, n, room
<1>8. idle \o more \in Seq(Nat) /\ Len(idle \o more) = Len(idle) + Len(more)
  BY <1>7, ConcatProperties
<1>9. Len(more) = n
  BY <1>5, <1>7
<1>10. prewarmed(t, idle) = idle \o more
  BY DEF prewarmed, more, n, room
<1> QED
  BY <1>1, <1>2, <1>4, <1>5, <1>8, <1>9, <1>10

\* What happens between calls touches no working memory that is handed out.
LEMMA ManageKeepsCalls ==
  ASSUME IInv, TypeOK', UNCHANGED << held, call, todo, panicked >>,
         \A t \in Threads, p \in Working : live'[t][p] = live[t][p]
  PROVE  IInv'
<1> USE DEF IInv
<1>1. Balanced'
  BY DEF Balanced, HeldCounts, HeldCount
<1>2. WorkingLiveExact'
  BY DEF WorkingLiveExact, HeldCount
<1> QED
  BY <1>1, <1>2

LEMMA DropKeeps ==
  ASSUME IInv, NEW t \in Threads, NEW k \in 1 .. OwnedCount(t), DropBitmap(t, k)
  PROVE  IInv'
<1> USE DEF IInv
<1> DEFINE kept == retained(t, free[t]["result"], owned[t][k])
           rest == RemoveAt(owned[t], k)
           n == saturating_dec(live[t]["result"])
<1>1. owned[t] \in Seq(Nat) /\ owned[t][k] \in Nat /\ free[t]["result"] \in Seq(Nat)
  <2>1. owned[t] \in Seq(Nat) /\ free[t]["result"] \in Seq(Nat)
    BY PoolMembers DEF TypeOK
  <2> QED
    BY <2>1, ElementOfSeq DEF OwnedCount
<1>2. kept \in Seq(Nat) /\ rest \in Seq(Nat)
  BY <1>1, RetainedProperties, RemoveAtProperties DEF OwnedCount
<1>3. n \in Nat
  <2>1. live[t]["result"] \in Nat
    BY PoolMembers DEF TypeOK
  <2> QED
    BY <2>1 DEF saturating_dec
<1>4. /\ live' = [live EXCEPT ![t]["result"] = n]
      /\ free' = [free EXCEPT ![t]["result"] = kept]
      /\ owned' = [owned EXCEPT ![t] = rest]
      /\ UNCHANGED << configVars, overflows, held, call, todo, grown, calm, last, panicked >>
  BY PoolMembers DEF DropBitmap, TypeOK
<1> HIDE DEF kept, rest, n
<1>5. /\ live' \in [Threads -> [Pools -> Nat]]
      /\ \A u \in Threads, p \in Working : live'[u][p] = live[u][p]
  BY <1>3, <1>4, PoolMembers DEF TypeOK, Working, Pools
<1>6. free' \in [Threads -> [Pools -> Seq(Nat)]] /\ owned' \in [Threads -> Seq(Nat)]
  BY <1>2, <1>4, PoolMembers DEF TypeOK
<1>7. TypeOK'
  BY <1>4, <1>5, <1>6 DEF TypeOK, configVars
<1> QED
  BY <1>4, <1>5, <1>7, ManageKeepsCalls

LEMMA SendKeeps ==
  ASSUME IInv, NEW t \in Threads, NEW u \in Threads, NEW k \in 1 .. OwnedCount(t),
         SendBitmap(t, u, k)
  PROVE  IInv'
<1> USE DEF IInv
<1> DEFINE rest == RemoveAt(owned[t], k)
           more == Append(owned[u], owned[t][k])
<1>1. owned[t] \in Seq(Nat) /\ owned[u] \in Seq(Nat) /\ owned[t][k] \in Nat
  BY ElementOfSeq DEF TypeOK, OwnedCount
<1>2. rest \in Seq(Nat) /\ more \in Seq(Nat)
  BY <1>1, RemoveAtProperties, AppendProperties DEF OwnedCount
<1>3. /\ owned' = [owned EXCEPT ![t] = rest, ![u] = more]
      /\ calm' = [calm EXCEPT ![t] = 0, ![u] = 0]
      /\ UNCHANGED << configVars, poolVars, held, call, todo, grown, last, panicked >>
  <2>1. t # u
    BY DEF SendBitmap
  <2> QED
    BY <2>1 DEF SendBitmap, TypeOK
<1> HIDE DEF rest, more
<1>4. owned' \in [Threads -> Seq(Nat)]
  BY <1>2, <1>3 DEF TypeOK
<1>5. calm' \in [Threads -> Nat]
  BY <1>3 DEF TypeOK
<1>6. TypeOK'
  BY <1>3, <1>4, <1>5 DEF TypeOK, configVars, poolVars
<1> QED
  BY <1>3, <1>6, ManageKeepsCalls DEF poolVars

LEMMA ConfigureKeeps ==
  ASSUME IInv, NEW t \in Threads, Configure(t)
  PROVE  IInv'
<1> USE DEF IInv
<1>1. PICK n \in use.budgets, policy \in use.policies, list \in use.sizeLists :
        /\ budget' = [budget EXCEPT ![t] = [buffers |-> n, on_overflow |-> policy]]
        /\ sizes' = [sizes EXCEPT ![t] = list]
  BY DEF Configure
<1>2. n \in Nat /\ policy \in {"Allocate", "Fail"} /\ list \in Seq(Nat)
  BY UseFacts
<1>3. budget' \in [Threads -> [buffers : Nat, on_overflow : {"Allocate", "Fail"}]]
  BY <1>1, <1>2 DEF TypeOK
<1>4. sizes' \in [Threads -> Seq(Nat)]
  BY <1>1, <1>2 DEF TypeOK
<1>5. overflows' \in [Threads -> Nat] /\ calm' \in [Threads -> Nat]
  BY DEF Configure, TypeOK
<1>6. TypeOK'
  BY <1>3, <1>4, <1>5 DEF Configure, TypeOK
<1> QED
  BY <1>6, ManageKeepsCalls DEF Configure

LEMMA PrewarmKeeps ==
  ASSUME IInv, NEW t \in Threads, Prewarm(t)
  PROVE  IInv'
<1> USE DEF IInv
<1> DEFINE results == prewarmed(t, free[t]["result"])
           arenas  == prewarmed(t, free[t]["arena"])
<1>1. results \in Seq(Nat) /\ arenas \in Seq(Nat)
  <2>1. free[t]["result"] \in Seq(Nat) /\ free[t]["arena"] \in Seq(Nat)
    BY PoolMembers DEF TypeOK
  <2> QED
    BY <2>1, PrewarmedProperties
<1>2. free' = [free EXCEPT ![t]["result"] = results, ![t]["arena"] = arenas]
  BY PoolMembers DEF Prewarm, TypeOK
<1> HIDE DEF results, arenas
<1>3. free' \in [Threads -> [Pools -> Seq(Nat)]]
  BY <1>1, <1>2, PoolMembers DEF TypeOK
<1>4. calm' \in [Threads -> Nat]
  BY DEF Prewarm, TypeOK
<1>5. TypeOK'
  BY <1>3, <1>4 DEF Prewarm, TypeOK, configVars
<1> QED
  BY <1>5, ManageKeepsCalls DEF Prewarm

LEMMA ClearKeeps ==
  ASSUME IInv, NEW t \in Threads, Clear(t)
  PROVE  IInv'
<1> USE DEF IInv
<1> DEFINE none == << >>
           left == [p \in Pools |-> IF p \in Cleared THEN none ELSE free[t][p]]
<1>1. none \in Seq(Nat)
  OBVIOUS
<1>2. free' = [free EXCEPT ![t] = left]
  BY DEF Clear
<1> HIDE DEF none
<1>3. left \in [Pools -> Seq(Nat)]
  BY <1>1 DEF TypeOK
<1> HIDE DEF left
<1>4. free' \in [Threads -> [Pools -> Seq(Nat)]]
  BY <1>2, <1>3 DEF TypeOK
<1>5. calm' \in [Threads -> Nat]
  BY DEF Clear, TypeOK
<1>6. TypeOK'
  BY <1>4, <1>5 DEF Clear, TypeOK, configVars
<1> QED
  BY <1>6, ManageKeepsCalls DEF Clear

----------------------------------------------------------------------------
\* The invariant.

LEMMA InitHolds == Init => IInv
<1> SUFFICES ASSUME Init PROVE IInv
  OBVIOUS
<1> DEFINE none == << >>
<1>1. none \in Seq(Nat) /\ none \in Seq(Instruction) /\ none = << >> /\ Len(none) = 0
  OBVIOUS
<1>2. use \in Uses /\ use.buffers \in Nat
  BY PoolAssumption DEF Init
<1>3. /\ sizes = [t \in Threads |-> none]
      /\ free = [t \in Threads |-> [p \in Pools |-> none]]
      /\ held = [t \in Threads |-> [p \in Pools |-> none]]
      /\ owned = [t \in Threads |-> none]
      /\ todo = [t \in Threads |-> none]
      /\ last = [t \in Threads |-> none]
  BY DEF Init
<1> HIDE DEF none
<1>4. TypeOK
  BY <1>1, <1>2, <1>3 DEF Init, TypeOK
<1>5. Balanced
  <2> SUFFICES ASSUME NEW t \in Threads
               PROVE  /\ Closes(HeldCounts(t), todo[t], call[t])
                      /\ call[t] = "none" => todo[t] = << >>
    BY DEF Balanced
  <2>1. HeldCounts(t) = Zero /\ todo[t] = << >> /\ call[t] = "none"
    BY <1>1, <1>3 DEF Init, HeldCounts, HeldCount, Zero
  <2>2. AtRest("none", Zero)
    BY DEF AtRest, Zero
  <2> QED
    BY <2>1, <2>2, RunsNone, ZeroCounts DEF Closes
<1>6. WorkingLiveExact
  BY <1>1, <1>3 DEF Init, WorkingLiveExact, HeldCount, Pools
<1> QED
  BY <1>4, <1>5, <1>6 DEF IInv

LEMMA NextKeeps == IInv /\ [Next]_vars => IInv'
<1> SUFFICES ASSUME IInv, [Next]_vars PROVE IInv'
  OBVIOUS
<1>1. CASE UNCHANGED vars
  BY <1>1 DEF vars, configVars, poolVars, IInv, TypeOK, Balanced, WorkingLiveExact,
              HeldCounts, HeldCount
<1>2. CASE Next
  <2>1. PICK t \in use.threads : StartCall(t) \/ TreeStep(t) \/ Run(t) \/ Manage(t)
    BY <1>2 DEF Next
  <2>2. t \in Threads /\ use.threads \subseteq Threads
    BY UseFacts DEF IInv
  <2>3. CASE StartCall(t)
    BY <2>2, <2>3, StartCallKeeps, StartTreeKeeps DEF StartCall
  <2>4. CASE TreeStep(t)
    BY <2>2, <2>4, TreeKeeps
  <2>5. CASE Run(t)
    BY <2>2, <2>5, TakeKeeps, TakePanicsKeeps, PutKeeps, SwapKeeps, OwnLoseKeep, ReturnKeeps DEF Run
  <2>6. CASE Manage(t)
    BY <2>2, <2>6, DropKeeps, SendKeeps, ConfigureKeeps, PrewarmKeeps, ClearKeeps DEF Manage
  <2> QED
    BY <2>1, <2>3, <2>4, <2>5, <2>6
<1> QED
  BY <1>1, <1>2

LEMMA Invariant == Spec => []IInv
<1> QED
  BY InitHolds, NextKeeps, PTL DEF Spec

\* Every variable keeps its type: in particular no put, swap or hand-over of a
\* call ever asks a pool for a buffer the call does not hold.
THEOREM TypeCorrect == Spec => []TypeOK
<1>1. IInv => TypeOK
  BY DEF IInv
<1> QED
  BY <1>1, Invariant, PTL

\* However many threads there are and whatever they do, a pool of working memory
\* never counts less than it has handed out, and counts exactly that until a
\* call panics.
THEOREM LiveExact == Spec => []WorkingLiveExact
<1>1. IInv => WorkingLiveExact
  BY DEF IInv
<1> QED
  BY <1>1, Invariant, PTL

\* A call gives back all it took, on every path through a flat operation or a
\* tree of any size, and also when it panics.
THEOREM NothingHeld == Spec => []NothingHeldBetweenCalls
<1>1. IInv => NothingHeldBetweenCalls
  <2> SUFFICES ASSUME IInv, NEW t \in Threads, NEW p \in Pools, call[t] = "none"
               PROVE  held[t][p] = << >>
    BY DEF NothingHeldBetweenCalls
  <2>1. PICK h \in Counts : Runs(HeldCounts(t), << >>, h) /\ AtRest("none", h)
    BY DEF IInv, Balanced, Closes
  <2>2. HeldCounts(t)[p] = 0
    BY <2>1, RunsEnd DEF AtRest
  <2>3. Len(held[t][p]) = 0 /\ held[t][p] \in Seq(Nat)
    BY <2>2 DEF HeldCounts, HeldCount, IInv, TypeOK
  <2> QED
    BY <2>3, EmptySeq
<1> QED
  BY <1>1, Invariant, PTL

LEMMA OneChanged ==
  ASSUME TypeOK, NEW t \in Threads, NEW u \in Threads, NEW p \in Pools, NEW q \in Pools, NEW s,
         free' = [free EXCEPT ![u][q] = s], free'[t][p] # free[t][p]
  PROVE  u = t /\ p = q /\ free'[t][p] = s
  BY DEF TypeOK

\* A step that leaves more buffers idle leaves no more than the budget.
LEMMA NextRetains ==
  ASSUME IInv, [Next]_vars, NEW t \in Threads, NEW p \in Pools,
         Len(free'[t][p]) > Len(free[t][p])
  PROVE  Len(free'[t][p]) <= budget'[t].buffers
<1> USE DEF IInv
<1>1. free[t][p] \in Seq(Nat) /\ Len(free[t][p]) \in Nat
  BY LenProperties DEF TypeOK
<1>2. free' # free /\ free'[t][p] # free[t][p]
  BY <1>1
<1>3. PICK u \in use.threads : StartCall(u) \/ TreeStep(u) \/ Run(u) \/ Manage(u)
  BY <1>2 DEF Next, vars, poolVars
<1>4. u \in Threads
  BY <1>3, UseFacts
<1>5. CASE Take(u)
  <2>1. step(u).pool \in Pools
    BY <1>4, <1>5, StepFacts DEF Take, At, Instruction
  <2>2. free[u][step(u).pool] \in Seq(Nat)
    BY SMTT(60), <1>4, <2>1 DEF TypeOK
  <2> DEFINE q == step(u).pool
             kept == IF free[u][q] = << >> THEN free[u][q] ELSE Front(free[u][q])
  <2>3. free' = [free EXCEPT ![u][q] = kept]
    BY <1>4, <1>5, <2>1 DEF Take, TypeOK
  <2> HIDE DEF q, kept
  <2>4. u = t /\ p = q /\ free'[t][p] = kept
    BY <1>2, <1>4, <2>1, <2>3, OneChanged DEF q
  <2>5. free[t][p] # << >> /\ kept = Front(free[t][p])
    BY <1>2, <2>4 DEF kept
  <2>6. Len(Front(free[t][p])) = Len(free[t][p]) - 1
    BY <1>1, <2>5, FrontProperties
  <2> QED
    BY <1>1, <2>4, <2>5, <2>6
<1>6. CASE Put(u)
  <2> DEFINE q == step(u).pool
             k == HeldCount(u, q) - step(u).n
             item == held[u][q][k]
  <2>1. q \in Pools /\ step(u).n \in Nat /\ step(u).n < HeldCounts(u)[q]
    BY <1>4, <1>6, StepFacts DEF Put, At, Instruction, Does
  <2>2. held[u][q] \in Seq(Nat) /\ k \in 1 .. Len(held[u][q])
    <3>1. held[u][q] \in Seq(Nat)
      BY SMTT(60), <1>4, <2>1 DEF TypeOK
    <3>2. Len(held[u][q]) \in Nat /\ HeldCounts(u)[q] = Len(held[u][q]) /\ HeldCount(u, q) = Len(held[u][q])
      BY <2>1, <3>1, LenProperties DEF HeldCounts, HeldCount
    <3> HIDE DEF q
    <3> QED
      BY <2>1, <3>1, <3>2
  <2>3. item \in Nat
    <3> HIDE DEF k, q
    <3> QED
      BY <2>2, ElementOfSeq
  <2>4. free' = [free EXCEPT ![u][q] = retained(u, free[u][q], item)]
    BY <1>4, <1>6, <2>1 DEF Put, TypeOK
  <2> HIDE DEF q, item
  <2>5. u = t /\ p = q /\ free'[t][p] = retained(t, free[t][p], item)
    BY <1>2, <1>4, <2>1, <2>4, OneChanged
  <2>6. budget' = budget
    BY <1>6 DEF Put, configVars
  <2> QED
    BY <1>1, <2>3, <2>5, <2>6, RetainedProperties
<1>7. CASE \E k \in 1 .. OwnedCount(u) : DropBitmap(u, k)
  <2>1. PICK k \in 1 .. OwnedCount(u) : DropBitmap(u, k)
    BY <1>7
  <2>2. owned[u] \in Seq(Nat)
    BY <1>4 DEF TypeOK
  <2>3. owned[u][k] \in Nat
    BY <2>1, <2>2, ElementOfSeq DEF OwnedCount
  <2>4. u = t /\ p = "result" /\ free'[t][p] = retained(t, free[t][p], owned[u][k])
    <3>1. free' = [free EXCEPT ![u]["result"] = retained(u, free[u]["result"], owned[u][k])]
      BY <1>4, <2>1, PoolMembers DEF DropBitmap, TypeOK
    <3> QED
      BY <1>2, <1>4, <3>1, OneChanged, PoolMembers
  <2>5. budget' = budget
    BY <2>1 DEF DropBitmap, configVars
  <2> QED
    BY <1>1, <2>3, <2>4, <2>5, RetainedProperties
<1>8. CASE Prewarm(u)
  <2>1. u = t /\ free'[t][p] = prewarmed(t, free[t][p])
    <3> DEFINE results == prewarmed(u, free[u]["result"])
               arenas  == prewarmed(u, free[u]["arena"])
    <3>1. free' = [free EXCEPT ![u]["result"] = results, ![u]["arena"] = arenas]
      BY <1>4, <1>8, PoolMembers DEF Prewarm, TypeOK
    <3> HIDE DEF results, arenas
    <3>2. u = t
      BY <1>2, <1>4, <3>1, PoolMembers DEF TypeOK
    <3>3. \/ p = "result" /\ free'[t][p] = results
          \/ p = "arena" /\ free'[t][p] = arenas
      BY <1>2, <1>4, <3>1, PoolMembers DEF TypeOK
    <3> QED
      BY <3>2, <3>3 DEF results, arenas
  <2>2. budget' = budget
    BY <1>8 DEF Prewarm, configVars
  <2> QED
    BY <1>1, <2>1, <2>2, PrewarmedProperties
<1>9. CASE Clear(u)
  <2>1. free'[t][p] \in {free[t][p], << >>}
    BY <1>4, <1>9 DEF Clear, TypeOK
  <2> QED
    BY <1>1, <2>1
<1>10. Take(u) \/ Put(u) \/ Prewarm(u) \/ Clear(u) \/ \E k \in 1 .. OwnedCount(u) : DropBitmap(u, k)
  <2>1. ~ StartCall(u)
    BY <1>2 DEF StartCall, StartFlat, StartTree, StartCopy, StartReject, Start, poolVars
  <2>2. ~ TreeStep(u)
    BY <1>2 DEF TreeStep, TreeCombine, TreeGuard, TreeFinish, Continue, poolVars
  <2>3. CASE Run(u)
    BY <1>2, <2>3 DEF Run, TakePanics, Swap, Own, Lose, Return, poolVars
  <2>4. CASE Manage(u)
    BY <1>2, <2>4 DEF Manage, SendBitmap, Configure, poolVars
  <2> QED
    BY <1>3, <2>1, <2>2, <2>3, <2>4
<1> QED
  BY <1>5, <1>6, <1>7, <1>8, <1>9, <1>10

\* Whatever a thread does, a pool that keeps more idle buffers than before keeps
\* at most its budget.
THEOREM Retention == Spec => RetentionWithinBudget
<1>1. IInv /\ [Next]_vars =>
        [\A t \in Threads, p \in Pools :
           Len(free'[t][p]) > Len(free[t][p]) => Len(free'[t][p]) <= budget'[t].buffers]_vars
  BY NextRetains
<1> QED
  BY <1>1, Invariant, PTL DEF Spec, RetentionWithinBudget

----------------------------------------------------------------------------
\* Sums over the threads.

\* Induction over the subsets of a finite set, for a set of them.
LEMMA SubsetInduction ==
  ASSUME NEW S, IsFiniteSet(S), NEW Q,
         \A T \in SUBSET S : (\A U \in SUBSET T : U # T => U \in Q) => T \in Q
  PROVE  SUBSET S \subseteq Q
<1> DEFINE missing == {T \in SUBSET S : T \notin Q}
<1>1. ASSUME missing # {} PROVE FALSE
  <2>1. FiniteSubsetsOf(S) = SUBSET S
    BY FS_FiniteSubsetsOfFinite
  <2>2. IsWellFoundedOn(StrictSubsetOrdering(S), SUBSET S)
    BY <2>1, FS_StrictSubsetOrderingWellFounded
  <2>3. missing \subseteq SUBSET S
    OBVIOUS
  <2> HIDE DEF missing
  <2>4. PICK T \in missing : \A U \in missing : ~ (<< U, T >> \in StrictSubsetOrdering(S))
    BY <1>1, <2>2, <2>3, WFMin
  <2>5. T \in SUBSET S /\ T \notin Q
    BY DEF missing
  <2>6. ASSUME NEW U \in SUBSET T, U # T
        PROVE  U \in Q
    <3>1. U \in SUBSET S /\ << U, T >> \in StrictSubsetOrdering(S)
      BY <2>5, <2>6 DEF StrictSubsetOrdering
    <3> QED
      BY <2>4, <3>1 DEF missing
  <2> QED
    BY <2>5, <2>6
<1> QED
  BY <1>1

Pick(s) == CHOOSE x \in s : TRUE

\* g has the sum of f over every subset of S.
SumsOver(f, S, g) ==
  g = [s \in SUBSET S |-> IF s = {} THEN 0 ELSE f[Pick(s)] + g[s \ {Pick(s)}]]

\* What g says of one subset.
Adds(f, g, s) == g[s] = IF s = {} THEN 0 ELSE f[Pick(s)] + g[s \ {Pick(s)}]

LEMMA SumsOverAdds ==
  ASSUME NEW f, NEW S, NEW g, SumsOver(f, S, g)
  PROVE  \A s \in SUBSET S : Adds(f, g, s)
  BY DEF SumsOver, Adds

LEMMA AddsFacts ==
  ASSUME NEW f, NEW g, NEW s, Adds(f, g, s)
  PROVE  /\ s = {} => g[s] = 0
         /\ s # {} => /\ Pick(s) \in s /\ s \ {Pick(s)} \in SUBSET s /\ s \ {Pick(s)} # s
                      /\ g[s] = f[Pick(s)] + g[s \ {Pick(s)}]
<1>1. s # {} => Pick(s) \in s
  BY DEF Pick
<1> QED
  BY <1>1 DEF Adds

\* There is one such sum.
LEMMA SumsOverAgree ==
  ASSUME NEW f, NEW S, IsFiniteSet(S), NEW R, NEW g, NEW h, SumsOver(f, S, g), SumsOver(f, R, h),
         S \subseteq R
  PROVE  g[S] = h[S]
<1> DEFINE Q == {s \in SUBSET S : g[s] = h[s]}
<1>1. ASSUME NEW T \in SUBSET S, \A U \in SUBSET T : U # T => U \in Q
      PROVE  T \in Q
  <2>1. Adds(f, g, T) /\ Adds(f, h, T)
    BY SumsOverAdds
  <2>2. CASE T = {}
    BY <2>1, <2>2 DEF Adds
  <2>3. CASE T # {}
    <3>1. T \ {Pick(T)} \in SUBSET T /\ T \ {Pick(T)} # T
      BY <2>1, <2>3, AddsFacts
    <3>2. g[T \ {Pick(T)}] = h[T \ {Pick(T)}]
      BY <1>1, <3>1
    <3> QED
      BY <2>1, <3>2 DEF Adds
  <2> QED
    BY <2>2, <2>3
<1> HIDE DEF Q
<1>2. SUBSET S \subseteq Q
  BY <1>1, SubsetInduction
<1> QED
  BY <1>2 DEF Q

LEMMA SumsOverExist ==
  ASSUME NEW f, NEW S, IsFiniteSet(S)
  PROVE  \E g : SumsOver(f, S, g)
<1> DEFINE Q == {T \in SUBSET S : \E g : SumsOver(f, T, g)}
           G(T) == CHOOSE g : SumsOver(f, T, g)
<1>1. ASSUME NEW T \in SUBSET S, \A U \in SUBSET T : U # T => U \in Q
      PROVE  T \in Q
  <2>1. \A U \in SUBSET T : U # T => SumsOver(f, U, G(U))
    BY <1>1
  <2> DEFINE sum(s) == IF s = {} THEN 0 ELSE f[Pick(s)] + G(s \ {Pick(s)})[s \ {Pick(s)}]
             h == [s \in SUBSET T |-> sum(s)]
  <2> HIDE DEF G
  <2>2. ASSUME NEW s \in SUBSET T
        PROVE  h[s] = IF s = {} THEN 0 ELSE f[Pick(s)] + h[s \ {Pick(s)}]
    <3>1. CASE s = {}
      BY <3>1
    <3>2. CASE s # {}
      <4> DEFINE u == s \ {Pick(s)}
      <4>1. Pick(s) \in s
        BY <3>2 DEF Pick
      <4>2. u \in SUBSET T /\ u # T /\ IsFiniteSet(u)
        <5>1. u \subseteq S
          OBVIOUS
        <5> QED
          BY <4>1, <5>1, FS_Subset
      <4>3. h[s] = f[Pick(s)] + G(u)[u]
        BY <3>2
      <4>4. SumsOver(f, u, G(u))
        BY <2>1, <4>2
      <4>5. G(u)[u] = h[u]
        <5> HIDE DEF u
        <5> DEFINE gu == G(u)
        <5>3. Adds(f, gu, u)
          BY <4>4, SumsOverAdds
        <5>4. gu = G(u)
          OBVIOUS
        <5> HIDE DEF gu
        <5>1. CASE u = {}
          BY <4>2, <5>1, <5>3, <5>4, AddsFacts
        <5>2. CASE u # {}
          <6> DEFINE w == u \ {Pick(u)}
          <6>1. Pick(u) \in u
            BY <5>2 DEF Pick
          <6>2. G(u)[u] = f[Pick(u)] + G(u)[w] /\ w \in SUBSET u
            BY <5>2, <5>3, <5>4, <6>1 DEF Adds
          <6>3. w \in SUBSET T /\ w # T /\ IsFiniteSet(w)
            BY <4>2, <6>1, FS_Subset
          <6>4. SumsOver(f, w, G(w))
            BY <2>1, <6>3
          <6>5. G(w)[w] = G(u)[w]
            <7> HIDE DEF w
            <7> QED
              BY <4>4, <6>2, <6>3, <6>4, SumsOverAgree
          <6> QED
            BY <4>2, <5>2, <6>2, <6>5
        <5> QED
          BY <5>1, <5>2
      <4> QED
        BY <3>2, <4>3, <4>5
    <3> QED
      BY <3>1, <3>2
  <2>3. h = [s \in SUBSET T |-> h[s]]
    OBVIOUS
  <2> HIDE DEF h
  <2>4. SumsOver(f, T, h)
    BY <2>2, <2>3 DEF SumsOver
  <2> QED
    BY <2>4
<1> HIDE DEF Q
<1>2. SUBSET S \subseteq Q
  BY <1>1, SubsetInduction
<1> QED
  BY <1>2 DEF Q

SumOf(f, S) == MapThenSumSet(LAMBDA x : f[x], S)

LEMMA SumOfIs ==
  ASSUME NEW f, NEW S, IsFiniteSet(S)
  PROVE  \E g : SumsOver(f, S, g) /\ SumOf(f, S) = g[S]
<1> DEFINE g == CHOOSE g : SumsOver(f, S, g)
<1>1. SumOf(f, S) = g[S]
  BY DEF SumOf, MapThenSumSet, MapThenFoldSet, SumsOver, Pick
<1>2. SumsOver(f, S, g)
  BY SumsOverExist
<1> QED
  BY <1>1, <1>2

\* What one thread adds is added to the sum.
LEMMA SumOfChanged ==
  ASSUME NEW S, IsFiniteSet(S), NEW t \in S, NEW f \in [S -> Int], NEW h \in [S -> Int],
         \A u \in S \ {t} : h[u] = f[u]
  PROVE  /\ SumOf(f, S) \in Int /\ SumOf(h, S) \in Int
         /\ SumOf(h, S) - SumOf(f, S) = h[t] - f[t]
<1>1. PICK g : SumsOver(f, S, g) /\ SumOf(f, S) = g[S]
  BY SumOfIs
<1>2. PICK k : SumsOver(h, S, k) /\ SumOf(h, S) = k[S]
  BY SumOfIs
<1> DEFINE d == h[t] - f[t]
           Q == {s \in SUBSET S : /\ g[s] \in Int /\ k[s] \in Int
                                  /\ k[s] - g[s] = IF t \in s THEN d ELSE 0}
<1>3. ASSUME NEW T \in SUBSET S, \A U \in SUBSET T : U # T => U \in Q
      PROVE  T \in Q
  <2>3. Adds(f, g, T) /\ Adds(h, k, T)
    BY <1>1, <1>2, SumsOverAdds
  <2>1. CASE T = {}
    <3>1. g[T] = 0 /\ k[T] = 0
      BY <2>1, <2>3 DEF Adds
    <3> QED
      BY <2>1, <3>1
  <2>2. CASE T # {}
    <3>1. PICK x \in T : x = Pick(T)
      BY <2>2, <2>3, AddsFacts
    <3>2. PICK U \in SUBSET T : U = T \ {x}
      OBVIOUS
    <3>3. g[T] = f[x] + g[U] /\ k[T] = h[x] + k[U]
      BY <2>2, <2>3, <3>1, <3>2 DEF Adds
    <3>4. g[U] \in Int /\ k[U] \in Int /\ k[U] - g[U] = IF t \in U THEN d ELSE 0
      BY <1>3, <3>2
    <3>5. f[x] \in Int /\ h[x] \in Int /\ f[t] \in Int /\ h[t] \in Int
      OBVIOUS
    <3>6. CASE x = t
      <4>1. t \notin U /\ t \in T
        BY <3>2, <3>6
      <4> QED
        BY <3>3, <3>4, <3>5, <3>6, <4>1
    <3>7. CASE x # t
      <4>1. (t \in U) = (t \in T) /\ h[x] = f[x]
        BY <3>2, <3>7
      <4> QED
        BY <3>3, <3>4, <3>5, <4>1
    <3> QED
      BY <3>6, <3>7
  <2> QED
    BY <2>1, <2>2
<1> HIDE DEF Q
<1>4. SUBSET S \subseteq Q
  BY <1>3, SubsetInduction
<1> QED
  BY <1>1, <1>2, <1>4 DEF Q

LEMMA SumOfZero ==
  ASSUME NEW S, IsFiniteSet(S)
  PROVE  SumOf([t \in S |-> 0], S) = 0
<1> DEFINE f == [t \in S |-> 0]
<1>1. PICK g : SumsOver(f, S, g) /\ SumOf(f, S) = g[S]
  BY SumOfIs
<1>5. \A t \in S : f[t] = 0
  OBVIOUS
<1> HIDE DEF f
<1> DEFINE Q == {s \in SUBSET S : g[s] = 0}
<1>2. ASSUME NEW T \in SUBSET S, \A U \in SUBSET T : U # T => U \in Q
      PROVE  T \in Q
  <2>3. Adds(f, g, T)
    BY <1>1, SumsOverAdds
  <2>1. CASE T = {}
    BY <2>1, <2>3 DEF Adds
  <2>2. CASE T # {}
    <3>1. Pick(T) \in T /\ g[T] = f[Pick(T)] + g[T \ {Pick(T)}] /\ g[T \ {Pick(T)}] = 0
      BY <1>2, <2>2, <2>3, AddsFacts
    <3> QED
      BY <1>5, <3>1
  <2> QED
    BY <2>1, <2>2
<1> HIDE DEF Q
<1>3. SUBSET S \subseteq Q
  BY <1>2, SubsetInduction
<1> QED
  BY <1>1, <1>3 DEF Q, f

----------------------------------------------------------------------------
\* The result pools, over all threads.

Counted == [t \in Threads |-> live[t]["result"]]
Real    == [t \in Threads |-> Len(owned[t]) + Len(held[t]["result"])]

Covers == SumOf(Counted, Threads) >= SumOf(Real, Threads)

LEMMA CoversIs == TypeOK => (ResultLiveCovers <=> Covers)
<1>1. (LET counted(t) == live[t]["result"] IN MapThenSumSet(counted, Threads))
        = SumOf(Counted, Threads)
  BY DEF SumOf, Counted, MapThenSumSet, MapThenFoldSet
<1>2. (LET real(t) == OwnedCount(t) + HeldCount(t, "result") IN MapThenSumSet(real, Threads))
        = SumOf(Real, Threads)
  BY DEF SumOf, Real, OwnedCount, HeldCount, MapThenSumSet, MapThenFoldSet
<1> QED
  BY <1>1, <1>2 DEF ResultLiveCovers, Covers

LEMMA CountedTypes ==
  ASSUME TypeOK
  PROVE  /\ Counted \in [Threads -> Int] /\ Real \in [Threads -> Int]
         /\ \A t \in Threads : /\ Len(owned[t]) \in Nat /\ Len(held[t]["result"]) \in Nat
                               /\ live[t]["result"] \in Nat
<1>1. ASSUME NEW t \in Threads
      PROVE  /\ Len(owned[t]) \in Nat /\ Len(held[t]["result"]) \in Nat
             /\ live[t]["result"] \in Nat
  BY PoolMembers, LenProperties DEF TypeOK
<1> QED
  BY <1>1 DEF Counted, Real

\* A thread whose result pool counts at least as much more as there is more.
LEMMA CoversStep ==
  ASSUME TypeOK, TypeOK', Covers, NEW t \in Threads,
         \A u \in Threads \ {t} : /\ live'[u]["result"] = live[u]["result"]
                                  /\ Len(owned'[u]) = Len(owned[u])
                                  /\ Len(held'[u]["result"]) = Len(held[u]["result"]),
         live'[t]["result"] + Len(owned[t]) + Len(held[t]["result"])
           >= live[t]["result"] + Len(owned'[t]) + Len(held'[t]["result"])
  PROVE  Covers'
<1>1. PICK c, d, r, s : c = Counted /\ d = Counted' /\ r = Real /\ s = Real'
  OBVIOUS
<1>2. /\ c \in [Threads -> Int] /\ d \in [Threads -> Int]
      /\ r \in [Threads -> Int] /\ s \in [Threads -> Int]
  <2>1. Counted' \in [Threads -> Int] /\ Real' \in [Threads -> Int]
    <3>1. ASSUME NEW u \in Threads
          PROVE  /\ Len(owned'[u]) \in Nat /\ Len(held'[u]["result"]) \in Nat
                 /\ live'[u]["result"] \in Nat
      BY PoolMembers, LenProperties DEF TypeOK
    <3> QED
      BY <3>1 DEF Counted, Real
  <2> QED
    BY <1>1, <2>1, CountedTypes
<1>3. (\A u \in Threads \ {t} : d[u] = c[u]) /\ (\A u \in Threads \ {t} : s[u] = r[u])
  BY <1>1 DEF Counted, Real
<1>4. d[t] - c[t] >= s[t] - r[t]
  <2>1. /\ Len(owned[t]) \in Nat /\ Len(held[t]["result"]) \in Nat
        /\ live[t]["result"] \in Nat
    BY CountedTypes
  <2>2. /\ Len(owned'[t]) \in Nat /\ Len(held'[t]["result"]) \in Nat
        /\ live'[t]["result"] \in Nat
    BY PoolMembers, LenProperties DEF TypeOK
  <2>3. /\ c[t] = live[t]["result"] /\ d[t] = live'[t]["result"]
        /\ r[t] = Len(owned[t]) + Len(held[t]["result"])
        /\ s[t] = Len(owned'[t]) + Len(held'[t]["result"])
    BY <1>1 DEF Counted, Real
  <2>4. PICK l, o, n, l1, o1, n1 \in Nat :
          /\ l = live[t]["result"] /\ o = Len(owned[t]) /\ n = Len(held[t]["result"])
          /\ l1 = live'[t]["result"] /\ o1 = Len(owned'[t]) /\ n1 = Len(held'[t]["result"])
    BY <2>1, <2>2
  <2>5. l1 + o + n >= l + o1 + n1
    BY <2>4
  <2>6. c[t] = l /\ d[t] = l1 /\ r[t] = o + n /\ s[t] = o1 + n1
    BY <2>3, <2>4
  <2> QED
    BY <2>5, <2>6
<1>5. IsFiniteSet(Threads)
  BY PoolAssumption
<1>6. /\ SumOf(c, Threads) \in Int /\ SumOf(d, Threads) \in Int
      /\ SumOf(d, Threads) - SumOf(c, Threads) = d[t] - c[t]
  BY ZenonT(60), <1>2, <1>3, <1>5, SumOfChanged
<1>7. /\ SumOf(r, Threads) \in Int /\ SumOf(s, Threads) \in Int
      /\ SumOf(s, Threads) - SumOf(r, Threads) = s[t] - r[t]
  BY ZenonT(60), <1>2, <1>3, <1>5, SumOfChanged
<1>8. SumOf(c, Threads) >= SumOf(r, Threads)
  BY <1>1 DEF Covers
<1>9. SumOf(d, Threads) >= SumOf(s, Threads)
  <2>1. c[t] \in Int /\ d[t] \in Int /\ r[t] \in Int /\ s[t] \in Int
    BY <1>2
  <2> QED
    BY <1>4, <1>6, <1>7, <1>8, <2>1
<1> QED
  BY <1>1, <1>9 DEF Covers

\* Nothing of it changes.
LEMMA CoversStays ==
  ASSUME TypeOK, TypeOK', Covers,
         \A u \in Threads : /\ live'[u]["result"] = live[u]["result"]
                            /\ Len(owned'[u]) = Len(owned[u])
                            /\ Len(held'[u]["result"]) = Len(held[u]["result"])
  PROVE  Covers'
<1>1. Counted' = Counted /\ Real' = Real
  BY DEF Counted, Real
<1> QED
  BY <1>1 DEF Covers

LEMMA TakeCovers ==
  ASSUME IInv, TypeOK', Covers, NEW t \in Threads, Take(t)
  PROVE  Covers'
<1> DEFINE p == step(t).pool
           got == Max({idle_or_new(t, p), step(t).n})
<1>1. p \in Pools
  BY StepFacts DEF Take, At, Instruction
<1>2. /\ live' = [live EXCEPT ![t][p] = live[t][p] + 1]
      /\ held' = [held EXCEPT ![t][p] = Append(held[t][p], got)]
      /\ owned' = owned
  BY <1>1 DEF Take, IInv, TypeOK, handed_out
<1>3. Len(Append(held[t][p], got)) = Len(held[t][p]) + 1
  BY <1>1, AppendProperties DEF IInv, TypeOK
<1> DEFINE longer == Append(held[t][p], got)
<1> HIDE DEF p, longer
<1>4. TypeOK /\ held' = [held EXCEPT ![t][p] = longer] /\ Len(longer) = Len(held[t][p]) + 1
  BY <1>2, <1>3 DEF IInv, longer
<1>5. /\ Len(owned[t]) \in Nat /\ Len(held[t]["result"]) \in Nat
      /\ live[t]["result"] \in Nat
  BY <1>4, CountedTypes
<1>6. \A u \in Threads \ {t} : live'[u] = live[u] /\ held'[u] = held[u]
  BY <1>1, <1>2, <1>4 DEF TypeOK
<1>7. CASE p = "result"
  <2>1. live'[t]["result"] = live[t]["result"] + 1 /\ Len(held'[t]["result"]) = Len(held[t]["result"]) + 1
    BY <1>1, <1>2, <1>4, <1>7 DEF TypeOK
  <2>2. owned'[t] = owned[t]
    BY <1>2
  <2>3. live'[t]["result"] + Len(owned[t]) + Len(held[t]["result"])
          >= live[t]["result"] + Len(owned'[t]) + Len(held'[t]["result"])
    <3> HIDE DEF got
    <3>1. PICK i, j, k \in Nat : i = live[t]["result"] /\ j = Len(owned[t]) /\ k = Len(held[t]["result"])
      BY <1>5
    <3>2. /\ live'[t]["result"] = i + 1 /\ Len(held'[t]["result"]) = k + 1
          /\ Len(owned'[t]) = j
      BY <2>1, <2>2, <3>1
    <3>3. live'[t]["result"] + Len(owned[t]) + Len(held[t]["result"]) = (i + 1) + j + k
      BY <3>1, <3>2, Zenon
    <3>4. live[t]["result"] + Len(owned'[t]) + Len(held'[t]["result"]) = i + j + (k + 1)
      BY <3>1, <3>2, Zenon
    <3>5. (i + 1) + j + k >= i + j + (k + 1)
      OBVIOUS
    <3> QED
      BY <3>3, <3>4, <3>5, Zenon
  <2>4. \A u \in Threads \ {t} : /\ live'[u]["result"] = live[u]["result"]
                                  /\ Len(owned'[u]) = Len(owned[u])
                                  /\ Len(held'[u]["result"]) = Len(held[u]["result"])
    BY <1>2, <1>6
  <2> QED
    BY <1>4, <2>3, <2>4, CoversStep
<1>8. CASE p # "result"
  <2>1. live'[t]["result"] = live[t]["result"] /\ held'[t]["result"] = held[t]["result"]
    BY <1>1, <1>2, <1>4, <1>8, PoolMembers DEF TypeOK
  <2>2. \A u \in Threads : /\ live'[u]["result"] = live[u]["result"]
                                   /\ Len(owned'[u]) = Len(owned[u])
                                   /\ Len(held'[u]["result"]) = Len(held[u]["result"])
    BY <1>2, <1>6, <2>1
  <2> QED
    BY <1>4, <2>2, CoversStays
<1> QED
  BY <1>7, <1>8

LEMMA TakePanicsCovers ==
  ASSUME IInv, TypeOK', Covers, NEW t \in Threads, TakePanics(t)
  PROVE  Covers'
<1> DEFINE p == step(t).pool
<1>1. /\ p \in Working /\ live' = [live EXCEPT ![t][p] = handed_out(t, p)]
      /\ held' = [held EXCEPT ![t] = [q \in Pools |-> IF q \in Guarded THEN @[q] ELSE << >>]]
      /\ owned' = owned
  BY DEF TakePanics, over_budget
<1>2. TypeOK
  BY DEF IInv
<1> HIDE DEF p
<1>3. live'[t]["result"] = live[t]["result"] /\ held'[t]["result"] = << >>
  BY <1>1, <1>2, PoolMembers DEF TypeOK, Working, Guarded
<1>4. \A u \in Threads \ {t} : live'[u] = live[u] /\ held'[u] = held[u]
  BY <1>1, <1>2 DEF TypeOK
<1>5. /\ Len(owned[t]) \in Nat /\ Len(held[t]["result"]) \in Nat
      /\ live[t]["result"] \in Nat /\ Len(<< >>) = 0
  BY <1>2, CountedTypes
<1>6. live'[t]["result"] + Len(owned[t]) + Len(held[t]["result"])
           >= live[t]["result"] + Len(owned'[t]) + Len(held'[t]["result"])
  <2>1. PICK l, o, n \in Nat :
          l = live[t]["result"] /\ o = Len(owned[t]) /\ n = Len(held[t]["result"])
    BY <1>5
  <2>2. live'[t]["result"] = l /\ Len(owned'[t]) = o /\ Len(held'[t]["result"]) = 0
    BY <1>1, <1>3, <1>5, <2>1
  <2>3. l + o + n >= l + o + 0
    OBVIOUS
  <2> QED
    BY <2>1, <2>2, <2>3
<1> QED
  BY <1>1, <1>2, <1>4, <1>6, CoversStep

LEMMA PutCovers ==
  ASSUME IInv, TypeOK', Covers, NEW t \in Threads, Put(t)
  PROVE  Covers'
<1> DEFINE p == step(t).pool
           k == HeldCount(t, p) - step(t).n
           n == saturating_dec(live[t][p])
           left == RemoveAt(held[t][p], k)
<1>1. p \in Pools /\ step(t).n \in Nat /\ step(t).n < HeldCounts(t)[p]
  BY StepFacts DEF Put, At, Instruction, Does
<1>2. held[t][p] \in Seq(Nat) /\ Len(held[t][p]) \in Nat /\ k \in 1 .. Len(held[t][p])
  <2>1. held[t][p] \in Seq(Nat)
    BY <1>1 DEF IInv, TypeOK
  <2>2. Len(held[t][p]) \in Nat /\ HeldCounts(t)[p] = Len(held[t][p]) /\ HeldCount(t, p) = Len(held[t][p])
    BY <1>1, <2>1, LenProperties DEF HeldCounts, HeldCount
  <2> HIDE DEF p
  <2> QED
    BY <1>1, <2>1, <2>2
<1>3. Len(left) = Len(held[t][p]) - 1
  <2> HIDE DEF k, p
  <2> QED
    BY <1>2, RemoveAtProperties
<1>4. /\ live' = [live EXCEPT ![t][p] = n]
      /\ held' = [held EXCEPT ![t][p] = left]
      /\ owned' = owned
  BY <1>1 DEF Put, IInv, TypeOK
<1>5. TypeOK
  BY DEF IInv
<1>6. n = IF live[t][p] = 0 THEN 0 ELSE live[t][p] - 1
  BY DEF saturating_dec
<1> HIDE DEF p, k, n, left
<1>7. /\ Len(owned[t]) \in Nat /\ Len(held[t]["result"]) \in Nat
      /\ live[t]["result"] \in Nat
  BY <1>5, CountedTypes
<1>8. \A u \in Threads \ {t} : live'[u] = live[u] /\ held'[u] = held[u]
  BY <1>1, <1>4, <1>5 DEF TypeOK
<1>9. CASE p = "result"
  <2>1. live'[t]["result"] = n /\ Len(held'[t]["result"]) = Len(held[t]["result"]) - 1
    BY <1>1, <1>3, <1>4, <1>5, <1>9 DEF TypeOK
  <2>2. n >= live[t]["result"] - 1 /\ n \in Nat
    BY <1>6, <1>7, <1>9
  <2>3. live'[t]["result"] + Len(owned[t]) + Len(held[t]["result"])
           >= live[t]["result"] + Len(owned'[t]) + Len(held'[t]["result"])
    <3>1. PICK l, o, h, m \in Nat :
            /\ l = live[t]["result"] /\ o = Len(owned[t]) /\ h = Len(held[t]["result"])
            /\ m = n
      BY <1>7, <2>2
    <3>2. live'[t]["result"] = m /\ Len(held'[t]["result"]) = h - 1 /\ Len(owned'[t]) = o
      BY <1>4, <2>1, <3>1
    <3>3. m >= l - 1
      BY <2>2, <3>1
    <3>4. m + o + h >= l + o + (h - 1)
      BY <3>3
    <3> QED
      BY <3>1, <3>2, <3>4
  <2> QED
    BY <1>4, <1>5, <1>8, <2>3, CoversStep
<1>10. CASE p # "result"
  <2>1. live'[t]["result"] = live[t]["result"] /\ held'[t]["result"] = held[t]["result"]
    BY <1>1, <1>4, <1>5, <1>10, PoolMembers DEF TypeOK
  <2>2. \A u \in Threads : /\ live'[u]["result"] = live[u]["result"]
                           /\ Len(owned'[u]) = Len(owned[u])
                           /\ Len(held'[u]["result"]) = Len(held[u]["result"])
    BY <1>4, <1>8, <2>1
  <2> QED
    BY <1>5, <2>2, CoversStays
<1> QED
  BY <1>9, <1>10

LEMMA SwapCovers ==
  ASSUME IInv, TypeOK', Covers, NEW t \in Threads, Swap(t)
  PROVE  Covers'
<1> DEFINE a == HeldCount(t, "arena")
           r == HeldCount(t, "result")
           arenas  == [held[t]["arena"] EXCEPT ![a] = held[t]["result"][r]]
           results == [held[t]["result"] EXCEPT ![r] = held[t]["arena"][a]]
<1>1. HeldCounts(t)["arena"] > 0 /\ HeldCounts(t)["result"] > 0
  BY StepFacts DEF Swap, At, Does
<1>2. TypeOK /\ held[t]["arena"] \in Seq(Nat) /\ held[t]["result"] \in Seq(Nat)
  <2>1. TypeOK
    BY DEF IInv
  <2>2. held \in [Threads -> [Pools -> Seq(Nat)]]
    BY <2>1 DEF TypeOK
  <2> QED
    BY <2>1, <2>2, PoolMembers
<1>3. Len(results) = Len(held[t]["result"])
  <2> HIDE DEF a, r
  <2>1. PICK x : x = held[t]["arena"][a]
    OBVIOUS
  <2>2. Len([held[t]["result"] EXCEPT ![r] = x]) = Len(held[t]["result"])
    BY <1>2
  <2> QED
    BY <2>1, <2>2
<1>4. /\ held' = [held EXCEPT ![t] = [held[t] EXCEPT !["arena"] = arenas, !["result"] = results]]
      /\ live' = live /\ owned' = owned
  <2>1. held' = [held EXCEPT ![t]["arena"][a] = held[t]["result"][r],
                             ![t]["result"][r] = held[t]["arena"][a]]
    BY DEF Swap
  <2> HIDE DEF a, r
  <2>2. live' = live /\ owned' = owned
    BY DEF Swap, poolVars
  <2> QED
    BY <1>2, <2>1, <2>2, PoolMembers DEF TypeOK
<1> HIDE DEF arenas, results
<1>5. \A u \in Threads : /\ live'[u]["result"] = live[u]["result"]
                         /\ Len(owned'[u]) = Len(owned[u])
                         /\ Len(held'[u]["result"]) = Len(held[u]["result"])
  BY <1>2, <1>3, <1>4, PoolMembers DEF TypeOK
<1> QED
  BY <1>2, <1>5, CoversStays

LEMMA OwnLoseCover ==
  ASSUME IInv, TypeOK', Covers, NEW t \in Threads, Own(t) \/ Lose(t)
  PROVE  Covers'
<1> DEFINE buffers == held[t]["result"]
           left == Front(buffers)
<1>1. todo[t] # << >> /\ step(t).op \in {"own", "lose"}
  BY DEF Own, Lose, At
<1>2. HeldCounts(t)["result"] > 0
  BY <1>1, StepFacts DEF Does
<1>3. TypeOK /\ buffers \in Seq(Nat) /\ buffers # << >>
  <2>1. TypeOK
    BY DEF IInv
  <2> QED
    <3>1. held \in [Threads -> [Pools -> Seq(Nat)]]
      BY <2>1 DEF TypeOK
    <3>2. buffers \in Seq(Nat)
      BY <3>1, PoolMembers
    <3>3. Len(buffers) > 0
      BY <1>2, PoolMembers DEF HeldCounts, HeldCount
    <3>4. buffers # << >>
      BY <3>3
    <3> QED
      BY <2>1, <3>2, <3>4
<1>4. Len(left) = Len(buffers) - 1
  BY <1>3, FrontProperties
<1>5. held' = [held EXCEPT ![t]["result"] = left] /\ live' = live
  BY <1>3, PoolMembers DEF Own, Lose, TypeOK, poolVars
<1>6. Len(owned'[t]) <= Len(owned[t]) + 1 /\ Len(owned'[t]) \in Nat
  <2>1. owned[t] \in Seq(Nat) /\ Len(owned[t]) \in Nat
    BY <1>3, LenProperties DEF TypeOK
  <2>2. CASE Own(t)
    <3> DEFINE longer == Append(owned[t], Last(buffers))
    <3>1. Last(buffers) \in Nat
      BY <1>3, FrontProperties
    <3>2. Len(longer) = Len(owned[t]) + 1
      BY <2>1, <3>1, AppendProperties
    <3>3. owned' = [owned EXCEPT ![t] = longer]
      BY <2>2 DEF Own
    <3> HIDE DEF longer
    <3> QED
      BY <1>3, <2>1, <3>2, <3>3 DEF TypeOK
  <2>3. CASE Lose(t)
    BY <2>1, <2>3 DEF Lose
  <2> QED
    BY <2>2, <2>3
<1>7. \A u \in Threads \ {t} : owned'[u] = owned[u]
  BY <1>3 DEF Own, Lose, TypeOK
<1> HIDE DEF left
<1>8. \A u \in Threads \ {t} : held'[u] = held[u]
  BY <1>3, <1>5 DEF TypeOK
<1>9. Len(held'[t]["result"]) = Len(held[t]["result"]) - 1
  BY <1>3, <1>4, <1>5, PoolMembers DEF TypeOK
<1>10. /\ Len(owned[t]) \in Nat /\ Len(held[t]["result"]) \in Nat
       /\ live[t]["result"] \in Nat
  BY <1>3, CountedTypes
<1>11. live'[t]["result"] + Len(owned[t]) + Len(held[t]["result"])
           >= live[t]["result"] + Len(owned'[t]) + Len(held'[t]["result"])
  <2>1. PICK l, o, n, o1 \in Nat :
          /\ l = live[t]["result"] /\ o = Len(owned[t]) /\ n = Len(held[t]["result"])
          /\ o1 = Len(owned'[t])
    BY <1>6, <1>10
  <2>2. live'[t]["result"] = l /\ Len(held'[t]["result"]) = n - 1 /\ o1 <= o + 1
    BY <1>5, <1>6, <1>9, <2>1
  <2>3. l + o + n >= l + o1 + (n - 1)
    BY <2>2
  <2> QED
    BY <2>1, <2>2, <2>3
<1> QED
  BY <1>3, <1>5, <1>7, <1>8, <1>11, CoversStep

\* Dropped where it was built or not, a bitmap is counted down at most once.
LEMMA DropCovers ==
  ASSUME IInv, TypeOK', Covers, NEW t \in Threads, NEW k \in 1 .. OwnedCount(t), DropBitmap(t, k)
  PROVE  Covers'
<1> DEFINE n == saturating_dec(live[t]["result"])
           rest == RemoveAt(owned[t], k)
<1>1. TypeOK /\ owned[t] \in Seq(Nat)
  BY DEF IInv, TypeOK
<1>2. Len(rest) = Len(owned[t]) - 1
  BY <1>1, RemoveAtProperties DEF OwnedCount
<1>3. /\ live' = [live EXCEPT ![t]["result"] = n]
      /\ owned' = [owned EXCEPT ![t] = rest]
      /\ held' = held
  BY <1>1, PoolMembers DEF DropBitmap, TypeOK
<1>4. n = IF live[t]["result"] = 0 THEN 0 ELSE live[t]["result"] - 1
  BY DEF saturating_dec
<1>5. /\ Len(owned[t]) \in Nat /\ Len(held[t]["result"]) \in Nat
      /\ live[t]["result"] \in Nat
  BY <1>1, CountedTypes
<1> HIDE DEF n, rest
<1>6. live'[t]["result"] = n /\ owned'[t] = rest
  BY <1>1, <1>3, PoolMembers DEF TypeOK
<1>7. \A u \in Threads \ {t} : live'[u] = live[u] /\ owned'[u] = owned[u]
  BY <1>1, <1>3 DEF TypeOK
<1>8. n >= live[t]["result"] - 1 /\ n \in Nat
  BY <1>4, <1>5
<1>9. live'[t]["result"] + Len(owned[t]) + Len(held[t]["result"])
           >= live[t]["result"] + Len(owned'[t]) + Len(held'[t]["result"])
  <2>1. PICK l, o, h, m \in Nat :
          /\ l = live[t]["result"] /\ o = Len(owned[t]) /\ h = Len(held[t]["result"])
          /\ m = n
    BY <1>5, <1>8
  <2>2. live'[t]["result"] = m /\ Len(held'[t]["result"]) = h /\ Len(owned'[t]) = o - 1
    BY <1>2, <1>3, <1>6, <2>1
  <2>4. m >= l - 1
    BY <1>8, <2>1
  <2>3. m + o + h >= l + (o - 1) + h
    BY <2>4
  <2> QED
    BY <2>1, <2>2, <2>3
<1> QED
  BY <1>1, <1>3, <1>7, <1>9, CoversStep

\* A bitmap sent is one less here and one more there.
LEMMA SendCovers ==
  ASSUME IInv, TypeOK', Covers, NEW t \in Threads, NEW u \in Threads,
         NEW k \in 1 .. OwnedCount(t), SendBitmap(t, u, k)
  PROVE  Covers'
<1> DEFINE rest == RemoveAt(owned[t], k)
           more == Append(owned[u], owned[t][k])
<1>1. TypeOK /\ owned[t] \in Seq(Nat) /\ owned[u] \in Seq(Nat)
  BY DEF IInv, TypeOK
<1>2. owned[t][k] \in Nat
  BY <1>1, ElementOfSeq DEF OwnedCount
<1>3. Len(rest) = Len(owned[t]) - 1 /\ Len(more) = Len(owned[u]) + 1
  BY <1>1, <1>2, RemoveAtProperties, AppendProperties DEF OwnedCount
<1>4. t # u /\ owned' = [owned EXCEPT ![t] = rest, ![u] = more] /\ live' = live /\ held' = held
  <2>1. t # u
    BY DEF SendBitmap
  <2> QED
    BY <1>1, <2>1 DEF SendBitmap, TypeOK, poolVars
<1> HIDE DEF rest, more
<1>12. IsFiniteSet(Threads)
  BY PoolAssumption
<1>5. PICK r, m, s : /\ r = Real /\ s = Real'
                     /\ m = [r EXCEPT ![t] = r[t] - 1]
  OBVIOUS
<1>6. r \in [Threads -> Int] /\ m \in [Threads -> Int]
  <2>1. r \in [Threads -> Int]
    BY <1>1, <1>5, CountedTypes
  <2> QED
    BY <1>5, <2>1
<1>7. /\ s = [m EXCEPT ![u] = m[u] + 1]
      /\ s \in [Threads -> Int]
  <2>1. ASSUME NEW v \in Threads
        PROVE  Real'[v] = IF v = t THEN r[v] - 1 ELSE IF v = u THEN r[v] + 1 ELSE r[v]
    <3>1. /\ Len(owned[v]) \in Nat /\ Len(held[v]["result"]) \in Nat
      BY <1>1, CountedTypes
    <3>2. r[v] = Len(owned[v]) + Len(held[v]["result"])
      BY <1>5 DEF Real
    <3>3. Real'[v] = Len(owned'[v]) + Len(held[v]["result"])
      BY <1>4 DEF Real
    <3>4. owned'[v] = IF v = t THEN rest ELSE IF v = u THEN more ELSE owned[v]
      BY <1>1, <1>4 DEF TypeOK
    <3>5. PICK o, n \in Nat : o = Len(owned[v]) /\ n = Len(held[v]["result"])
      BY <3>1
    <3>6. r[v] = o + n /\ Real'[v] = Len(owned'[v]) + n
      BY <3>2, <3>3, <3>5
    <3>7. Len(owned'[v]) = IF v = t THEN o - 1 ELSE IF v = u THEN o + 1 ELSE o
      BY <1>3, <3>4, <3>5
    <3>8. CASE v = t
      BY <3>6, <3>7, <3>8
    <3>9. CASE v # t /\ v = u
      BY <3>6, <3>7, <3>9
    <3>10. CASE v # t /\ v # u
      BY <3>6, <3>7, <3>10
    <3> QED
      BY <3>8, <3>9, <3>10
  <2>2. Real' = [v \in Threads |-> Real'[v]]
    BY DEF Real
  <2>3. \A v \in Threads : Real'[v] = [m EXCEPT ![u] = m[u] + 1][v]
    BY <1>4, <1>5, <1>6, <2>1
  <2>4. [m EXCEPT ![u] = m[u] + 1] \in [Threads -> Int]
    BY <1>6
  <2>5. s = [m EXCEPT ![u] = m[u] + 1]
    <3> DEFINE f == [m EXCEPT ![u] = m[u] + 1]
    <3>1. f \in [Threads -> Int] /\ (\A v \in Threads : s[v] = f[v]) /\ s = [v \in Threads |-> s[v]]
      BY <1>5, <2>2, <2>3, <2>4
    <3> HIDE DEF f
    <3>2. s = f
      BY <3>1
    <3> QED
      BY <3>2 DEF f
  <2> QED
    BY <2>4, <2>5
<1>8. /\ SumOf(r, Threads) \in Int /\ SumOf(m, Threads) \in Int
      /\ SumOf(m, Threads) - SumOf(r, Threads) = m[t] - r[t]
  <2>1. \A v \in Threads \ {t} : m[v] = r[v]
    BY <1>5, <1>6
  <2> QED
    BY <1>6, <1>12, <2>1, SumOfChanged
<1>9. /\ SumOf(s, Threads) \in Int
      /\ SumOf(s, Threads) - SumOf(m, Threads) = s[u] - m[u]
  <2>1. \A v \in Threads \ {u} : s[v] = m[v]
    BY <1>6, <1>7
  <2> QED
    <3> DEFINE f == m
               h == s
    <3>1. /\ f \in [Threads -> Int] /\ h \in [Threads -> Int]
          /\ \A v \in Threads \ {u} : h[v] = f[v]
      BY <1>6, <1>7, <2>1
    <3> HIDE DEF f, h
    <3>2. /\ SumOf(h, Threads) \in Int
          /\ SumOf(h, Threads) - SumOf(f, Threads) = h[u] - f[u]
      BY <1>12, <3>1, SumOfChanged
    <3> QED
      BY <3>2 DEF f, h
<1>10. SumOf(s, Threads) = SumOf(r, Threads)
  <2>1. m[t] = r[t] - 1 /\ s[u] = m[u] + 1 /\ r[t] \in Int /\ m[u] \in Int
    BY <1>5, <1>6, <1>7
  <2> QED
    BY <1>8, <1>9, <2>1
<1>11. Counted' = Counted
  BY <1>4 DEF Counted
<1> QED
  BY <1>5, <1>10, <1>11 DEF Covers

LEMMA InitCovers == Init => Covers
<1> SUFFICES ASSUME Init PROVE Covers
  OBVIOUS
<1>1. Counted = [t \in Threads |-> 0]
  BY PoolMembers DEF Init, Counted
<1>2. Real = [t \in Threads |-> 0]
  <2>1. \A t \in Threads : Len(owned[t]) + Len(held[t]["result"]) = 0
    BY PoolMembers DEF Init
  <2> QED
    BY <2>1 DEF Real
<1>3. SumOf([t \in Threads |-> 0], Threads) = 0
  BY SumOfZero, PoolAssumption
<1> QED
  BY <1>1, <1>2, <1>3 DEF Covers

LEMMA NextCovers == IInv /\ Covers /\ [Next]_vars => Covers'
<1> SUFFICES ASSUME IInv, Covers, [Next]_vars
             PROVE  Covers'
  OBVIOUS
<1>1. TypeOK /\ TypeOK'
  BY NextKeeps DEF IInv
<1>2. ASSUME UNCHANGED << live, owned, held >>
      PROVE  Covers'
  BY <1>1, <1>2, CoversStays
<1>3. CASE UNCHANGED vars
  BY <1>2, <1>3 DEF vars, poolVars
<1>4. CASE Next
  <2>1. PICK t \in use.threads : StartCall(t) \/ TreeStep(t) \/ Run(t) \/ Manage(t)
    BY <1>4 DEF Next
  <2>2. t \in Threads
    BY <1>1, <2>1, UseFacts
  <2>3. CASE StartCall(t)
    BY <1>2, <2>3 DEF StartCall, StartFlat, StartTree, StartCopy, StartReject, Start, poolVars
  <2>4. CASE TreeStep(t)
    BY <1>2, <2>4 DEF TreeStep, TreeCombine, TreeGuard, TreeFinish, Continue, poolVars
  <2>5. CASE Run(t)
    <3>1. CASE Return(t)
      BY <1>2, <3>1 DEF Return, poolVars
    <3> QED
      BY <1>1, <2>2, <2>5, <3>1, TakeCovers, TakePanicsCovers, PutCovers, SwapCovers, OwnLoseCover DEF Run
  <2>6. CASE Manage(t)
    <3>1. CASE \E k \in 1 .. OwnedCount(t) : DropBitmap(t, k)
      BY <1>1, <2>2, <3>1, DropCovers
    <3>2. CASE \E u \in use.threads, k \in 1 .. OwnedCount(t) : SendBitmap(t, u, k)
      BY <1>1, <2>2, <3>2, SendCovers, UseFacts
    <3>3. CASE Configure(t) \/ Prewarm(t) \/ Clear(t)
      BY <1>2, <3>3 DEF Configure, Prewarm, Clear
    <3> QED
      BY <2>6, <3>1, <3>2, <3>3 DEF Manage
  <2> QED
    BY <2>1, <2>3, <2>4, <2>5, <2>6
<1> QED
  BY <1>3, <1>4

\* However bitmaps are sent from thread to thread and wherever they are dropped,
\* the result pools count, all together, no less than the bitmaps there are.
THEOREM LiveCovers == Spec => []ResultLiveCovers
<1>1. Init => IInv /\ Covers
  BY InitHolds, InitCovers
<1>2. IInv /\ Covers /\ [Next]_vars => (IInv /\ Covers)'
  BY NextKeeps, NextCovers
<1>3. IInv /\ Covers => ResultLiveCovers
  BY CoversIs DEF IInv
<1> QED
  BY <1>1, <1>2, <1>3, PTL DEF Spec

=============================================================================
