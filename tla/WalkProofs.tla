----------------------------- MODULE WalkProofs ------------------------------
(***************************************************************************)
(* The planner's walk and the fold's over the same inputs agree, for every *)
(* set of inputs, every mask and any number of keys: a fold claims only    *)
(* slots that were planned, in the order of their keys; a slot has room    *)
(* for all it is handed; and what is handed over is what KeyStream         *)
(* promises.                                                               *)
(*                                                                         *)
(* WalkInv says where the cursors of either walk are, in terms of the keys *)
(* still ahead of them, and what has come of the keys behind.              *)
(***************************************************************************)
EXTENDS Walk, FiniteSetTheorems, SequenceTheorems, WellFoundedInduction, TLAPS

----------------------------------------------------------------------------
\* The invariant.

\* The keys still ahead of a cursor.
Rest(c) == {c.at[p] : p \in c.pos .. Len(c.at)} \cap c.live

\* A cursor somewhere along its keys: they ascend, and only an inline bitmap's
\* are repeated.
Along(c) ==
  /\ c \in [kind : Kinds \cup {"shape"}, at : Seq(Keys), live : SUBSET Keys, pos : Nat \ {0}]
  /\ c.pos <= Len(c.at) + 1
  /\ \A p, q \in 1 .. Len(c.at) : p < q => c.at[p] <= c.at[q]
  /\ c.kind # "inline" => \A p, q \in 1 .. Len(c.at) : p < q => c.at[p] < c.at[q]

\* It stands at the first position of a container, on a live key.
Fresh(c)   == \A p \in 1 .. Len(c.at) : p < c.pos /\ c.pos <= Len(c.at) => c.at[p] < c.at[c.pos]
Resting(c) == c.pos <= Len(c.at) => c.at[c.pos] \in c.live

CursorOK(c) == Along(c) /\ Fresh(c) /\ Resting(c)

\* Two cursors over the same thing.
Alike(c, b) == c.kind = b.kind /\ c.at = b.at /\ c.live = b.live

\* The keys the planner meets in each input, and those the fold does.
foretold == [i \in N |-> IF route = "tree" THEN Range(ins[i].predicted) ELSE Range(ins[i].at)]
held     == [i \in N |-> Range(ins[i].at) \cap live]

At(f, k) == {i \in N : k \in f[i]}

InputsOK ==
  /\ op \in {"Intersect", "Union", "Diff"} /\ route \in {"flat", "trivial", "tree"}
  /\ ins \in Seq(Operands) /\ Len(ins) <= MaxArity
  /\ live \in SUBSET Keys
  /\ route # "tree" => live = Keys /\ \A i \in N : IsLeaf(ins[i])
  /\ route = "trivial" => op # "Union" /\ ins # << >>

CursorsOK ==
  /\ DOMAIN cur = N /\ cur = [i \in N |-> cur[i]]
  /\ \A i \in N :
       /\ CursorOK(cur[i])
       /\ Alike(cur[i], IF phase = "plan" THEN plan_cursor(i) ELSE cursor(i))

OrderOK ==
  order = IF phase \in {"plan", "observe"} THEN plan_order
          ELSE IF ins = << >> THEN << >> ELSE fold_order

ShapeOK ==
  /\ phase \in {"plan", "observe", "fold", "done"}
  /\ major \in {"key", "partner"}
  /\ major = "partner" => op # "Intersect" /\ phase \in {"fold", "done"}
  /\ slots \in Seq([key : Keys, who : SUBSET N])
  /\ handed \in Seq(Seq([input : N, key : Keys, from : Nat, upto : Nat]))
  /\ IF phase \in {"fold", "done"} THEN DOMAIN handed = DOMAIN slots
     ELSE handed = << >> /\ emptied = {}
  /\ pass \in 1 .. Len(ins) + 1 \cup {3} /\ next_slot \in Nat \ {0}
  /\ next_slot <= Len(slots) + 1
  /\ phase = "plan" => pass = 1 /\ next_slot = 1
  /\ phase = "observe" => route = "tree" /\ op = "Union"
  /\ phase \in {"fold", "done"} /\ major = "key" => pass = 1
  /\ emptied \subseteq DOMAIN slots
  /\ emptied # {} => op = "Diff" /\ major = "partner"

\* The keys a plan has slots for.
Planful ==
  CASE op = "Union"     -> {k \in Keys : At(foretold, k) # {}}
    [] op = "Intersect" -> IF route = "trivial" THEN foretold[plan_order[1]]
                           ELSE {k \in Keys : N # {} /\ At(foretold, k) = N}
    [] op = "Diff"      -> IF ins = << >> THEN {} ELSE foretold[1]

Ascending == \A s, t \in DOMAIN slots : s < t => slots[s].key < slots[t].key

SlotKeys == {slots[s].key : s \in DOMAIN slots}

\* What a slot is sized for before anything is observed.
Sized(s) ==
  CASE op = "Union"     -> slots[s].who = At(foretold, slots[s].key)
    [] op = "Intersect" -> slots[s].who = N
    [] op = "Diff"      -> /\ 1 \in slots[s].who
                           /\ IF route = "trivial" THEN slots[s].who = N
                              ELSE slots[s].who = {1} <=> At(foretold, slots[s].key) = {1}

\* What it has to be sized for, whatever was.
Roomy(s) ==
  CASE op = "Union"     -> At(held, slots[s].key) \subseteq slots[s].who
    [] op = "Intersect" -> slots[s].who = N
    [] op = "Diff"      -> At(held, slots[s].key) \ {1} # {} => slots[s].who \ {1} # {}

\* Every cursor is at d; or the driver's is and the others are not past it.
Level(f, d)  == \A i \in N : Rest(cur[i]) = {k \in f[i] : k >= d}
Driven(f, d) ==
  ins # << >> =>
    /\ Rest(cur[order[1]]) = {k \in f[order[1]] : k >= d}
    /\ \A i \in N : {k \in f[i] : k >= d} \subseteq Rest(cur[i])

PlanAt(d) ==
  /\ IF PlannedByMerge THEN Level(foretold, d) ELSE Driven(foretold, d)
  /\ SlotKeys = {k \in Planful : k < d}

PlanInv ==
  phase = "plan" => Ascending /\ (\A s \in DOMAIN slots : Sized(s)) /\ \E d \in 0 .. KeyCount : PlanAt(d)

\* The slots before next_slot are behind the cursor of the pass.
Behind == pass \in N => \A s \in DOMAIN slots, k \in Rest(cur[pass]) : s < next_slot => slots[s].key < k

ObserveInv ==
  phase = "observe" =>
    /\ Behind
    /\ \A i \in N : i > pass => Rest(cur[i]) = held[i]
    /\ \A s \in DOMAIN slots, i \in N :
         /\ slots[s].key \in held[i]
         /\ IsLeaf(ins[i]) \/ i < pass \/ (i = pass /\ slots[s].key \notin Rest(cur[i]))
         => i \in slots[s].who

LaidOut ==
  phase # "plan" =>
    /\ Ascending
    /\ \A k \in Keys : WantedAt(k) # {} => k \in SlotKeys
    /\ phase # "observe" => \A s \in DOMAIN slots : Roomy(s)
    /\ route = "flat" => SlotKeys = Planful /\ \A s \in DOMAIN slots : Sized(s)

\* The inputs slot s was handed a container of.
Given(s) == {handed[s][j].input : j \in DOMAIN handed[s]}

HandedOK ==
  \A s \in DOMAIN handed :
    /\ \A j \in DOMAIN handed[s] :
         /\ handed[s][j].key = slots[s].key
         /\ Whole(handed[s][j])
    /\ \A i, j \in DOMAIN handed[s] : handed[s][i].input = handed[s][j].input => i = j
    /\ Given(s) \subseteq WantedAt(slots[s].key)
    /\ op = "Intersect" => Given(s) \in {{}, N}
    /\ op = "Diff" /\ Given(s) # {} => 1 \in Given(s)
    /\ s \in emptied => Len(handed[s]) > 1

\* The slots before next_slot are for keys below d.
Below(d) == \A s \in DOMAIN slots : s < next_slot => slots[s].key < d

KeyMajorAt(d) ==
  /\ Below(d)
  /\ IF op = "Union" THEN Level(held, d) ELSE Driven(held, d)
  /\ \A s \in DOMAIN slots :
       Given(s) = IF slots[s].key < d THEN WantedAt(slots[s].key) ELSE {}

KeyMajorInv == phase = "fold" /\ major = "key" => \E d \in 0 .. KeyCount : KeyMajorAt(d)

UnionPassInv ==
  phase = "fold" /\ major = "partner" /\ op = "Union" =>
    /\ Behind
    /\ \A i \in N : /\ i < pass => Rest(cur[i]) = {}
                    /\ i > pass => Rest(cur[i]) = held[i]
                    /\ \A k \in held[i] \ Rest(cur[i]), m \in Rest(cur[i]) : k < m
    /\ \A s \in DOMAIN slots : Given(s) = {i \in N : slots[s].key \in held[i] \ Rest(cur[i])}

SeedAt(d) ==
  /\ Below(d)
  /\ 1 \in N => Rest(cur[1]) = {k \in held[1] : k >= d}
  /\ 2 \in N => {k \in held[2] : k >= d} \subseteq Rest(cur[2])
  /\ \A s \in DOMAIN slots :
       Given(s) = IF slots[s].key < d THEN WantedAt(slots[s].key) \cap {1, 2} ELSE {}

SubtractedTo(s, i) == i < pass \/ (i = pass /\ s < next_slot)

DiffPassInv ==
  phase = "fold" /\ major = "partner" /\ op = "Diff" =>
    /\ \A i \in N : i > pass /\ i # 2 => Rest(cur[i]) = held[i]
    /\ pass = 1 => \E d \in 0 .. KeyCount : SeedAt(d)
    /\ pass # 1 =>
         /\ pass > 2
         /\ pass \in N => \A s \in DOMAIN slots :
              s >= next_slot /\ slots[s].key \in held[pass] => slots[s].key \in Rest(cur[pass])
         /\ \A s \in DOMAIN slots :
              /\ Given(s) \subseteq {i \in WantedAt(slots[s].key) : SubtractedTo(s, i)}
              /\ s \notin emptied => Given(s) = {i \in WantedAt(slots[s].key) : SubtractedTo(s, i)}

WalkInv ==
  /\ InputsOK /\ CursorsOK /\ OrderOK /\ ShapeOK
  /\ PlanInv /\ ObserveInv /\ LaidOut
  /\ HandedOK /\ KeyMajorInv /\ UnionPassInv /\ DiffPassInv

----------------------------------------------------------------------------
\* Numbers and sequences.

LEMMA KeysAre == KeyCount \in Nat \ {0} /\ Keys = 0 .. KeyCount - 1 /\ END = KeyCount
BY CursorAssumption DEF Keys, END

LEMMA LeastExists ==
  ASSUME NEW S \in SUBSET Nat, S # {}
  PROVE  \E n \in S : \A m \in S : n <= m
<1>1. PICK n \in S : \A m \in S : ~ (<< m, n >> \in OpToRel(<, Nat))
  BY WFMin, NatLessThanWellFounded
<1>2. \A m \in S : ~ (m < n)
  BY <1>1 DEF OpToRel
<1> QED
  BY <1>2

LEMMA LeastIs ==
  ASSUME NEW S \in SUBSET Nat, S # {}
  PROVE  Min(S) \in S /\ \A m \in S : Min(S) <= m
BY LeastExists DEF Min

LEMMA RangeIs ==
  ASSUME NEW S, NEW s \in Seq(S)
  PROVE  Range(s) = {s[j] : j \in 1 .. Len(s)} /\ Range(s) \subseteq S /\ DOMAIN s = 1 .. Len(s)
BY RangeEquality, RangeOfSeq, LenProperties

----------------------------------------------------------------------------
\* Cursors.

\* A search stops at the first position it is looking for.
LEMMA SeekIs ==
  ASSUME NEW c, Along(c), NEW K
  PROVE  /\ Along(seek(c, K)) /\ Alike(seek(c, K), c)
         /\ seek(c, K).pos \in c.pos .. Len(c.at) + 1
         /\ seek(c, K).pos <= Len(c.at) => c.at[seek(c, K).pos] \in K
         /\ \A p \in c.pos .. seek(c, K).pos - 1 : c.at[p] \notin K
<1> DEFINE found(p) == p > Len(c.at) \/ c.at[p] \in K
           S == {p \in c.pos .. Len(c.at) + 1 : found(p)}
           q == CHOOSE p \in c.pos .. Len(c.at) + 1 :
                  /\ p > Len(c.at) \/ c.at[p] \in K
                  /\ \A r \in c.pos .. p - 1 : c.at[r] \notin K
<1>1. /\ c \in [kind : Kinds \cup {"shape"}, at : Seq(Keys), live : SUBSET Keys, pos : Nat \ {0}]
      /\ c.pos \in Nat \ {0} /\ Len(c.at) \in Nat /\ c.pos <= Len(c.at) + 1
  BY DEF Along
<1>2. S \in SUBSET Nat /\ Len(c.at) + 1 \in S
  BY <1>1
<1>3. PICK p \in S : \A m \in S : p <= m
  BY <1>2, LeastExists
<1>4. /\ p \in c.pos .. Len(c.at) + 1 /\ found(p)
      /\ \A r \in c.pos .. p - 1 : c.at[r] \notin K
  <2>1. ASSUME NEW r \in c.pos .. p - 1, c.at[r] \in K PROVE FALSE
    <3>1. r \in S /\ r < p
      BY <1>1, <1>3, <2>1
    <3> QED
      BY <1>1, <1>3, <3>1
  <2> QED
    BY <1>3, <2>1
<1>5. /\ q \in c.pos .. Len(c.at) + 1
      /\ q > Len(c.at) \/ c.at[q] \in K
      /\ \A r \in c.pos .. q - 1 : c.at[r] \notin K
  BY <1>4, Zenon
<1>6. seek(c, K) = [c EXCEPT !.pos = q]
  BY DEF seek
<1> HIDE DEF q
<1>7. q \in Nat \ {0} /\ q <= Len(c.at) + 1
  BY <1>1, <1>5
<1>8. /\ seek(c, K).pos = q /\ seek(c, K).at = c.at /\ seek(c, K).kind = c.kind /\ seek(c, K).live = c.live
      /\ seek(c, K) \in [kind : Kinds \cup {"shape"}, at : Seq(Keys), live : SUBSET Keys, pos : Nat \ {0}]
  BY <1>1, <1>6, <1>7
<1>9. Along(seek(c, K))
  BY <1>7, <1>8 DEF Along
<1> QED
  BY <1>1, <1>5, <1>7, <1>8, <1>9 DEF Alike

\* What a cursor is over: its keys, and what is ahead of it.
LEMMA CursorFacts ==
  ASSUME NEW c, Along(c)
  PROVE  /\ Len(c.at) \in Nat /\ c.pos \in 1 .. Len(c.at) + 1
         /\ \A p \in 1 .. Len(c.at) : c.at[p] \in Keys
         /\ Rest(c) \subseteq c.live /\ Rest(c) \subseteq Keys /\ c.live \subseteq Keys
         /\ \A k : k \in Rest(c) <=> k \in c.live /\ \E p \in 1 .. Len(c.at) : p >= c.pos /\ c.at[p] = k
BY DEF Along, Rest

\* A cursor's key is the least ahead of it.
LEMMA PeekIs ==
  ASSUME NEW c, CursorOK(c)
  PROVE  /\ peek_key(c) \in Nat /\ peek_key(c) \in Keys \cup {END}
         /\ peek_key(c) # END <=> c.pos <= Len(c.at)
         /\ peek_key(c) # END => peek_key(c) \in Rest(c) /\ peek_key(c) \in Keys
         /\ peek_key(c) = END <=> Rest(c) = {}
         /\ \A k \in Rest(c) : peek_key(c) <= k
<1>1. Along(c) /\ Resting(c)
  BY DEF CursorOK
<1>2. CASE c.pos <= Len(c.at)
  <2>1. peek_key(c) = c.at[c.pos] /\ c.pos \in 1 .. Len(c.at)
    BY <1>1, <1>2, CursorFacts DEF peek_key
  <2>2. peek_key(c) \in Keys /\ peek_key(c) \in Rest(c)
    BY <1>1, <1>2, <2>1, CursorFacts DEF Resting
  <2>3. ASSUME NEW k \in Rest(c) PROVE peek_key(c) <= k
    <3>1. PICK p \in 1 .. Len(c.at) : p >= c.pos /\ c.at[p] = k
      BY <1>1, CursorFacts
    <3> QED
      BY <1>1, <2>1, <2>2, <3>1, KeysAre DEF Along
  <2> QED
    BY <1>2, <2>2, <2>3, KeysAre
<1>3. CASE ~ (c.pos <= Len(c.at))
  <2>1. peek_key(c) = END
    BY <1>3 DEF peek_key
  <2>2. Rest(c) = {}
    BY <1>1, <1>3, CursorFacts
  <2> QED
    BY <1>3, <2>1, <2>2, KeysAre
<1> QED
  BY <1>2, <1>3

\* Dead keys are skipped, and nothing else.
LEMMA SkipDead ==
  ASSUME NEW c, Along(c),
         \A p, q \in 1 .. Len(c.at) : p < c.pos /\ c.pos = q => c.at[p] < c.at[q] \/ c.at[p] \notin c.live
  PROVE  CursorOK(skip_dead(c)) /\ Alike(skip_dead(c), c) /\ Rest(skip_dead(c)) = Rest(c)
<1> DEFINE d == skip_dead(c)
<1>1. /\ Along(d) /\ Alike(d, c)
      /\ d.pos \in c.pos .. Len(c.at) + 1
      /\ d.pos <= Len(c.at) => c.at[d.pos] \in c.live
      /\ \A p \in c.pos .. d.pos - 1 : c.at[p] \notin c.live
  BY SeekIs DEF skip_dead
<1> HIDE DEF d
<1>2. d.at = c.at /\ d.live = c.live
  BY <1>1 DEF Alike
<1>3. Resting(d)
  BY <1>1, <1>2 DEF Resting
<1>4. Fresh(d)
  <2> SUFFICES ASSUME NEW p \in 1 .. Len(c.at), p < d.pos, d.pos <= Len(c.at)
               PROVE  c.at[p] < c.at[d.pos]
    BY <1>2 DEF Fresh
  <2>1. Len(c.at) \in Nat /\ c.pos \in 1 .. Len(c.at) + 1 /\ d.pos \in 1 .. Len(c.at)
    BY <1>1, CursorFacts
  <2>2. c.at[p] \in Nat /\ c.at[d.pos] \in Nat /\ c.at[p] <= c.at[d.pos]
    BY <2>1, CursorFacts, KeysAre DEF Along
  <2>3. c.at[p] \notin c.live => c.at[p] # c.at[d.pos]
    BY <1>1
  <2>4. CASE p >= c.pos
    BY <1>1, <2>1, <2>2, <2>3, <2>4
  <2>5. CASE p < c.pos /\ d.pos = c.pos
    BY <2>1, <2>2, <2>3, <2>5
  <2>6. CASE p < c.pos /\ d.pos > c.pos
    <3>1. c.pos \in 1 .. Len(c.at) /\ c.at[c.pos] \notin c.live /\ c.pos \in 1 .. d.pos - 1
      BY <1>1, <2>1, <2>6
    <3>2. c.at[c.pos] \in Nat
      BY <3>1, CursorFacts, KeysAre
    <3>3. c.at[p] <= c.at[c.pos]
      BY <2>6, <3>1 DEF Along
    <3>4. c.at[c.pos] <= c.at[d.pos]
      BY <2>1, <2>6, <3>1 DEF Along
    <3>5. c.at[c.pos] # c.at[d.pos]
      BY <1>1, <3>1
    <3> QED
      BY <2>2, <3>2, <3>3, <3>4, <3>5
  <2> QED
    BY <1>1, <2>1, <2>4, <2>5, <2>6
<1>5. Rest(d) = Rest(c)
  <2>1. Len(c.at) \in Nat /\ c.pos \in 1 .. Len(c.at) + 1
    BY CursorFacts
  <2>2. ASSUME NEW k \in Rest(c) PROVE k \in Rest(d)
    <3>1. PICK p \in 1 .. Len(c.at) : p >= c.pos /\ c.at[p] = k /\ k \in c.live
      BY CursorFacts
    <3>2. p >= d.pos
      BY <1>1, <2>1, <3>1
    <3> QED
      BY <1>1, <1>2, <3>1, <3>2, CursorFacts
  <2>3. ASSUME NEW k \in Rest(d) PROVE k \in Rest(c)
    BY <1>1, <1>2, <2>1, <2>3, CursorFacts
  <2> QED
    BY <2>2, <2>3
<1> QED
  BY <1>1, <1>3, <1>4, <1>5 DEF d, CursorOK

LEMMA ExhaustedStays ==
  ASSUME NEW c, Along(c), c.pos > Len(c.at)
  PROVE  CursorOK(c) /\ Rest(c) = {}
<1>1. Rest(c) = {}
  BY CursorFacts
<1>2. Fresh(c) /\ Resting(c)
  BY CursorFacts DEF Fresh, Resting
<1> QED
  BY <1>1, <1>2 DEF CursorOK

\* Past a container: its key and no other is left behind.
LEMMA AdvanceRaw ==
  ASSUME NEW c, CursorOK(c), peek_key(c) # END
  PROVE  LET d == advance_raw(c)
         IN  /\ Along(d) /\ Alike(d, c) /\ Fresh(d) /\ d.pos > c.pos
             /\ d.pos <= Len(c.at) + 1
             /\ \A p \in c.pos .. d.pos - 1 : c.at[p] = peek_key(c)
             /\ \A p \in d.pos .. Len(c.at) : c.at[p] > peek_key(c)
<1> DEFINE d == advance_raw(c)
           k == peek_key(c)
<1>1. /\ Along(c) /\ Len(c.at) \in Nat /\ c.pos \in 1 .. Len(c.at) /\ k = c.at[c.pos] /\ k \in Keys
  BY PeekIs, CursorFacts DEF CursorOK, peek_key
<1>2. \A p \in 1 .. Len(c.at) : c.at[p] \in Keys /\ c.at[p] \in Nat
  BY <1>1, CursorFacts, KeysAre
<1>3. CASE c.kind = "inline"
  <2>1. d = seek(c, Keys \ {k})
    BY <1>1, <1>3 DEF advance_raw
  <2>2. /\ Along(d) /\ Alike(d, c)
        /\ d.pos \in c.pos .. Len(c.at) + 1
        /\ d.pos <= Len(c.at) => c.at[d.pos] \in Keys \ {k}
        /\ \A p \in c.pos .. d.pos - 1 : c.at[p] \notin Keys \ {k}
    BY SMTT(30), <1>1, <2>1, SeekIs
  <2> HIDE DEF d, k
  <2>3. d.pos > c.pos
    BY <1>1, <2>2
  <2>4. \A p \in c.pos .. d.pos - 1 : c.at[p] = k
    <3> SUFFICES ASSUME NEW p \in c.pos .. d.pos - 1 PROVE c.at[p] = k
      OBVIOUS
    <3>1. p \in 1 .. Len(c.at)
      BY <1>1, <2>2
    <3> QED
      BY <1>2, <2>2, <3>1
  <2>5. \A p \in d.pos .. Len(c.at) : c.at[p] > k
    <3> SUFFICES ASSUME NEW p \in d.pos .. Len(c.at) PROVE c.at[p] > k
      OBVIOUS
    <3>1. p \in 1 .. Len(c.at) /\ d.pos \in 1 .. Len(c.at) /\ d.pos <= p
      BY <1>1, <2>2
    <3>2. c.at[c.pos] <= c.at[d.pos]
      BY <1>1, <2>3, <3>1 DEF Along
    <3>3. d.pos < p => c.at[d.pos] <= c.at[p]
      BY <1>1, <3>1 DEF Along
    <3>4. c.at[d.pos] # k
      BY <2>2, <3>1
    <3> QED
      BY <1>1, <1>2, <3>1, <3>2, <3>3, <3>4
  <2>6. Fresh(d)
    <3> SUFFICES ASSUME NEW p \in 1 .. Len(c.at), p < d.pos, d.pos <= Len(c.at)
                 PROVE  c.at[p] < c.at[d.pos]
      BY <2>2 DEF Fresh, Alike
    <3>1. d.pos \in 1 .. Len(c.at) /\ c.at[d.pos] > k
      BY <1>1, <2>2, <2>5
    <3>2. c.at[p] <= k
      <4>1. p < c.pos => c.at[p] <= c.at[c.pos]
        BY <1>1 DEF Along
      <4>2. p >= c.pos => c.at[p] = k
        BY <1>1, <2>2, <2>4
      <4> QED
        BY <1>1, <1>2, <4>1, <4>2
    <3> QED
      BY <1>1, <1>2, <3>1, <3>2
  <2> QED
    BY <1>1, <2>2, <2>3, <2>4, <2>5, <2>6 DEF d, k
<1>4. CASE c.kind # "inline"
  <2>1. d = [c EXCEPT !.pos = c.pos + 1]
    BY <1>1, <1>4 DEF advance_raw
  <2> HIDE DEF d, k
  <2>2. /\ d.pos = c.pos + 1 /\ d.at = c.at /\ d.kind = c.kind /\ d.live = c.live
        /\ d \in [kind : Kinds \cup {"shape"}, at : Seq(Keys), live : SUBSET Keys, pos : Nat \ {0}]
    <3>1. c \in [kind : Kinds \cup {"shape"}, at : Seq(Keys), live : SUBSET Keys, pos : Nat \ {0}]
      BY <1>1 DEF Along
    <3>2. c.pos + 1 \in Nat \ {0}
      BY <1>1
    <3> QED
      BY <2>1, <3>1, <3>2
  <2>3. Along(d) /\ Alike(d, c)
    BY <1>1, <2>2 DEF Along, Alike
  <2>4. \A p \in d.pos .. Len(c.at) : c.at[p] > k
    <3> SUFFICES ASSUME NEW p \in d.pos .. Len(c.at) PROVE c.at[p] > k
      OBVIOUS
    <3>1. p \in 1 .. Len(c.at) /\ c.pos < p
      BY <1>1, <2>2
    <3>2. c.at[c.pos] < c.at[p]
      BY <1>1, <1>4, <3>1 DEF Along
    <3> QED
      BY <1>1, <1>2, <3>1, <3>2
  <2>5. Fresh(d)
    <3> SUFFICES ASSUME NEW p \in 1 .. Len(c.at), p < d.pos, d.pos <= Len(c.at)
                 PROVE  c.at[p] < c.at[d.pos]
      BY <2>2 DEF Fresh
    <3>1. d.pos \in 1 .. Len(c.at)
      BY <1>1, <2>2
    <3> QED
      BY <1>1, <1>4, <3>1 DEF Along
  <2>6. \A p \in c.pos .. d.pos - 1 : c.at[p] = k
    BY <1>1, <2>2
  <2> QED
    BY <1>1, <2>2, <2>3, <2>4, <2>5, <2>6 DEF d, k
<1> QED
  BY <1>3, <1>4

LEMMA AdvanceIs ==
  ASSUME NEW c, CursorOK(c)
  PROVE  /\ CursorOK(advance(c)) /\ Alike(advance(c), c)
         /\ Rest(advance(c)) = Rest(c) \ {peek_key(c)}
<1> DEFINE d == advance_raw(c)
<1>1. Along(c)
  BY DEF CursorOK
<1>2. CASE peek_key(c) = END
  <2>1. c.pos > Len(c.at)
    BY <1>1, <1>2, PeekIs, CursorFacts
  <2>2. d = c
    BY <2>1 DEF advance_raw
  <2>3. CursorOK(skip_dead(c)) /\ Alike(skip_dead(c), c) /\ Rest(skip_dead(c)) = Rest(c)
    BY <1>1, <2>1, SkipDead, CursorFacts
  <2> QED
    BY <1>1, <2>1, <2>2, <2>3, ExhaustedStays DEF advance
<1>3. CASE peek_key(c) # END
  <2>1. /\ Along(d) /\ Alike(d, c) /\ Fresh(d) /\ d.pos > c.pos /\ d.pos <= Len(c.at) + 1
        /\ \A p \in c.pos .. d.pos - 1 : c.at[p] = peek_key(c)
        /\ \A p \in d.pos .. Len(c.at) : c.at[p] > peek_key(c)
    BY <1>3, AdvanceRaw
  <2> HIDE DEF d
  <2>2. d.at = c.at /\ d.live = c.live /\ d.kind = c.kind
    BY <2>1 DEF Alike
  <2>3. CursorOK(skip_dead(d)) /\ Alike(skip_dead(d), d) /\ Rest(skip_dead(d)) = Rest(d)
    BY <2>1, <2>2, SkipDead DEF Fresh
  <2>4. Rest(d) = Rest(c) \ {peek_key(c)}
    <3>1. Len(c.at) \in Nat /\ c.pos \in 1 .. Len(c.at) + 1 /\ d.pos \in 1 .. Len(c.at) + 1
      BY <1>1, <2>1, <2>2, CursorFacts
    <3>2. ASSUME NEW k \in Rest(d) PROVE k \in Rest(c) \ {peek_key(c)}
      <4>1. PICK p \in 1 .. Len(c.at) : p >= d.pos /\ c.at[p] = k /\ k \in c.live
        BY <2>1, <2>2, CursorFacts
      <4>2. k > peek_key(c) /\ p >= c.pos
        BY <2>1, <3>1, <4>1
      <4>3. k \in Nat /\ peek_key(c) \in Nat
        BY <1>1, <4>1, CursorFacts, PeekIs, KeysAre
      <4> QED
        BY <1>1, <4>1, <4>2, <4>3, CursorFacts
    <3>3. ASSUME NEW k \in Rest(c) \ {peek_key(c)} PROVE k \in Rest(d)
      <4>1. PICK p \in 1 .. Len(c.at) : p >= c.pos /\ c.at[p] = k /\ k \in c.live
        BY <1>1, CursorFacts
      <4>2. p >= d.pos
        BY <2>1, <3>1, <3>3, <4>1
      <4> QED
        BY <2>1, <2>2, <4>1, <4>2, CursorFacts
    <3> QED
      BY <3>2, <3>3
  <2>5. Alike(skip_dead(d), c)
    BY <2>2, <2>3 DEF Alike
  <2> QED
    BY <2>3, <2>4, <2>5 DEF advance, d
<1> QED
  BY <1>2, <1>3

\* Up to a live key: nothing from it on is left behind, and whether it is there
\* is told.
LEMMA AdvanceTo ==
  ASSUME NEW c, CursorOK(c), NEW t \in c.live
  PROVE  LET r == advance_to(c, t)
         IN  /\ CursorOK(r.c) /\ Alike(r.c, c)
             /\ Rest(r.c) = {k \in Rest(c) : k >= t}
             /\ r.hit \in BOOLEAN
             /\ r.hit <=> t \in Rest(c)
             /\ r.hit => peek_key(r.c) = t
<1> DEFINE d == seek(c, t .. END)
<1>1. Along(c) /\ t \in Keys /\ t \in Nat /\ t < END /\ END \in Nat
  BY CursorFacts, KeysAre DEF CursorOK
<1>2. CASE peek_key(c) = t
  <2>1. advance_to(c, t).hit = TRUE /\ advance_to(c, t).c = c
    BY <1>2 DEF advance_to
  <2>2. t \in Rest(c) /\ \A k \in Rest(c) : t <= k
    BY <1>1, <1>2, PeekIs
  <2>3. {k \in Rest(c) : k >= t} = Rest(c)
    BY <1>1, <2>2, CursorFacts, KeysAre
  <2> QED
    BY <1>2, <2>1, <2>2, <2>3 DEF Alike
<1>3. CASE peek_key(c) # t
  <2>1. advance_to(c, t).hit = (peek_key(d) = t) /\ advance_to(c, t).c = skip_dead(d)
    BY <1>3 DEF advance_to
  <2>2. /\ Along(d) /\ Alike(d, c)
        /\ d.pos \in c.pos .. Len(c.at) + 1
        /\ d.pos <= Len(c.at) => c.at[d.pos] \in t .. END
        /\ \A p \in c.pos .. d.pos - 1 : c.at[p] \notin t .. END
    BY <1>1, SeekIs
  <2> HIDE DEF d
  <2>3. d.at = c.at /\ d.live = c.live /\ d.kind = c.kind
    BY <2>2 DEF Alike
  <2>4. /\ Len(c.at) \in Nat /\ c.pos \in 1 .. Len(c.at) + 1 /\ d.pos \in 1 .. Len(c.at) + 1
        /\ \A p \in 1 .. Len(c.at) : c.at[p] \in Keys /\ c.at[p] \in Nat /\ c.at[p] < END
    BY <1>1, <2>2, CursorFacts, KeysAre
  <2>5. \A p \in c.pos .. d.pos - 1 : p \in 1 .. Len(c.at) /\ c.at[p] < t
    <3> SUFFICES ASSUME NEW p \in c.pos .. d.pos - 1 PROVE p \in 1 .. Len(c.at) /\ c.at[p] < t
      OBVIOUS
    <3>1. p \in 1 .. Len(c.at)
      BY <2>4
    <3> QED
      BY <1>1, <2>2, <2>4, <3>1
  <2>6. \A p \in d.pos .. Len(c.at) : c.at[p] >= t
    <3> SUFFICES ASSUME NEW p \in d.pos .. Len(c.at) PROVE c.at[p] >= t
      OBVIOUS
    <3>1. p \in 1 .. Len(c.at) /\ d.pos \in 1 .. Len(c.at) /\ c.at[d.pos] >= t
      BY <1>1, <2>2, <2>4
    <3>2. d.pos < p => c.at[d.pos] <= c.at[p]
      BY <1>1, <3>1 DEF Along
    <3> QED
      BY <1>1, <2>4, <3>1, <3>2
  <2>7. Fresh(d)
    <3> SUFFICES ASSUME NEW p \in 1 .. Len(c.at), p < d.pos, d.pos <= Len(c.at)
                 PROVE  c.at[p] < c.at[d.pos]
      BY <2>3 DEF Fresh
    <3>1. d.pos \in 1 .. Len(c.at) /\ c.pos \in 1 .. Len(c.at)
      BY <2>2, <2>4
    <3>2. CASE p >= c.pos
      <4>1. c.at[p] < t
        BY <2>4, <2>5, <3>2
      <4>2. c.at[d.pos] >= t
        BY <2>4, <2>6, <3>1
      <4> QED
        BY <1>1, <2>4, <3>1, <4>1, <4>2
    <3>3. CASE p < c.pos
      <4>1. c.at[p] < c.at[c.pos]
        BY <3>1, <3>3 DEF CursorOK, Fresh
      <4>2. c.pos < d.pos => c.at[c.pos] <= c.at[d.pos]
        BY <1>1, <3>1 DEF Along
      <4> QED
        BY <2>2, <2>4, <3>1, <4>1, <4>2
    <3> QED
      BY <2>4, <3>2, <3>3
  <2>8. CursorOK(skip_dead(d)) /\ Alike(skip_dead(d), d) /\ Rest(skip_dead(d)) = Rest(d)
    BY <2>2, <2>3, <2>7, SkipDead DEF Fresh
  <2>9. Rest(d) = {k \in Rest(c) : k >= t}
    <3>1. ASSUME NEW k \in Rest(d) PROVE k \in Rest(c) /\ k >= t
      <4>1. PICK p \in 1 .. Len(c.at) : p >= d.pos /\ c.at[p] = k /\ k \in c.live
        BY <2>2, <2>3, CursorFacts
      <4>2. k >= t /\ p >= c.pos
        BY <2>2, <2>4, <2>6, <4>1
      <4> QED
        BY <1>1, <4>1, <4>2, CursorFacts
    <3>2. ASSUME NEW k \in Rest(c), k >= t PROVE k \in Rest(d)
      <4>1. PICK p \in 1 .. Len(c.at) : p >= c.pos /\ c.at[p] = k /\ k \in c.live
        BY <1>1, CursorFacts
      <4>2. p >= d.pos
        BY <1>1, <2>4, <2>5, <3>2, <4>1
      <4> QED
        BY <2>2, <2>3, <4>1, <4>2, CursorFacts
    <3> QED
      BY <3>1, <3>2
  <2>10. peek_key(d) = t <=> t \in Rest(c)
    <3>1. ASSUME peek_key(d) = t PROVE t \in Rest(c)
      <4>1. d.pos \in 1 .. Len(c.at) /\ c.at[d.pos] = t /\ d.pos >= c.pos
        BY <1>1, <2>2, <2>3, <2>4, <3>1 DEF peek_key
      <4> QED
        BY <1>1, <4>1, CursorFacts
    <3>2. ASSUME t \in Rest(c) PROVE peek_key(d) = t
      <4>1. PICK p \in 1 .. Len(c.at) : p >= c.pos /\ c.at[p] = t
        BY <1>1, <3>2, CursorFacts
      <4>2. p >= d.pos
        BY <1>1, <2>4, <2>5, <4>1
      <4>3. d.pos \in 1 .. Len(c.at) /\ c.at[d.pos] >= t
        BY <2>4, <2>6, <4>1, <4>2
      <4>4. d.pos < p => c.at[d.pos] <= c.at[p]
        BY <1>1, <4>1, <4>3 DEF Along
      <4>5. c.at[d.pos] = t
        BY <1>1, <2>4, <4>1, <4>2, <4>3, <4>4
      <4> QED
        BY <2>3, <2>4, <4>3, <4>5 DEF peek_key
    <3> QED
      BY <3>1, <3>2
  <2>11. ASSUME peek_key(d) = t PROVE peek_key(skip_dead(d)) = t
    <3>1. t \in Rest(skip_dead(d))
      BY <1>1, <2>8, <2>9, <2>10, <2>11
    <3>2. peek_key(skip_dead(d)) \in Rest(skip_dead(d)) /\ peek_key(skip_dead(d)) <= t
      BY <2>8, <3>1, PeekIs
    <3>3. peek_key(skip_dead(d)) >= t
      BY <2>8, <2>9, <3>2
    <3> QED
      BY <1>1, <2>8, <3>2, <3>3, PeekIs
  <2>12. Alike(skip_dead(d), c)
    BY <2>3, <2>8 DEF Alike
  <2> QED
    BY <2>1, <2>8, <2>9, <2>10, <2>11, <2>12
<1> QED
  BY <1>2, <1>3

\* A container is handed over whole.
LEMMA GetIs ==
  ASSUME NEW c, CursorOK(c), peek_key(c) # END
  PROVE  /\ get(c).key = peek_key(c) /\ get(c).from \in Nat /\ get(c).upto \in Nat
         /\ get(c).from .. get(c).upto = {p \in 1 .. Len(c.at) : c.at[p] = peek_key(c)}
<1> DEFINE d == advance_raw(c)
<1>1. /\ Along(d) /\ Alike(d, c) /\ d.pos > c.pos /\ d.pos <= Len(c.at) + 1
      /\ \A p \in c.pos .. d.pos - 1 : c.at[p] = peek_key(c)
      /\ \A p \in d.pos .. Len(c.at) : c.at[p] > peek_key(c)
  BY AdvanceRaw
<1>2. /\ Along(c) /\ Len(c.at) \in Nat /\ c.pos \in 1 .. Len(c.at)
      /\ peek_key(c) = c.at[c.pos] /\ peek_key(c) \in Nat
      /\ \A p \in 1 .. Len(c.at) : c.at[p] \in Nat
  BY PeekIs, CursorFacts, KeysAre DEF CursorOK, peek_key
<1>3. get(c).key = peek_key(c) /\ get(c).from = c.pos /\ get(c).upto = d.pos - 1
  <2>1. CASE c.kind = "inline"
    BY <1>2, <2>1 DEF get, advance_raw
  <2>2. CASE c.kind # "inline"
    <3>1. d = [c EXCEPT !.pos = c.pos + 1]
      BY <1>2, <2>2 DEF advance_raw
    <3>2. d.pos = c.pos + 1
      BY <1>2, <3>1 DEF Along
    <3> QED
      BY <1>2, <2>2, <3>2 DEF get
  <2> QED
    BY <2>1, <2>2
<1> HIDE DEF d
<1>4. d.pos \in Nat
  BY <1>1, CursorFacts
<1>5. \A p \in 1 .. Len(c.at) : c.at[p] = peek_key(c) <=> p \in c.pos .. d.pos - 1
  <2> SUFFICES ASSUME NEW p \in 1 .. Len(c.at) PROVE c.at[p] = peek_key(c) <=> p \in c.pos .. d.pos - 1
    OBVIOUS
  <2>1. CASE p < c.pos
    <3>1. c.at[p] < c.at[c.pos]
      BY <1>2, <2>1 DEF CursorOK, Fresh
    <3> QED
      BY <1>2, <1>4, <2>1, <3>1
  <2>2. CASE p \in c.pos .. d.pos - 1
    BY <1>1, <2>2
  <2>3. CASE p >= d.pos
    <3>1. c.at[p] > peek_key(c)
      BY <1>2, <1>4, <1>1, <2>3
    <3> QED
      BY <1>2, <1>4, <2>3, <3>1
  <2> QED
    BY <1>2, <1>4, <2>1, <2>2, <2>3
<1> QED
  BY <1>1, <1>2, <1>3, <1>4, <1>5

\* A cursor just set over its keys has all its live ones ahead.
LEMMA CursorOver ==
  ASSUME NEW kind \in Kinds \cup {"shape"}, NEW at \in Seq(Keys), NEW mask \in SUBSET Keys,
         \A p, q \in 1 .. Len(at) : p < q => at[p] <= at[q],
         kind # "inline" => \A p, q \in 1 .. Len(at) : p < q => at[p] < at[q]
  PROVE  LET c == cursor_over(kind, at, mask)
         IN  /\ Along(c) /\ c.kind = kind /\ c.at = at /\ c.live = mask
             /\ CursorOK(skip_dead(c)) /\ Alike(skip_dead(c), c) /\ Rest(skip_dead(c)) = Range(at) \cap mask
             /\ mask = Keys => CursorOK(c) /\ Rest(c) = Range(at) \cap mask
<1> DEFINE c == cursor_over(kind, at, mask)
<1>1. c.kind = kind /\ c.at = at /\ c.live = mask /\ c.pos = 1
  BY DEF cursor_over
<1>2. c \in [kind : Kinds \cup {"shape"}, at : Seq(Keys), live : SUBSET Keys, pos : Nat \ {0}]
  BY DEF cursor_over
<1>3. Len(at) \in Nat
  OBVIOUS
<1> HIDE DEF c
<1>4. Along(c)
  BY <1>1, <1>2, <1>3 DEF Along
<1>5. CursorOK(skip_dead(c)) /\ Alike(skip_dead(c), c) /\ Rest(skip_dead(c)) = Rest(c)
  BY <1>1, <1>3, <1>4, SkipDead
<1>6. Rest(c) = Range(at) \cap mask
  BY <1>1, <1>3, RangeIs DEF Rest
<1>7. mask = Keys => CursorOK(c)
  BY <1>1, <1>3, <1>4, CursorFacts DEF CursorOK, Fresh, Resting
<1> QED
  BY <1>1, <1>4, <1>5, <1>6, <1>7 DEF c

----------------------------------------------------------------------------
\* Listing.
LEMMA SetInduction ==
  ASSUME NEW S, 0 \in S, \A n \in Nat : n \in S => n + 1 \in S
  PROVE  Nat \subseteq S
<1> DEFINE missing == {n \in Nat : n \notin S}
<1>1. ASSUME missing # {} PROVE FALSE
  <2>1. missing \in SUBSET Nat
    OBVIOUS
  <2> HIDE DEF missing
  <2>2. PICK n \in missing : \A m \in missing : n <= m
    BY <1>1, <2>1, LeastExists
  <2>3. n \in Nat /\ n # 0 /\ n \notin S
    BY <2>2 DEF missing
  <2>4. n - 1 \in Nat /\ (n - 1) + 1 = n
    BY <2>3
  <2>5. n - 1 \in missing
    BY <2>3, <2>4 DEF missing
  <2> QED
    BY <2>2, <2>3, <2>4, <2>5
<1> QED
  BY <1>1

\* The members of a finite set can be put one after another in any strict order.
LEMMA LinedUp ==
  ASSUME NEW I, IsFiniteSet(I), NEW R,
         \A i, j \in I : i # j => << i, j >> \in R \/ << j, i >> \in R,
         \A i \in I : << i, i >> \notin R,
         \A i, j, k \in I : << i, j >> \in R /\ << j, k >> \in R => << i, k >> \in R
  PROVE  \E s \in SetToSeqs(I) : \A j, k \in DOMAIN s : j < k => << s[j], s[k] >> \in R
<1> DEFINE n == Cardinality(I)
           lower(i) == {j \in I : << j, i >> \in R}
           rank == [i \in I |-> Cardinality(lower(i)) + 1]
<1>1. n \in Nat
  BY FS_CardinalityType
<1>2. \A i \in I : IsFiniteSet(lower(i)) /\ Cardinality(lower(i)) \in Nat
  BY FS_Subset, FS_CardinalityType
<1>3. ASSUME NEW i \in I, NEW j \in I, << i, j >> \in R PROVE rank[i] < rank[j]
  <2>1. lower(i) \in SUBSET lower(j) /\ i \in lower(j) /\ i \notin lower(i)
    BY <1>3
  <2> HIDE DEF lower
  <2>2. Cardinality(lower(i)) <= Cardinality(lower(j)) /\ Cardinality(lower(i)) # Cardinality(lower(j))
    BY <1>2, <2>1, FS_Subset
  <2> QED
    BY <1>2, <2>2
<1>4. \A i \in I : rank[i] \in 1 .. n
  <2> SUFFICES ASSUME NEW i \in I PROVE rank[i] \in 1 .. n
    OBVIOUS
  <2>1. lower(i) \in SUBSET I /\ i \notin lower(i)
    OBVIOUS
  <2>2. rank[i] = Cardinality(lower(i)) + 1
    OBVIOUS
  <2> HIDE DEF lower, rank
  <2>3. Cardinality(lower(i)) <= n /\ Cardinality(lower(i)) # n
    BY <1>2, <2>1, FS_Subset
  <2> QED
    BY <1>1, <1>2, <2>2, <2>3
<1>5. rank \in Injection(I, 1 .. n)
  <2>1. rank \in [I -> 1 .. n]
    BY <1>4
  <2>2. ASSUME NEW i \in I, NEW j \in I, rank[i] = rank[j] PROVE i = j
    <3>1. rank[i] \in Nat /\ ~ (rank[i] < rank[j]) /\ ~ (rank[j] < rank[i])
      BY <1>4, <2>2
    <3> QED
      BY <1>3, <3>1
  <2> HIDE DEF rank
  <2> QED
    BY <2>1, <2>2 DEF Injection, IsInjective
<1> HIDE DEF rank
<1>6. rank \in Surjection(I, 1 .. n)
  <2>1. IsFiniteSet(1 .. n) /\ Cardinality(1 .. n) = n
    BY <1>1, FS_Interval
  <2> QED
    BY <1>5, <2>1, FS_Injection
<1>7. \A p \in 1 .. n : \E i \in I : rank[i] = p
  BY <1>6 DEF Surjection
<1> DEFINE s == [p \in 1 .. n |-> CHOOSE i \in I : rank[i] = p]
<1>8. \A p \in 1 .. n : s[p] \in I /\ rank[s[p]] = p
  BY <1>7
<1>9. s \in [1 .. n -> I] /\ DOMAIN s = 1 .. n
  BY <1>8
<1> HIDE DEF s
<1>10. \A p, q \in 1 .. n : p # q => s[p] # s[q]
  BY <1>8
<1>11. s \in SetToSeqs(I)
  BY <1>9, <1>10 DEF SetToSeqs
<1>12. ASSUME NEW j \in 1 .. n, NEW k \in 1 .. n, j < k PROVE << s[j], s[k] >> \in R
  <2>1. s[j] # s[k] /\ ~ (rank[s[k]] < rank[s[j]])
    BY <1>8, <1>12
  <2> QED
    BY <1>3, <1>8, <2>1
<1> QED
  BY <1>9, <1>11, <1>12

\* A sequence that visits no input twice.
Visits(s) == s \in Seq(N) /\ \A p, q \in 1 .. Len(s) : s[p] = s[q] => p = q

Everywhere(s) == \A i \in N : \E p \in 1 .. Len(s) : s[p] = i

\* u holds what is left of the beginnings of s.
KeptUpto(s, I, n, u) ==
  u = [k \in 0 .. n |-> IF k = 0 THEN << >>
                        ELSE IF s[k] \in I THEN Append(u[k - 1], s[k]) ELSE u[k - 1]]

LEMMA KeptExists ==
  ASSUME NEW s, NEW I
  PROVE  \A n \in Nat : \E u : KeptUpto(s, I, n, u)
<1> DEFINE S == {n \in Nat : \E u : KeptUpto(s, I, n, u)}
<1>1. 0 \in S
  <2>1. KeptUpto(s, I, 0, [k \in 0 .. 0 |-> << >>])
    BY DEF KeptUpto
  <2> QED
    BY <2>1
<1>2. ASSUME NEW n \in Nat, n \in S PROVE n + 1 \in S
  <2>1. PICK u : KeptUpto(s, I, n, u)
    BY <1>2
  <2> DEFINE g == [k \in 0 .. n + 1 |-> IF k \in 0 .. n THEN u[k]
                     ELSE IF s[k] \in I THEN Append(u[n], s[k]) ELSE u[n]]
  <2>2. \A k \in 0 .. n : u[k] = IF k = 0 THEN << >>
                                 ELSE IF s[k] \in I THEN Append(u[k - 1], s[k]) ELSE u[k - 1]
    BY <2>1, Zenon DEF KeptUpto
  <2>3. \A k \in 0 .. n + 1 : k # 0 => k - 1 \in 0 .. n /\ k - 1 \in 0 .. n + 1
    OBVIOUS
  <2>4. \A k \in 0 .. n : g[k] = u[k]
    OBVIOUS
  <2>5. \A k \in 0 .. n + 1 : ~ (k \in 0 .. n) => k = n + 1 /\ k # 0 /\ k - 1 = n
    OBVIOUS
  <2>6. \A k \in 0 .. n + 1 : g[k] = IF k = 0 THEN << >>
                                     ELSE IF s[k] \in I THEN Append(g[k - 1], s[k]) ELSE g[k - 1]
    <3>1. TAKE k \in 0 .. n + 1
    <3>2. CASE k \in 0 .. n
      BY <2>2, <2>3, <2>4, <3>2
    <3>3. CASE ~ (k \in 0 .. n)
      <4>1. k = n + 1 /\ k # 0 /\ k - 1 = n /\ g[k - 1] = u[n]
        BY <2>4, <2>5, <3>3
      <4> QED
        BY <3>3, <4>1
    <3> QED
      BY <3>2, <3>3
  <2> HIDE DEF g
  <2>7. g = [k \in 0 .. n + 1 |-> g[k]]
    BY DEF g
  <2>8. KeptUpto(s, I, n + 1, g)
    BY <2>6, <2>7 DEF KeptUpto
  <2> QED
    BY <2>8
<1> HIDE DEF S
<1>3. Nat \subseteq S
  BY <1>1, <1>2, SetInduction
<1> QED
  BY <1>3 DEF S

\* What is kept of a sequence that visits no input twice.
LEMMA KeptIs ==
  ASSUME NEW s, Visits(s), NEW I
  PROVE  /\ Visits(kept(s, I)) /\ Len(kept(s, I)) \in Nat
         /\ \A i : (\E j \in 1 .. Len(kept(s, I)) : kept(s, I)[j] = i)
                   <=> i \in I /\ \E p \in 1 .. Len(s) : s[p] = i
<1> DEFINE m == Len(s)
           u == CHOOSE f : KeptUpto(s, I, m, f)
<1>1. s \in Seq(N) /\ m \in Nat /\ \A p \in 1 .. m : s[p] \in N
  BY DEF Visits
<1>2. KeptUpto(s, I, m, u)
  BY <1>1, KeptExists
<1>3. kept(s, I) = u[m]
  BY DEF kept, KeptUpto
<1> HIDE DEF u
<1>4. /\ u[0] = << >>
      /\ \A k \in 1 .. m : u[k] = IF s[k] \in I THEN Append(u[k - 1], s[k]) ELSE u[k - 1]
  <2>1. 0 \in 0 .. m /\ \A k \in 1 .. m : k \in 0 .. m /\ k # 0
    BY <1>1
  <2>2. \A k \in 0 .. m : u[k] = IF k = 0 THEN << >>
                                 ELSE IF s[k] \in I THEN Append(u[k - 1], s[k]) ELSE u[k - 1]
    BY <1>2, Zenon DEF KeptUpto
  <2> QED
    BY <2>1, <2>2
<1> DEFINE Good(n) ==
             /\ u[n] \in Seq(N)
             /\ \A p, q \in 1 .. Len(u[n]) : u[n][p] = u[n][q] => p = q
             /\ \A i : (\E j \in 1 .. Len(u[n]) : u[n][j] = i)
                       <=> i \in I /\ \E p \in 1 .. n : s[p] = i
           S == {n \in Nat : n <= m => Good(n)}
<1>5. 0 \in S
  <2>1. u[0] \in Seq(N) /\ Len(u[0]) = 0 /\ 1 .. 0 = {}
    BY <1>4, EmptySeq
  <2> QED
    BY <2>1
<1>6. ASSUME NEW n \in Nat, n \in S PROVE n + 1 \in S
  <2> SUFFICES ASSUME n + 1 <= m PROVE Good(n + 1)
    OBVIOUS
  <2>1. n + 1 \in 1 .. m /\ n <= m /\ (n + 1) - 1 = n
    BY <1>1
  <2> DEFINE c == u[n]
             d == u[n + 1]
             l == Len(c)
  <2>2. /\ c \in Seq(N) /\ l \in Nat
        /\ \A p, q \in 1 .. l : c[p] = c[q] => p = q
        /\ \A i : (\E j \in 1 .. l : c[j] = i) <=> i \in I /\ \E p \in 1 .. n : s[p] = i
    <3>1. Good(n)
      BY <1>6, <2>1, Zenon
    <3>2. u[n] \in Seq(N) /\ Len(u[n]) \in Nat
      BY <3>1
    <3> QED
      BY <3>1, <3>2, Zenon
  <2>3. d = IF s[n + 1] \in I THEN Append(c, s[n + 1]) ELSE c
    BY <1>4, <2>1
  <2>4. Good(n + 1) <=> /\ d \in Seq(N)
                        /\ \A p, q \in 1 .. Len(d) : d[p] = d[q] => p = q
                        /\ \A i : (\E j \in 1 .. Len(d) : d[j] = i) <=> i \in I /\ \E p \in 1 .. n + 1 : s[p] = i
    OBVIOUS
  <2> HIDE DEF c, d, Good
  <2>5. \A p \in 1 .. n + 1 : p \in 1 .. n \/ p = n + 1
    OBVIOUS
  <2>6. n + 1 \in 1 .. n + 1 /\ \A p \in 1 .. n : p \in 1 .. n + 1
    OBVIOUS
  <2>7. CASE s[n + 1] \notin I
    <3>1. d = c
      BY <2>3, <2>7
    <3>2. \A i : i \in I /\ (\E p \in 1 .. n + 1 : s[p] = i) <=> i \in I /\ \E p \in 1 .. n : s[p] = i
      BY <2>5, <2>6, <2>7
    <3> QED
      BY <2>2, <2>4, <3>1, <3>2 DEF l
  <2>8. CASE s[n + 1] \in I
    <3>1. /\ d \in Seq(N) /\ Len(d) = l + 1 /\ d[l + 1] = s[n + 1]
          /\ \A j \in 1 .. l : d[j] = c[j]
      BY <1>1, <2>1, <2>2, <2>3, <2>8, AppendProperties
    <3>2. \A j \in 1 .. l + 1 : j \in 1 .. l \/ j = l + 1
      BY <2>2
    <3>3. l + 1 \in 1 .. l + 1 /\ \A j \in 1 .. l : j \in 1 .. l + 1
      BY <2>2
    <3>4. ASSUME NEW j \in 1 .. l PROVE d[j] # s[n + 1]
      <4>1. PICK p \in 1 .. n : s[p] = c[j]
        BY <2>2, <3>4
      <4>2. p \in 1 .. m /\ p # n + 1
        BY <1>1, <2>1
      <4> QED
        BY <2>1, <3>1, <4>1, <4>2 DEF Visits
    <3>5. \A p, q \in 1 .. l + 1 : d[p] = d[q] => p = q
      BY <2>2, <3>1, <3>2, <3>4
    <3>6. ASSUME NEW i PROVE (\E j \in 1 .. l + 1 : d[j] = i) <=> i \in I /\ \E p \in 1 .. n + 1 : s[p] = i
      BY <2>2, <2>5, <2>6, <2>8, <3>1, <3>2, <3>3
    <3> QED
      BY <2>4, <3>1, <3>5, <3>6
  <2> QED
    BY <2>7, <2>8
<1> HIDE DEF S
<1>7. m \in S
  BY <1>1, <1>5, <1>6, SetInduction
<1>8. Good(m)
  BY <1>1, <1>7 DEF S
<1> QED
  BY <1>3, <1>8 DEF Visits

----------------------------------------------------------------------------
\* The inputs and the orders they are visited in.

LEMMA OperandFacts ==
  ASSUME NEW o \in Operands
  PROVE  /\ o.kind \in Kinds /\ o.at \in Seq(Keys) /\ o.predicted \in Seq(Keys)
         /\ \A p, q \in 1 .. Len(o.at) : p < q => o.at[p] <= o.at[q]
         /\ o.kind # "inline" => \A p, q \in 1 .. Len(o.at) : p < q => o.at[p] < o.at[q]
         /\ \A p, q \in 1 .. Len(o.predicted) : p < q => o.predicted[p] < o.predicted[q]
         /\ Range(o.at) \subseteq Range(o.predicted) /\ Range(o.predicted) \subseteq Keys
         /\ IsLeaf(o) => Range(o.at) = Range(o.predicted)
         /\ o.kind = "empty" => o.at = << >>
<1>1. /\ o.kind \in Kinds /\ o.at \in Seq(Keys) /\ o.predicted \in Seq(Keys)
      /\ IsSorted(o.at, <=)
      /\ o.kind # "inline" => IsInjective(o.at)
      /\ IsSorted(o.predicted, <=) /\ IsInjective(o.predicted)
      /\ Range(o.at) \subseteq Range(o.predicted)
      /\ IsLeaf(o) => Range(o.at) = Range(o.predicted)
      /\ o.kind = "empty" => o.at = << >>
  BY WalkAssumption, Zenon
<1>2. /\ \A p \in 1 .. Len(o.at) : o.at[p] \in Nat
      /\ \A p \in 1 .. Len(o.predicted) : o.predicted[p] \in Nat
  <2>1. Keys \subseteq Nat
    BY KeysAre
  <2>2. /\ \A p \in 1 .. Len(o.at) : o.at[p] \in Keys
        /\ \A p \in 1 .. Len(o.predicted) : o.predicted[p] \in Keys
    BY <1>1, ElementOfSeq
  <2> QED
    BY <2>1, <2>2
<1>3. /\ \A p, q \in 1 .. Len(o.at) : p < q => o.at[p] <= o.at[q]
      /\ \A p, q \in 1 .. Len(o.predicted) : p < q => o.predicted[p] <= o.predicted[q]
  BY <1>1, Zenon DEF IsSorted
<1>4. DOMAIN o.at = 1 .. Len(o.at) /\ DOMAIN o.predicted = 1 .. Len(o.predicted)
  BY <1>1, LenProperties
<1>5. ASSUME o.kind # "inline", NEW p \in 1 .. Len(o.at), NEW q \in 1 .. Len(o.at), p < q
      PROVE  o.at[p] < o.at[q]
  <2>1. o.at[p] # o.at[q]
    <3>1. \A x, y \in 1 .. Len(o.at) : o.at[x] = o.at[y] => x = y
      BY <1>1, <1>4, <1>5, Zenon DEF IsInjective
    <3> QED
      BY <1>5, <3>1
  <2> QED
    BY <1>2, <1>3, <1>5, <2>1
<1>6. ASSUME NEW p \in 1 .. Len(o.predicted), NEW q \in 1 .. Len(o.predicted), p < q
      PROVE  o.predicted[p] < o.predicted[q]
  <2>1. o.predicted[p] # o.predicted[q]
    <3>1. \A x, y \in 1 .. Len(o.predicted) : o.predicted[x] = o.predicted[y] => x = y
      BY <1>1, <1>4, Zenon DEF IsInjective
    <3> QED
      BY <1>6, <3>1
  <2> QED
    BY <1>2, <1>3, <1>6, <2>1
<1> QED
  BY <1>1, <1>3, <1>5, <1>6, RangeIs

LEMMA InputFacts ==
  ASSUME InputsOK
  PROVE  /\ Len(ins) \in Nat /\ N = 1 .. Len(ins) /\ Len(ins) <= MaxArity /\ MaxArity \in Nat
         /\ \A i \in N : ins[i] \in Operands
         /\ ins # << >> <=> 1 \in N
         /\ ins # << >> <=> Len(ins) # 0
         /\ N = {} <=> ins = << >>
<1>1. ins \in Seq(Operands) /\ Len(ins) <= MaxArity
  BY DEF InputsOK
<1>2. Len(ins) \in Nat /\ N = 1 .. Len(ins) /\ \A i \in 1 .. Len(ins) : ins[i] \in Operands
  BY <1>1, LenProperties DEF N
<1>3. ins = << >> <=> Len(ins) = 0
  BY <1>1, EmptySeq
<1>4. MaxArity \in Nat
  BY WalkAssumption, Zenon
<1> QED
  BY <1>1, <1>2, <1>3, <1>4

\* Where the cursors start, and the keys each input holds.
LEMMA SourceFacts ==
  ASSUME InputsOK, NEW i \in N
  PROVE  /\ held[i] = Range(ins[i].at) \cap live
         /\ held[i] \subseteq foretold[i] /\ foretold[i] \subseteq Keys /\ held[i] \subseteq live
         /\ live \subseteq Keys
         /\ IsLeaf(ins[i]) /\ live = Keys => held[i] = foretold[i]
         /\ CursorOK(cursor(i)) /\ Rest(cursor(i)) = held[i]
         /\ cursor(i).kind = ins[i].kind /\ cursor(i).at = ins[i].at /\ cursor(i).live = live
         /\ CursorOK(plan_cursor(i)) /\ Rest(plan_cursor(i)) = foretold[i]
         /\ plan_cursor(i).live = Keys
         /\ Range(plan_cursor(i).at) = foretold[i]
<1> DEFINE o == ins[i]
<1>1. o \in Operands /\ live \in SUBSET Keys /\ (route # "tree" => live = Keys)
  BY InputFacts DEF InputsOK
<1>2. held[i] = Range(o.at) \cap live
  BY DEF held
<1>3. foretold[i] = IF route = "tree" THEN Range(o.predicted) ELSE Range(o.at)
  BY DEF foretold
<1>4. /\ o.kind \in Kinds /\ o.at \in Seq(Keys) /\ o.predicted \in Seq(Keys)
      /\ \A p, q \in 1 .. Len(o.at) : p < q => o.at[p] <= o.at[q]
      /\ o.kind # "inline" => \A p, q \in 1 .. Len(o.at) : p < q => o.at[p] < o.at[q]
      /\ \A p, q \in 1 .. Len(o.predicted) : p < q => o.predicted[p] < o.predicted[q]
      /\ Range(o.at) \subseteq Range(o.predicted) /\ Range(o.predicted) \subseteq Keys
      /\ IsLeaf(o) => Range(o.at) = Range(o.predicted)
  BY <1>1, OperandFacts
<1> HIDE DEF o
<1>5. \A p, q \in 1 .. Len(o.predicted) : p < q => o.predicted[p] <= o.predicted[q]
  <2>1. \A p \in 1 .. Len(o.predicted) : o.predicted[p] \in Nat
    BY <1>4, KeysAre
  <2> QED
    BY <1>4, <2>1
<1>6. /\ CursorOK(cursor(i)) /\ Rest(cursor(i)) = held[i]
      /\ cursor(i).kind = o.kind /\ cursor(i).at = o.at /\ cursor(i).live = live
  <2>1. o.kind \in Kinds \cup {"shape"}
    BY <1>4
  <2>2. LET c == cursor_over(o.kind, o.at, live)
        IN  /\ c.kind = o.kind /\ c.at = o.at /\ c.live = live
            /\ CursorOK(skip_dead(c)) /\ Alike(skip_dead(c), c) /\ Rest(skip_dead(c)) = Range(o.at) \cap live
    BY <1>1, <1>4, <2>1, CursorOver
  <2> QED
    BY <1>2, <2>2 DEF cursor, o, Alike
<1>7. /\ CursorOK(plan_cursor(i)) /\ Rest(plan_cursor(i)) = foretold[i]
      /\ plan_cursor(i).live = Keys /\ Range(plan_cursor(i).at) = foretold[i]
  <2>1. CASE route = "tree"
    <3> DEFINE s == o.predicted
               kd == "shape"
               c == cursor_over(kd, s, Keys)
    <3>1. kd \in Kinds \cup {"shape"} /\ kd # "inline" /\ Keys \in SUBSET Keys
      OBVIOUS
    <3>3. /\ s \in Seq(Keys)
          /\ \A p, q \in 1 .. Len(s) : p < q => s[p] < s[q]
          /\ \A p, q \in 1 .. Len(s) : p < q => s[p] <= s[q]
      BY <1>4, <1>5
    <3> HIDE DEF s, kd
    <3>4. \A k \in Kinds \cup {"shape"}, a \in Seq(Keys), m \in SUBSET Keys :
            /\ \A p, q \in 1 .. Len(a) : p < q => a[p] <= a[q]
            /\ k # "inline" => \A p, q \in 1 .. Len(a) : p < q => a[p] < a[q]
            => LET d == cursor_over(k, a, m)
               IN  d.at = a /\ d.live = m /\ (m = Keys => CursorOK(d) /\ Rest(d) = Range(a) \cap m)
      BY CursorOver
    <3>2. c.at = s /\ c.live = Keys /\ CursorOK(c) /\ Rest(c) = Range(s) \cap Keys
      BY <3>1, <3>3, <3>4
    <3> QED
      BY <1>3, <1>4, <2>1, <3>2 DEF plan_cursor, o, s, kd
  <2>2. CASE route # "tree"
    <3>1. Range(o.at) \cap live = Range(o.at)
      BY <1>1, <1>4, <2>2
    <3> QED
      BY <1>1, <1>2, <1>3, <1>6, <2>2, <3>1 DEF plan_cursor
  <2> QED
    BY <2>1, <2>2
<1> QED
  BY <1>1, <1>2, <1>3, <1>4, <1>6, <1>7 DEF o

LEMMA LexLeast ==
  ASSUME NEW n \in Nat \ {0}, NEW f \in [1 .. n -> Nat]
  PROVE  \E i \in 1 .. n : \A j \in 1 .. n : f[i] < f[j] \/ (f[i] = f[j] /\ i <= j)
<1> DEFINE values == {f[i] : i \in 1 .. n}
<1>1. values \in SUBSET Nat /\ values # {}
  <2>1. f[1] \in values
    OBVIOUS
  <2> QED
    BY <2>1
<1>2. PICK v \in values : \A w \in values : v <= w
  BY <1>1, LeastExists
<1> DEFINE least == {i \in 1 .. n : f[i] = v}
<1>3. least \in SUBSET Nat /\ least # {}
  BY <1>2
<1>4. PICK i \in least : \A j \in least : i <= j
  BY <1>3, LeastExists
<1>5. ASSUME NEW j \in 1 .. n PROVE f[i] < f[j] \/ (f[i] = f[j] /\ i <= j)
  <2>1. f[i] = v /\ v <= f[j] /\ f[j] \in Nat /\ v \in Nat
    BY <1>1, <1>2, <1>4
  <2>2. f[j] = v => i <= j
    BY <1>4
  <2> QED
    BY <2>1, <2>2
<1> QED
  BY <1>4, <1>5

LEMMA FewestIs ==
  ASSUME InputsOK, ins # << >>
  PROVE  fewest(container_count) \in N /\ fewest(num_containers) \in N
<1>1. Len(ins) \in Nat \ {0} /\ N = 1 .. Len(ins) /\ \A i \in N : ins[i] \in Operands
  BY InputFacts
<1>2. fewest(container_count) \in N
  <2> DEFINE f == [i \in 1 .. Len(ins) |-> container_count(ins[i])]
  <2>1. \A i \in N : container_count(ins[i]) \in Nat
    <3> SUFFICES ASSUME NEW i \in N PROVE container_count(ins[i]) \in Nat
      OBVIOUS
    <3>1. ins[i].at \in Seq(Keys)
      BY <1>1, OperandFacts
    <3>2. Range(ins[i].at) \subseteq Keys
      BY <3>1, RangeIs
    <3>3. IsFiniteSet(Keys)
      BY KeysAre, FS_Interval
    <3>4. IsFiniteSet(Range(ins[i].at))
      BY <3>2, <3>3, FS_Subset
    <3> QED
      BY <3>4, FS_CardinalityType DEF container_count
  <2>2. f \in [1 .. Len(ins) -> Nat]
    BY <1>1, <2>1
  <2>3. \E i \in 1 .. Len(ins) : \A j \in 1 .. Len(ins) : f[i] < f[j] \/ (f[i] = f[j] /\ i <= j)
    BY <1>1, <2>2, LexLeast
  <2>4. \E i \in N : \A j \in N : \/ container_count(ins[i]) < container_count(ins[j])
                                  \/ container_count(ins[i]) = container_count(ins[j]) /\ i <= j
    BY <1>1, <2>3
  <2> HIDE DEF f
  <2> QED
    BY <2>4, Zenon DEF fewest
<1>3. fewest(num_containers) \in N
  <2> DEFINE f == [i \in 1 .. Len(ins) |-> num_containers(ins[i])]
  <2>1. \A i \in N : num_containers(ins[i]) \in Nat
    <3> SUFFICES ASSUME NEW i \in N PROVE num_containers(ins[i]) \in Nat
      OBVIOUS
    <3>1. Len(ins[i].at) \in Nat
      BY <1>1, OperandFacts
    <3> QED
      BY <3>1 DEF num_containers
  <2>2. f \in [1 .. Len(ins) -> Nat]
    BY <1>1, <2>1
  <2>3. \E i \in 1 .. Len(ins) : \A j \in 1 .. Len(ins) : f[i] < f[j] \/ (f[i] = f[j] /\ i <= j)
    BY <1>1, <2>2, LexLeast
  <2>4. \E i \in N : \A j \in N : \/ num_containers(ins[i]) < num_containers(ins[j])
                                  \/ num_containers(ins[i]) = num_containers(ins[j]) /\ i <= j
    BY <1>1, <2>3
  <2> HIDE DEF f
  <2> QED
    BY <2>4, Zenon DEF fewest
<1> QED
  BY <1>2, <1>3

LEMMA OthersAre ==
  ASSUME InputsOK, NEW i \in N
  PROVE  /\ others(i) \in Seq(N)
         /\ Len(others(i)) = Len(ins) - 1
         /\ \A j \in 1 .. Len(ins) - 1 : others(i)[j] = IF j < i THEN j ELSE j + 1
<1>1. Len(ins) \in Nat \ {0} /\ N = 1 .. Len(ins) /\ Len(ins) - 1 \in Nat
  BY InputFacts
<1>2. \A j \in 1 .. Len(ins) - 1 : (IF j < i THEN j ELSE j + 1) \in N
  BY <1>1
<1> QED
  BY <1>1, <1>2 DEF others

\* The partners of an intersection, sorted.
LEMMA ByLength ==
  ASSUME InputsOK, NEW I \in SUBSET N
  PROVE  /\ by_length(I) \in Seq(I)
         /\ \A p, q \in 1 .. Len(by_length(I)) : by_length(I)[p] = by_length(I)[q] => p = q
         /\ \A i \in I : \E p \in 1 .. Len(by_length(I)) : by_length(I)[p] = i
<1> DEFINE R == {e \in N \X N : shorter(e[1], e[2])}
           n == Cardinality(I)
           s == by_length(I)
<1>1. Len(ins) \in Nat /\ N = 1 .. Len(ins) /\ \A i \in N : Len(ins[i].at) \in Nat
  BY InputFacts, OperandFacts
<1>2. IsFiniteSet(I) /\ n \in Nat
  <2>1. IsFiniteSet(N)
    BY <1>1, FS_Interval
  <2>2. IsFiniteSet(I)
    BY <2>1, FS_Subset
  <2> QED
    BY <2>2, FS_CardinalityType
<1>3. \A i, j \in N : << i, j >> \in R <=> shorter(i, j)
  OBVIOUS
<1> HIDE DEF R, n
<1>4. /\ \A i, j \in N : i # j => << i, j >> \in R \/ << j, i >> \in R
      /\ \A i \in N : << i, i >> \notin R
      /\ \A i, j, k \in N : << i, j >> \in R /\ << j, k >> \in R => << i, k >> \in R
  BY SMTT(30), <1>1, <1>3 DEF shorter
<1>5. \E t \in SetToSeqs(I) : \A j, k \in DOMAIN t : j < k => << t[j], t[k] >> \in R
  BY <1>2, <1>4, LinedUp
<1>6. \A t \in SetToSeqs(I) : t \in [1 .. n -> I] /\ \A p, q \in 1 .. n : p # q => t[p] # t[q]
  BY DEF SetToSeqs, n
<1>7. \E t \in SetToSeqs(I) : \A j, k \in DOMAIN t : j < k => shorter(t[j], t[k])
  <2>1. PICK t \in SetToSeqs(I) : \A j, k \in DOMAIN t : j < k => << t[j], t[k] >> \in R
    BY <1>5
  <2>2. \A j \in DOMAIN t : t[j] \in N
    BY <1>6
  <2> QED
    BY <1>3, <2>1, <2>2
<1>8. s \in SetToSeqs(I)
  BY <1>7, Zenon DEF by_length
<1> HIDE DEF s
<1>9. s \in [1 .. n -> I] /\ \A p, q \in 1 .. n : p # q => s[p] # s[q]
  BY <1>6, <1>8
<1>10. s \in Seq(I) /\ Len(s) = n
  BY <1>2, <1>9
<1>11. s \in Surjection(1 .. n, I)
  <2>1. s \in Injection(1 .. n, I)
    BY <1>9 DEF Injection, IsInjective
  <2>2. Cardinality(1 .. n) = n
    BY <1>2, FS_Interval
  <2> QED
    BY <1>2, <2>1, <2>2, FS_Injection DEF n
<1>12. \A i \in I : \E p \in 1 .. n : s[p] = i
  BY <1>11 DEF Surjection
<1> QED
  BY <1>9, <1>10, <1>12 DEF s

\* An input, and then a sequence of the others.
LEMMA FirstThen ==
  ASSUME InputsOK, NEW i \in N, NEW s \in Seq(N),
         \A p, q \in 1 .. Len(s) : s[p] = s[q] => p = q,
         \A p \in 1 .. Len(s) : s[p] # i,
         \A j \in N \ {i} : \E p \in 1 .. Len(s) : s[p] = j
  PROVE  /\ Visits(<< i >> \o s) /\ Everywhere(<< i >> \o s)
         /\ (<< i >> \o s)[1] = i /\ Len(<< i >> \o s) = Len(s) + 1
<1> DEFINE t == << i >> \o s
<1>1. << i >> \in Seq(N) /\ Len(<< i >>) = 1 /\ << i >>[1] = i /\ Len(s) \in Nat
  BY LenProperties
<1>2. /\ t \in Seq(N) /\ Len(t) = Len(s) + 1 /\ t[1] = i
      /\ \A p \in 2 .. Len(s) + 1 : t[p] = s[p - 1]
  BY <1>1, ConcatProperties
<1> HIDE DEF t
<1>3. ASSUME NEW p \in 1 .. Len(t), NEW q \in 1 .. Len(t), t[p] = t[q] PROVE p = q
  <2>1. CASE p = 1 /\ q # 1
    <3>1. q - 1 \in 1 .. Len(s) /\ q \in 2 .. Len(s) + 1
      BY <1>1, <1>2, <2>1
    <3> QED
      BY <1>2, <1>3, <2>1, <3>1
  <2>2. CASE p # 1 /\ q = 1
    <3>1. p - 1 \in 1 .. Len(s) /\ p \in 2 .. Len(s) + 1
      BY <1>1, <1>2, <2>2
    <3> QED
      BY <1>2, <1>3, <2>2, <3>1
  <2>3. CASE p # 1 /\ q # 1
    <3>1. /\ p - 1 \in 1 .. Len(s) /\ p \in 2 .. Len(s) + 1
          /\ q - 1 \in 1 .. Len(s) /\ q \in 2 .. Len(s) + 1
      BY <1>1, <1>2, <2>3
    <3>2. p - 1 = q - 1
      BY SMTT(30), <1>2, <1>3, <3>1
    <3> QED
      BY <1>1, <3>1, <3>2
  <2> QED
    BY <2>1, <2>2, <2>3
<1>4. ASSUME NEW j \in N PROVE \E p \in 1 .. Len(t) : t[p] = j
  <2>1. CASE j = i
    <3>1. 1 \in 1 .. Len(t)
      BY <1>1, <1>2
    <3> QED
      BY <1>2, <2>1, <3>1
  <2>2. CASE j # i
    <3>1. PICK p \in 1 .. Len(s) : s[p] = j
      BY <2>2
    <3>2. p + 1 \in 1 .. Len(t) /\ p + 1 \in 2 .. Len(s) + 1 /\ (p + 1) - 1 = p
      BY <1>1, <1>2
    <3> QED
      BY <1>2, <3>1, <3>2
  <2> QED
    BY <2>1, <2>2
<1> QED
  BY <1>2, <1>3, <1>4 DEF Visits, Everywhere, t

LEMMA InOrder ==
  ASSUME InputsOK
  PROVE  LET s == [j \in N |-> j]
         IN  Visits(s) /\ Everywhere(s) /\ Len(s) = Len(ins) /\ (ins # << >> => s[1] = 1)
<1>1. Len(ins) \in Nat /\ N = 1 .. Len(ins) /\ (ins # << >> => 1 \in N)
  BY InputFacts
<1> DEFINE s == [j \in 1 .. Len(ins) |-> j]
<1>2. s \in Seq(1 .. Len(ins)) /\ Len(s) = Len(ins) /\ \A p \in 1 .. Len(ins) : s[p] = p
  BY <1>1
<1> QED
  BY <1>1, <1>2 DEF Visits, Everywhere

\* The planner's order.
LEMMA PlanOrderIs ==
  ASSUME InputsOK
  PROVE  /\ Visits(plan_order) /\ (route # "trivial" => Everywhere(plan_order))
         /\ Len(plan_order) \in Nat /\ plan_order \in Seq(N)
         /\ ins # << >> => plan_order # << >> /\ 1 \in 1 .. Len(plan_order) /\ plan_order[1] \in N
         /\ ins = << >> => plan_order = << >>
         /\ route = "trivial" => Len(plan_order) = 1
         /\ op = "Diff" /\ ins # << >> => plan_order[1] = 1
<1>1. /\ Len(ins) \in Nat /\ N = 1 .. Len(ins) /\ (ins # << >> <=> 1 \in N)
      /\ (ins # << >> <=> Len(ins) # 0)
      /\ op \in {"Intersect", "Union", "Diff"} /\ (route = "trivial" => op # "Union" /\ ins # << >>)
  BY InputFacts DEF InputsOK
<1>2. ASSUME NEW i \in N
      PROVE  Visits(<< i >>) /\ << i >>[1] = i /\ Len(<< i >>) = 1 /\ << i >> # << >> /\ << i >> \in Seq(N)
  BY DEF Visits
<1>3. CASE route = "trivial" /\ op = "Intersect"
  <2>1. plan_order = << fewest(num_containers) >> /\ fewest(num_containers) \in N
    BY <1>1, <1>3, FewestIs DEF plan_order
  <2> QED
    BY <1>1, <1>2, <1>3, <2>1
<1>4. CASE route = "trivial" /\ op = "Diff"
  <2>1. plan_order = << 1 >> /\ 1 \in N
    BY <1>1, <1>4 DEF plan_order
  <2> QED
    BY <1>1, <1>2, <1>4, <2>1
<1>5. CASE op = "Intersect" /\ ~PlannedByMerge /\ route # "trivial"
  <2> DEFINE i == fewest(container_count)
             s == others(i)
  <2>1. ins # << >>
    <3> SUFFICES ASSUME ins = << >> PROVE FALSE
      OBVIOUS
    <3>1. N = {} /\ Len(ins) = 0
      BY <1>1
    <3>2. {container_count(ins[j]) : j \in N} = {}
      BY <3>1
    <3>3. Cardinality({container_count(ins[j]) : j \in N}) = 0
      BY <3>2, FS_EmptySet
    <3>4. ~ drives
      BY <3>1, <3>3 DEF drives
    <3>5. PlannedByMerge
      BY <1>5, <3>4 DEF PlannedByMerge, InputsOK
    <3> QED
      BY <1>5, <3>5
  <2>2. i \in N
    BY <2>1, FewestIs
  <2>3. plan_order = << i >> \o s
    BY <1>5 DEF plan_order
  <2>4. s \in Seq(N) /\ Len(s) = Len(ins) - 1 /\ \A j \in 1 .. Len(ins) - 1 : s[j] = IF j < i THEN j ELSE j + 1
    BY <2>2, OthersAre
  <2> HIDE DEF i, s
  <2>5. /\ \A p, q \in 1 .. Len(s) : s[p] = s[q] => p = q
        /\ \A p \in 1 .. Len(s) : s[p] # i
    BY <1>1, <2>2, <2>4
  <2>6. ASSUME NEW j \in N \ {i} PROVE \E p \in 1 .. Len(s) : s[p] = j
    <3>1. CASE j < i
      <4>1. j \in 1 .. Len(s) /\ s[j] = j
        BY <1>1, <2>2, <2>4, <3>1
      <4> QED
        BY <4>1
    <3>2. CASE j > i
      <4>1. j - 1 \in 1 .. Len(s) /\ s[j - 1] = j
        BY <1>1, <2>2, <2>4, <3>2
      <4> QED
        BY <4>1
    <3> QED
      BY <1>1, <2>2, <3>1, <3>2
  <2>7. Visits(<< i >> \o s) /\ Everywhere(<< i >> \o s) /\ (<< i >> \o s)[1] = i /\ Len(<< i >> \o s) = Len(s) + 1
    BY <2>2, <2>4, <2>5, <2>6, FirstThen
  <2>8. plan_order \in Seq(N) /\ Len(plan_order) = Len(ins)
    BY <1>1, <2>3, <2>4, <2>7 DEF Visits
  <2> QED
    BY <1>1, <1>5, <2>1, <2>2, <2>3, <2>7, <2>8
<1>6. CASE ~ (op = "Intersect" /\ ~PlannedByMerge) /\ route # "trivial"
  <2>1. plan_order = [j \in N |-> j]
    BY <1>6 DEF plan_order
  <2>2. Visits(plan_order) /\ Everywhere(plan_order) /\ Len(plan_order) = Len(ins) /\ (ins # << >> => plan_order[1] = 1)
    BY <2>1, InOrder, Zenon
  <2>3. plan_order \in Seq(N)
    BY <2>2 DEF Visits
  <2> HIDE DEF plan_order
  <2> QED
    BY <1>1, <1>6, <2>2, <2>3
<1> QED
  BY <1>1, <1>3, <1>4, <1>5, <1>6

\* The fold's order.
LEMMA FoldOrderIs ==
  ASSUME InputsOK, ins # << >>
  PROVE  /\ Visits(fold_order) /\ Everywhere(fold_order)
         /\ Len(fold_order) \in Nat /\ fold_order \in Seq(N)
         /\ fold_order # << >> /\ 1 \in 1 .. Len(fold_order) /\ fold_order[1] \in N
         /\ op = "Diff" => fold_order[1] = 1
<1>1. Len(ins) \in Nat /\ N = 1 .. Len(ins) /\ 1 \in N /\ Len(ins) # 0
  BY InputFacts
<1>2. CASE op = "Intersect"
  <2> DEFINE i == fewest(container_count)
             s == by_length(N \ {i})
  <2>1. i \in N /\ fold_order = << i >> \o s
    BY <1>2, FewestIs DEF fold_order
  <2>2. /\ s \in Seq(N \ {i})
        /\ \A p, q \in 1 .. Len(s) : s[p] = s[q] => p = q
        /\ \A j \in N \ {i} : \E p \in 1 .. Len(s) : s[p] = j
    BY ByLength
  <2> HIDE DEF i, s
  <2>3. s \in Seq(N) /\ Len(s) \in Nat /\ \A p \in 1 .. Len(s) : s[p] # i
    BY <2>2
  <2>4. Visits(<< i >> \o s) /\ Everywhere(<< i >> \o s) /\ (<< i >> \o s)[1] = i /\ Len(<< i >> \o s) = Len(s) + 1
    BY <2>1, <2>2, <2>3, FirstThen
  <2>5. fold_order \in Seq(N)
    BY <2>1, <2>4 DEF Visits
  <2> QED
    BY <1>2, <2>1, <2>3, <2>4, <2>5
<1>3. CASE op # "Intersect"
  <2>1. fold_order = [j \in N |-> j]
    BY <1>3 DEF fold_order
  <2>2. Visits(fold_order) /\ Everywhere(fold_order) /\ Len(fold_order) = Len(ins) /\ fold_order[1] = 1
    BY <2>1, InOrder, Zenon
  <2>3. fold_order \in Seq(N)
    BY <2>2 DEF Visits
  <2> HIDE DEF fold_order
  <2> QED
    BY <1>1, <1>3, <2>2, <2>3
<1> QED
  BY <1>2, <1>3

----------------------------------------------------------------------------
\* One turn of a walk.
Ready ==
  /\ DOMAIN cur = N /\ cur = [i \in N |-> cur[i]]
  /\ \A i \in N : CursorOK(cur[i])

LEMMA MergeIs ==
  ASSUME Ready
  PROVE  /\ min_key(cur) \in Keys \cup {END}
         /\ min_key(cur) = END <=> \A i \in N : Rest(cur[i]) = {}
         /\ \A i \in N : \A k \in Rest(cur[i]) : min_key(cur) <= k
         /\ min_key(cur) # END => holders = {i \in N : min_key(cur) \in Rest(cur[i])}
         /\ min_key(cur) # END => holders # {}
         /\ \A i \in holders : peek_key(cur[i]) = min_key(cur)
<1> DEFINE S == {peek_key(cur[i]) : i \in N} \cup {END}
           m == min_key(cur)
<1>1. \A i \in N : /\ peek_key(cur[i]) \in Nat /\ peek_key(cur[i]) \in Keys \cup {END}
                   /\ peek_key(cur[i]) = END <=> Rest(cur[i]) = {}
                   /\ peek_key(cur[i]) # END => peek_key(cur[i]) \in Rest(cur[i])
                   /\ \A k \in Rest(cur[i]) : peek_key(cur[i]) <= k /\ k \in Keys
  BY PeekIs, CursorFacts DEF Ready, CursorOK
<1>2. S \in SUBSET Nat /\ S # {} /\ S \subseteq Keys \cup {END}
  BY <1>1, KeysAre
<1>3. m = Min(S)
  BY DEF min_key, Ready
<1>4. m \in S /\ \A n \in S : m <= n
  BY <1>2, <1>3, LeastIs
<1> HIDE DEF m
<1>5. m \in Keys \cup {END} /\ m \in Nat /\ END \in Nat /\ \A k \in Keys : k \in Nat /\ k < END
  BY <1>2, <1>4, KeysAre
<1>6. \A i \in N : m <= peek_key(cur[i])
  BY <1>4
<1>7. ASSUME NEW i \in N, NEW k \in Rest(cur[i]) PROVE m <= k
  <2>1. m <= peek_key(cur[i]) /\ peek_key(cur[i]) <= k /\ peek_key(cur[i]) \in Nat /\ k \in Nat
    BY <1>1, <1>5, <1>6, <1>7
  <2> QED
    BY <1>5, <2>1
<1>8. ASSUME m # END PROVE \E i \in N : peek_key(cur[i]) = m
  BY <1>4, <1>8
<1>9. m = END <=> \A i \in N : Rest(cur[i]) = {}
  <2>1. ASSUME m = END, NEW i \in N PROVE Rest(cur[i]) = {}
    <3>1. peek_key(cur[i]) = END
      BY <1>1, <1>5, <1>6, <2>1
    <3> QED
      BY <1>1, <3>1
  <2>2. ASSUME m # END PROVE \E i \in N : Rest(cur[i]) # {}
    BY <1>1, <1>8, <2>2
  <2> QED
    BY <2>1, <2>2
<1>10. holders = {i \in N : peek_key(cur[i]) = m}
  BY DEF holders, m
<1>11. ASSUME m # END, NEW i \in N PROVE peek_key(cur[i]) = m <=> m \in Rest(cur[i])
  <2>1. peek_key(cur[i]) = m => m \in Rest(cur[i])
    BY <1>1, <1>11
  <2>2. m \in Rest(cur[i]) => peek_key(cur[i]) = m
    BY <1>1, <1>5, <1>6
  <2> QED
    BY <2>1, <2>2
<1> QED
  BY <1>5, <1>7, <1>8, <1>9, <1>10, <1>11 DEF m

LEMMA MergedIs ==
  ASSUME Ready
  PROVE  /\ DOMAIN merged_cursors = N /\ merged_cursors = [i \in N |-> merged_cursors[i]]
         /\ \A i \in N : /\ CursorOK(merged_cursors[i]) /\ Alike(merged_cursors[i], cur[i])
                         /\ Rest(merged_cursors[i]) = Rest(cur[i]) \ {min_key(cur)}
<1> DEFINE m == min_key(cur)
<1>1. \A i \in N : merged_cursors[i] = IF i \in holders THEN advance(cur[i]) ELSE cur[i]
  BY DEF merged_cursors
<1>2. \A i \in holders : peek_key(cur[i]) = m
  BY MergeIs
<1>3. m # END => holders = {i \in N : m \in Rest(cur[i])}
  BY MergeIs
<1>4. ASSUME m = END, NEW i \in N PROVE m \notin Rest(cur[i])
  BY <1>4, MergeIs
<1> HIDE DEF m
<1>5. ASSUME NEW i \in N
      PROVE  /\ CursorOK(merged_cursors[i]) /\ Alike(merged_cursors[i], cur[i])
             /\ Rest(merged_cursors[i]) = Rest(cur[i]) \ {m}
  <2>1. CursorOK(cur[i])
    BY DEF Ready
  <2>2. CASE i \in holders
    BY <1>1, <1>2, <2>1, <2>2, AdvanceIs
  <2>3. CASE i \notin holders
    <3>1. m \notin Rest(cur[i])
      BY <1>3, <1>4, <2>3
    <3> QED
      BY <1>1, <2>1, <2>3, <3>1 DEF Alike
  <2> QED
    BY <2>2, <2>3
<1>6. DOMAIN merged_cursors = N /\ merged_cursors = [i \in N |-> merged_cursors[i]]
  BY DEF merged_cursors
<1> QED
  BY <1>5, <1>6 DEF m

\* What a probe for key tells of, and which partners it asks.
Probed(key) == {i \in N : key \in Rest(cur[i])}

Asked(key, stops) ==
  {order[j] : j \in {j \in 2 .. Len(order) :
                \A h \in 2 .. j - 1 : advance_to(cur[order[h]], key).hit \notin stops}}

\* A driven walk can turn: its order names inputs once each, and all cursors have
\* the key it turns on among their live ones.
Turning(key) ==
  /\ Ready /\ InputsOK
  /\ Visits(order) /\ order # << >>
  /\ \A i \in N : key \in cur[i].live

LEMMA TurnFacts ==
  ASSUME NEW key, Turning(key)
  PROVE  /\ Len(order) \in Nat \ {0} /\ \A j \in 1 .. Len(order) : order[j] \in N
         /\ \A j \in 2 .. Len(order) : j \in 1 .. Len(order) /\ order[j] # order[1]
         /\ order \in Seq(N) /\ 1 \in 1 .. Len(order)
<1>1. order \in Seq(N) /\ order # << >>
  BY DEF Turning, Visits
<1>2. Len(order) \in Nat \ {0} /\ \A j \in 1 .. Len(order) : order[j] \in N
  BY <1>1
<1>3. \A j \in 2 .. Len(order) : j \in 1 .. Len(order) /\ 1 \in 1 .. Len(order) /\ j # 1
  BY <1>2
<1> QED
  BY <1>1, <1>2, <1>3 DEF Turning, Visits

LEMMA AnswerIs ==
  ASSUME NEW key, Turning(key), NEW i \in N
  PROVE  LET r == advance_to(cur[i], key)
         IN  /\ CursorOK(r.c) /\ Alike(r.c, cur[i])
             /\ Rest(r.c) = {k \in Rest(cur[i]) : k >= key}
             /\ r.hit = (i \in Probed(key)) /\ r.hit \in BOOLEAN
             /\ r.hit => peek_key(r.c) = key
<1>1. CursorOK(cur[i]) /\ key \in cur[i].live
  BY DEF Turning, Ready
<1>2. advance_to(cur[i], key).hit \in BOOLEAN /\ (advance_to(cur[i], key).hit <=> key \in Rest(cur[i]))
  BY <1>1, AdvanceTo
<1>3. i \in Probed(key) <=> key \in Rest(cur[i])
  BY DEF Probed
<1> QED
  BY <1>1, <1>2, <1>3, AdvanceTo

LEMMA AskedIs ==
  ASSUME NEW key, Turning(key), NEW stops
  PROVE  /\ Asked(key, stops) \subseteq N \ {order[1]}
         /\ \A j \in 2 .. Len(order) :
              (\A h \in 2 .. j - 1 : (order[h] \in Probed(key)) \notin stops)
              => order[j] \in Asked(key, stops)
<1>1. \A j \in 2 .. Len(order) : order[j] \in N \ {order[1]}
  BY TurnFacts
<1>2. Asked(key, stops) \subseteq N \ {order[1]}
  BY <1>1 DEF Asked
<1>3. ASSUME NEW j \in 2 .. Len(order), \A h \in 2 .. j - 1 : (order[h] \in Probed(key)) \notin stops
      PROVE  order[j] \in Asked(key, stops)
  <2>1. ASSUME NEW h \in 2 .. j - 1 PROVE advance_to(cur[order[h]], key).hit \notin stops
    <3>1. h \in 2 .. Len(order)
      BY TurnFacts
    <3>2. advance_to(cur[order[h]], key).hit = (order[h] \in Probed(key))
      BY <1>1, <3>1, AnswerIs
    <3> QED
      BY <1>3, <3>2
  <2> QED
    BY <2>1 DEF Asked
<1> QED
  BY <1>2, <1>3

\* The driver is moved on; its partners are moved up to the key, or left.
LEMMA ProbeCursors ==
  ASSUME NEW key, Turning(key), NEW stops
  PROVE  LET p == Probe(key, stops)
         IN  /\ DOMAIN p.cur = N /\ p.cur = [i \in N |-> p.cur[i]]
             /\ \A i \in N : CursorOK(p.cur[i]) /\ Alike(p.cur[i], cur[i])
             /\ Rest(p.cur[order[1]]) = Rest(cur[order[1]]) \ {peek_key(cur[order[1]])}
             /\ \A i \in N \ {order[1]} : /\ {k \in Rest(cur[i]) : k >= key} \subseteq Rest(p.cur[i])
                                          /\ Rest(p.cur[i]) \subseteq Rest(cur[i])
             /\ \A i \in Asked(key, stops) : p.cur[i] = advance_to(cur[i], key).c
<1> DEFINE p == Probe(key, stops)
           A == Asked(key, stops)
<1>1. p.cur = [i \in N |-> CASE i = order[1]  -> advance(cur[i])
                             [] i \in A       -> advance_to(cur[i], key).c
                             [] OTHER         -> cur[i]]
  <2>1. A = {order[j] : j \in {j \in 2 .. Len(order) :
               \A h \in 2 .. j - 1 : [i \in N |-> advance_to(cur[i], key)][order[h]].hit \notin stops}}
    <3>1. \A h \in 2 .. Len(order) : order[h] \in N
      BY TurnFacts
    <3>2. \A j \in 2 .. Len(order) : \A h \in 2 .. j - 1 : h \in 2 .. Len(order)
      BY TurnFacts
    <3>3. \A h \in 2 .. Len(order) : [i \in N |-> advance_to(cur[i], key)][order[h]] = advance_to(cur[order[h]], key)
      BY <3>1
    <3> QED
      BY ZenonT(60), <3>2, <3>3 DEF Asked
  <2>2. A \subseteq N
    BY AskedIs
  <2> HIDE DEF A
  <2> QED
    BY <2>1, <2>2 DEF Probe
<1> HIDE DEF p
<1>2. A \subseteq N \ {order[1]}
  BY AskedIs
<1> HIDE DEF A
<1>3. order[1] \in N
  BY TurnFacts
<1>4. DOMAIN p.cur = N /\ p.cur = [i \in N |-> p.cur[i]]
  BY <1>1
<1>5. p.cur[order[1]] = advance(cur[order[1]])
  BY <1>1, <1>2, <1>3
<1>6. \A i \in A : p.cur[i] = advance_to(cur[i], key).c
  BY <1>1, <1>2
<1>7. \A i \in N : i # order[1] /\ i \notin A => p.cur[i] = cur[i]
  BY <1>1
<1>8. \A i \in N : CursorOK(cur[i])
  BY DEF Turning, Ready
<1>9. ASSUME NEW i \in N
      PROVE  /\ CursorOK(p.cur[i]) /\ Alike(p.cur[i], cur[i])
             /\ i = order[1] => Rest(p.cur[i]) = Rest(cur[i]) \ {peek_key(cur[i])}
             /\ i # order[1] => /\ {k \in Rest(cur[i]) : k >= key} \subseteq Rest(p.cur[i])
                                /\ Rest(p.cur[i]) \subseteq Rest(cur[i])
  <2>1. CASE i = order[1]
    BY <1>5, <1>8, <2>1, AdvanceIs
  <2>2. CASE i \in A
    <3>1. i # order[1]
      BY <1>2, <2>2
    <3> QED
      BY <1>6, <2>2, <3>1, AnswerIs
  <2>3. CASE i # order[1] /\ i \notin A
    BY <1>7, <1>8, <2>3 DEF Alike
  <2> QED
    BY <2>1, <2>2, <2>3
<1> QED
  BY <1>3, <1>4, <1>6, <1>9 DEF p, A

\* The partners told of have the key, and their cursors are at it.
Told(p) == {p.hits[j] : j \in 1 .. Len(p.hits)}

LEMMA ProbeHits ==
  ASSUME NEW key, Turning(key), NEW stops
  PROVE  LET p == Probe(key, stops)
         IN  /\ Visits(p.hits) /\ Len(p.hits) \in Nat
             /\ Told(p) = Asked(key, stops) \cap Probed(key)
             /\ \A i \in Told(p) : i \in N \ {order[1]} /\ peek_key(p.cur[i]) = key
             /\ p.all = (Asked(key, stops) \subseteq Probed(key))
<1> DEFINE p == Probe(key, stops)
           A == Asked(key, stops)
           answer == [i \in N |-> advance_to(cur[i], key)]
<1>1. A = {order[j] : j \in {j \in 2 .. Len(order) : \A h \in 2 .. j - 1 : answer[order[h]].hit \notin stops}}
  <2>1. \A h \in 2 .. Len(order) : order[h] \in N
    BY TurnFacts
  <2>2. \A j \in 2 .. Len(order) : \A h \in 2 .. j - 1 : h \in 2 .. Len(order)
    BY TurnFacts
  <2>3. \A h \in 2 .. Len(order) : answer[order[h]] = advance_to(cur[order[h]], key)
    BY <2>1
  <2> QED
    BY ZenonT(60), <2>2, <2>3 DEF Asked
<1>2. A \subseteq N \ {order[1]}
  BY AskedIs
<1> HIDE DEF A
<1>3. \A i \in N : answer[i].hit = (i \in Probed(key)) /\ answer[i].hit \in BOOLEAN
  BY AnswerIs
<1>4. p.hits = kept(order, {i \in A : answer[i].hit}) /\ p.all = \A i \in A : answer[i].hit
  BY <1>1, Zenon DEF Probe
<1> HIDE DEF p, answer
<1>5. {i \in A : answer[i].hit} = A \cap Probed(key)
  BY <1>2, <1>3
<1>6. /\ Visits(p.hits) /\ Len(p.hits) \in Nat
      /\ \A i : (\E j \in 1 .. Len(p.hits) : p.hits[j] = i)
                <=> i \in A \cap Probed(key) /\ \E q \in 1 .. Len(order) : order[q] = i
  <2>1. Visits(order) /\ p.hits = kept(order, A \cap Probed(key))
    BY <1>4, <1>5 DEF Turning
  <2> DEFINE I == A \cap Probed(key)
  <2> HIDE DEF I
  <2>2. /\ Visits(kept(order, I)) /\ Len(kept(order, I)) \in Nat
        /\ \A i : (\E j \in 1 .. Len(kept(order, I)) : kept(order, I)[j] = i)
                  <=> i \in I /\ \E q \in 1 .. Len(order) : order[q] = i
    BY <2>1, KeptIs
  <2>3. p.hits = kept(order, I)
    BY <2>1 DEF I
  <2> QED
    BY <2>2, <2>3 DEF I
<1>7. \A i \in A : \E q \in 1 .. Len(order) : order[q] = i
  BY <1>1, TurnFacts
<1>8. Told(p) = A \cap Probed(key)
  BY <1>6, <1>7 DEF Told
<1>9. p.all = (A \subseteq Probed(key))
  BY <1>2, <1>3, <1>4
<1>10. \A i \in A : p.cur[i] = advance_to(cur[i], key).c
  BY ProbeCursors DEF p, A
<1>11. \A i \in A \cap Probed(key) : peek_key(p.cur[i]) = key
  BY <1>2, <1>10, AnswerIs
<1> QED
  BY <1>2, <1>6, <1>8, <1>9, <1>11 DEF p, A

\* A search that stops at the first partner without the key.
LEMMA ProbeAll ==
  ASSUME NEW key, Turning(key)
  PROVE  LET p == Probe(key, {FALSE})
         IN  /\ p.all <=> \A j \in 2 .. Len(order) : order[j] \in Probed(key)
             /\ p.all => Told(p) = {order[j] : j \in 2 .. Len(order)}
<1> DEFINE p == Probe(key, {FALSE})
           A == Asked(key, {FALSE})
           missing == {j \in 2 .. Len(order) : order[j] \notin Probed(key)}
<1>1. p.all = (A \subseteq Probed(key)) /\ Told(p) = A \cap Probed(key)
  BY ProbeHits
<1>2. \A j \in 2 .. Len(order) : (\A h \in 2 .. j - 1 : order[h] \in Probed(key)) => order[j] \in A
  BY AskedIs
<1>3. A \subseteq {order[j] : j \in 2 .. Len(order)}
  BY DEF Asked
<1> HIDE DEF p, A
<1>4. ASSUME missing # {} PROVE ~ (A \subseteq Probed(key))
  <2>1. missing \in SUBSET Nat
    OBVIOUS
  <2>2. PICK j \in missing : \A h \in missing : j <= h
    BY <1>4, <2>1, LeastExists
  <2>3. \A h \in 2 .. j - 1 : order[h] \in Probed(key)
    BY <2>2, TurnFacts
  <2> QED
    BY <1>2, <2>2, <2>3
<1>5. ASSUME missing = {}
      PROVE  A \subseteq Probed(key) /\ A \cap Probed(key) = {order[j] : j \in 2 .. Len(order)}
  <2>1. \A j \in 2 .. Len(order) : order[j] \in Probed(key)
    BY <1>5
  <2>2. \A j \in 2 .. Len(order) : \A h \in 2 .. j - 1 : h \in 2 .. Len(order)
    BY TurnFacts
  <2>3. \A j \in 2 .. Len(order) : order[j] \in A
    BY <1>2, <2>1, <2>2
  <2> QED
    BY <1>3, <2>1, <2>3
<1> QED
  BY <1>1, <1>4, <1>5 DEF p

\* One that stops at the first with it tells whether there is one.
LEMMA ProbeAny ==
  ASSUME NEW key, Turning(key)
  PROVE  LET p == Probe(key, {TRUE})
         IN  Told(p) = {} <=> \A j \in 2 .. Len(order) : order[j] \notin Probed(key)
<1> DEFINE p == Probe(key, {TRUE})
           A == Asked(key, {TRUE})
           having == {j \in 2 .. Len(order) : order[j] \in Probed(key)}
<1>1. Told(p) = A \cap Probed(key)
  BY ProbeHits
<1>2. \A j \in 2 .. Len(order) : (\A h \in 2 .. j - 1 : order[h] \notin Probed(key)) => order[j] \in A
  BY AskedIs
<1>3. A \subseteq {order[j] : j \in 2 .. Len(order)}
  BY DEF Asked
<1> HIDE DEF p, A
<1>4. ASSUME having # {} PROVE A \cap Probed(key) # {}
  <2>1. having \in SUBSET Nat
    OBVIOUS
  <2>2. PICK j \in having : \A h \in having : j <= h
    BY <1>4, <2>1, LeastExists
  <2>3. \A h \in 2 .. j - 1 : order[h] \notin Probed(key)
    BY <2>2, TurnFacts
  <2> QED
    BY <1>2, <2>2, <2>3
<1>5. ASSUME having = {} PROVE A \cap Probed(key) = {}
  BY <1>3, <1>5
<1> QED
  BY <1>1, <1>4, <1>5 DEF p

\* One that does not stop tells of every partner.
LEMMA ProbeEvery ==
  ASSUME NEW key, Turning(key)
  PROVE  LET p == Probe(key, {})
         IN  Told(p) = {order[j] : j \in 2 .. Len(order)} \cap Probed(key)
<1> DEFINE p == Probe(key, {})
           A == Asked(key, {})
<1>1. Told(p) = A \cap Probed(key)
  BY ProbeHits
<1>2. \A j \in 2 .. Len(order) : order[j] \in A
  BY AskedIs
<1>3. A \subseteq {order[j] : j \in 2 .. Len(order)}
  BY DEF Asked
<1> HIDE DEF p, A
<1> QED
  BY <1>1, <1>2, <1>3 DEF p

\* A container as it is handed over.
LEMMA RefIs ==
  ASSUME InputsOK, NEW i \in N, NEW c, CursorOK(c), c.at = ins[i].at, peek_key(c) # END
  PROVE  /\ Ref(i, c) \in [input : N, key : Keys, from : Nat, upto : Nat]
         /\ Ref(i, c).input = i /\ Ref(i, c).key = peek_key(c)
         /\ Whole(Ref(i, c))
<1>1. /\ get(c).key = peek_key(c) /\ get(c).from \in Nat /\ get(c).upto \in Nat
      /\ get(c).from .. get(c).upto = {p \in 1 .. Len(c.at) : c.at[p] = peek_key(c)}
      /\ peek_key(c) \in Keys
  BY GetIs, PeekIs
<1>2. Ref(i, c) = [input |-> i, key |-> get(c).key, from |-> get(c).from, upto |-> get(c).upto]
  BY DEF Ref
<1>3. /\ Ref(i, c).input = i /\ Ref(i, c).key = peek_key(c)
      /\ Ref(i, c).from = get(c).from /\ Ref(i, c).upto = get(c).upto
      /\ Ref(i, c) \in [input : N, key : Keys, from : Nat, upto : Nat]
  BY <1>1, <1>2
<1>4. DOMAIN ins[i].at = 1 .. Len(ins[i].at)
  BY InputFacts, OperandFacts
<1>5. Whole(Ref(i, c))
  BY <1>1, <1>3, <1>4 DEF Whole
<1> QED
  BY <1>3, <1>5

\* The search for a slot.
LEMMA SlotFor ==
  ASSUME slots \in Seq([key : Keys, who : SUBSET N]), NEW s \in 1 .. Len(slots) + 1, NEW k \in Nat
  PROVE  /\ Len(slots) \in Nat /\ slot_for(s, k) \in s .. Len(slots) + 1
         /\ slot_for(s, k) <= Len(slots) => slots[slot_for(s, k)].key >= k
         /\ \A t \in s .. slot_for(s, k) - 1 : slots[t].key < k
<1> DEFINE S == {t \in s .. Len(slots) + 1 : t > Len(slots) \/ slots[t].key >= k}
           m == slot_for(s, k)
<1>1. /\ Len(slots) \in Nat
      /\ \A t \in 1 .. Len(slots) : slots[t].key \in Nat
  <2>1. \A t \in 1 .. Len(slots) : slots[t] \in [key : Keys, who : SUBSET N]
    BY ElementOfSeq
  <2>2. \A t \in 1 .. Len(slots) : slots[t].key \in Keys
    BY <2>1
  <2> QED
    BY <2>2, KeysAre
<1>2. S \in SUBSET Nat /\ Len(slots) + 1 \in S
  BY <1>1
<1>3. m \in S /\ \A t \in S : m <= t
  <2>1. m = Min(S)
    BY DEF slot_for
  <2> HIDE DEF S, m
  <2> QED
    BY <1>2, <2>1, LeastIs
<1> HIDE DEF m
<1>4. ASSUME NEW t \in s .. m - 1 PROVE slots[t].key < k
  <2>1. t \in s .. Len(slots) + 1 /\ t < m /\ t \in 1 .. Len(slots)
    BY <1>1, <1>3
  <2>2. ~ (slots[t].key >= k)
    BY <1>3, <2>1
  <2> QED
    BY <1>1, <2>1, <2>2
<1> QED
  BY <1>1, <1>3, <1>4 DEF m

\* A planned key is found when the slots passed over are all for keys before it.
LEMMA SlotFound ==
  ASSUME slots \in Seq([key : Keys, who : SUBSET N]), Ascending,
         NEW s \in 1 .. Len(slots) + 1, NEW k \in SlotKeys,
         \A t \in DOMAIN slots : t < s => slots[t].key < k
  PROVE  /\ slot_for(s, k) \in DOMAIN slots /\ slots[slot_for(s, k)].key = k
         /\ slot_for(s, k) >= s /\ slot_for(s, k) \in Nat
         /\ \A t \in DOMAIN slots : t < slot_for(s, k) <=> slots[t].key < k
         /\ \A t \in DOMAIN slots : slots[t].key = k => t = slot_for(s, k)
<1>1. /\ Len(slots) \in Nat /\ DOMAIN slots = 1 .. Len(slots)
      /\ \A t \in 1 .. Len(slots) : slots[t].key \in Nat
  <2>1. \A t \in 1 .. Len(slots) : slots[t] \in [key : Keys, who : SUBSET N]
    BY ElementOfSeq
  <2>2. \A t \in 1 .. Len(slots) : slots[t].key \in Keys
    BY <2>1
  <2> QED
    BY <2>2, KeysAre
<1>2. PICK u \in 1 .. Len(slots) : slots[u].key = k
  BY <1>1 DEF SlotKeys
<1> DEFINE m == slot_for(s, k)
<1>3. /\ m \in s .. Len(slots) + 1
      /\ m <= Len(slots) => slots[m].key >= k
      /\ \A t \in s .. m - 1 : slots[t].key < k
  BY <1>1, <1>2, SlotFor
<1> HIDE DEF m
<1>4. u >= s /\ u >= m
  <2>1. u >= s
    BY <1>1, <1>2
  <2>2. ~ (u \in s .. m - 1)
    BY <1>1, <1>2, <1>3
  <2> QED
    BY <1>1, <1>3, <2>1, <2>2
<1>5. m = u
  <2>1. m \in 1 .. Len(slots) /\ slots[m].key >= k
    BY <1>1, <1>3, <1>4
  <2>2. ~ (slots[m].key < slots[u].key)
    BY <1>1, <1>2, <2>1
  <2> QED
    BY <1>1, <1>2, <1>4, <2>1, <2>2 DEF Ascending
<1>6. ASSUME NEW t \in 1 .. Len(slots) PROVE (t < u <=> slots[t].key < k) /\ (slots[t].key = k => t = u)
  <2>1. t < u => slots[t].key < slots[u].key
    BY <1>1, <1>2 DEF Ascending
  <2>2. t > u => slots[t].key > slots[u].key
    BY <1>1, <1>2 DEF Ascending
  <2> QED
    BY <1>1, <1>2, <2>1, <2>2
<1> QED
  BY <1>1, <1>2, <1>3, <1>5, <1>6 DEF m

----------------------------------------------------------------------------
\* What does not change with the inputs unchanged.
LEMMA SameInputs ==
  ASSUME UNCHANGED inputs
  PROVE  /\ op' = op /\ route' = route /\ ins' = ins /\ live' = live
         /\ N' = N /\ foretold' = foretold /\ held' = held
         /\ PlannedByMerge' = PlannedByMerge /\ plan_order' = plan_order /\ fold_order' = fold_order
         /\ \A i : cursor(i)' = cursor(i) /\ plan_cursor(i)' = plan_cursor(i)
         /\ \A k : WantedAt(k)' = WantedAt(k)
         /\ \A r : Whole(r)' = Whole(r)
         /\ InputsOK' = InputsOK
<1>1. op' = op /\ route' = route /\ ins' = ins /\ live' = live
  BY DEF inputs
<1>2. N' = N
  BY <1>1 DEF N
<1>3. foretold' = foretold /\ held' = held
  BY <1>1, <1>2 DEF foretold, held
<1>4. \A i : cursor(i)' = cursor(i) /\ plan_cursor(i)' = plan_cursor(i)
  BY <1>1 DEF cursor, plan_cursor
<1>5. fewest(container_count)' = fewest(container_count) /\ fewest(num_containers)' = fewest(num_containers)
  BY <1>1, <1>2 DEF fewest
<1>6. drives' = drives
  BY <1>1, <1>2 DEF drives
<1>7. PlannedByMerge' = PlannedByMerge
  BY <1>1, <1>6 DEF PlannedByMerge
<1>8. \A i : others(i)' = others(i)
  BY <1>1 DEF others
<1>9. \A I : by_length(I)' = by_length(I)
  BY <1>1 DEF by_length, shorter
<1>10. plan_order' = plan_order
  BY <1>1, <1>2, <1>5, <1>7, <1>8 DEF plan_order
<1>11. fold_order' = fold_order
  BY <1>1, <1>2, <1>5, <1>9 DEF fold_order
<1>12. \A k : WantedAt(k)' = WantedAt(k)
  BY <1>1, <1>2 DEF WantedAt
<1>13. \A r : Whole(r)' = Whole(r)
  BY <1>1 DEF Whole
<1>14. InputsOK' = InputsOK
  BY <1>1, <1>2 DEF InputsOK
<1> QED
  BY <1>1, <1>2, <1>3, <1>4, <1>7, <1>10, <1>11, <1>12, <1>13, <1>14

LEMMA WantedFacts ==
  ASSUME InputsOK, NEW k
  PROVE  /\ WantedAt(k) \subseteq At(held, k) /\ At(held, k) \subseteq N
         /\ op = "Union" => WantedAt(k) = At(held, k)
         /\ op = "Intersect" => WantedAt(k) = IF At(held, k) = N THEN N ELSE {}
         /\ op = "Diff" => WantedAt(k) = IF 1 \in At(held, k) THEN At(held, k) ELSE {}
<1>1. {i \in N : k \in live \cap Range(ins[i].at)} = At(held, k)
  BY DEF At, held
<1>2. op \in {"Intersect", "Union", "Diff"}
  BY DEF InputsOK
<1>3. At(held, k) \subseteq N
  BY DEF At
<1>4. WantedAt(k) = CASE op = "Intersect" -> IF At(held, k) = N THEN N ELSE {}
                      [] op = "Union"     -> At(held, k)
                      [] op = "Diff"      -> IF 1 \in At(held, k) THEN At(held, k) ELSE {}
  BY <1>1 DEF WantedAt
<1> QED
  BY <1>2, <1>3, <1>4

LEMMA CursorsAre ==
  ASSUME InputsOK, CursorsOK
  PROVE  /\ Ready
         /\ \A i \in N : Rest(cur[i]) \subseteq Keys
         /\ phase = "plan" =>
              \A i \in N : cur[i].live = Keys /\ Rest(cur[i]) \subseteq foretold[i]
         /\ phase # "plan" =>
              \A i \in N : cur[i].live = live /\ cur[i].at = ins[i].at /\ Rest(cur[i]) \subseteq held[i]
<1>1. Ready
  BY DEF CursorsOK, Ready
<1>2. \A i \in N : /\ CursorOK(cur[i]) /\ Along(cur[i])
                   /\ Alike(cur[i], IF phase = "plan" THEN plan_cursor(i) ELSE cursor(i))
  BY DEF CursorsOK, CursorOK
<1>3. \A i \in N : Rest(cur[i]) \subseteq Range(cur[i].at) \cap cur[i].live /\ Rest(cur[i]) \subseteq Keys
  <2> SUFFICES ASSUME NEW i \in N
               PROVE  Rest(cur[i]) \subseteq Range(cur[i].at) \cap cur[i].live /\ Rest(cur[i]) \subseteq Keys
    OBVIOUS
  <2>1. cur[i].at \in Seq(Keys)
    BY <1>2 DEF Along
  <2>2. Range(cur[i].at) = {cur[i].at[p] : p \in 1 .. Len(cur[i].at)}
    BY <2>1, RangeIs
  <2> QED
    BY <1>2, <2>2, CursorFacts
<1>4. ASSUME phase = "plan", NEW i \in N PROVE cur[i].live = Keys /\ Rest(cur[i]) \subseteq foretold[i]
  BY <1>2, <1>3, <1>4, SourceFacts DEF Alike
<1>5. ASSUME phase # "plan", NEW i \in N
      PROVE  cur[i].live = live /\ cur[i].at = ins[i].at /\ Rest(cur[i]) \subseteq held[i]
  BY <1>2, <1>3, <1>5, SourceFacts DEF Alike
<1> QED
  BY <1>1, <1>3, <1>4, <1>5

\* Cursors moved along what they were over are over it still.
LEMMA CursorsStay ==
  ASSUME InputsOK, CursorsOK, UNCHANGED inputs,
         phase' = phase \/ (phase # "plan" /\ phase' # "plan"),
         DOMAIN cur' = N, cur' = [i \in N |-> cur'[i]],
         \A i \in N : CursorOK(cur'[i]) /\ Alike(cur'[i], cur[i])
  PROVE  CursorsOK'
<1>1. N' = N /\ \A i : cursor(i)' = cursor(i) /\ plan_cursor(i)' = plan_cursor(i)
  BY SameInputs
<1>2. \A i \in N : Alike(cur'[i], IF phase' = "plan" THEN plan_cursor(i) ELSE cursor(i))
  BY DEF CursorsOK, Alike
<1> QED
  BY <1>1, <1>2 DEF CursorsOK

LEMMA SlotTypes ==
  ASSUME slots \in Seq([key : Keys, who : SUBSET N])
  PROVE  /\ Len(slots) \in Nat /\ DOMAIN slots = 1 .. Len(slots)
         /\ \A s \in DOMAIN slots : /\ slots[s] \in [key : Keys, who : SUBSET N]
                                    /\ slots[s].key \in Keys /\ slots[s].who \subseteq N
                                    /\ slots[s].key \in Nat
<1>1. \A s \in 1 .. Len(slots) : slots[s] \in [key : Keys, who : SUBSET N]
  BY ElementOfSeq
<1>2. Len(slots) \in Nat /\ DOMAIN slots = 1 .. Len(slots)
  BY LenProperties
<1> QED
  BY <1>1, <1>2, KeysAre

----------------------------------------------------------------------------
\* Planning keeps the invariant.

LEMMA PlanningKeeps ==
  ASSUME WalkInv, phase = "plan", phase' = "plan",
         UNCHANGED << inputs, order, major, pass, next_slot, handed, emptied >>,
         slots' \in Seq([key : Keys, who : SUBSET N]), Len(slots') >= Len(slots),
         CursorsOK', PlanInv'
  PROVE  WalkInv'
<1>1. InputsOK' /\ N' = N /\ plan_order' = plan_order /\ op' = op /\ route' = route /\ ins' = ins
  BY SameInputs DEF WalkInv
<1>2. OrderOK'
  BY <1>1 DEF WalkInv, OrderOK
<1>3. handed = << >> /\ emptied = {}
  BY DEF WalkInv, ShapeOK
<1>4. ShapeOK'
  <2>1. Len(slots) \in Nat /\ Len(slots') \in Nat
    BY SlotTypes, LenProperties DEF WalkInv, ShapeOK
  <2> QED
    BY <1>1, <1>3, <2>1 DEF WalkInv, ShapeOK
<1>5. HandedOK'
  BY <1>3 DEF HandedOK
<1>6. ObserveInv' /\ LaidOut' /\ KeyMajorInv' /\ UnionPassInv' /\ DiffPassInv'
  BY DEF ObserveInv, LaidOut, KeyMajorInv, UnionPassInv, DiffPassInv
<1> QED
  BY <1>1, <1>2, <1>4, <1>5, <1>6 DEF WalkInv

\* A slot added for a key above all the planned ones.
LEMMA SlotAdded ==
  ASSUME slots \in Seq([key : Keys, who : SUBSET N]), Ascending,
         NEW e \in [key : Keys, who : SUBSET N], \A s \in DOMAIN slots : slots[s].key < e.key,
         slots' = Append(slots, e)
  PROVE  /\ slots' \in Seq([key : Keys, who : SUBSET N]) /\ Len(slots') >= Len(slots)
         /\ Ascending' /\ SlotKeys' = SlotKeys \cup {e.key}
         /\ \A s \in DOMAIN slots' : (s \in DOMAIN slots /\ slots'[s] = slots[s]) \/ slots'[s] = e
<1>1. Len(slots) \in Nat /\ DOMAIN slots = 1 .. Len(slots)
  BY SlotTypes
<1>2. /\ slots' \in Seq([key : Keys, who : SUBSET N]) /\ Len(slots') = Len(slots) + 1
      /\ DOMAIN slots' = 1 .. Len(slots) + 1
      /\ \A s \in 1 .. Len(slots) : slots'[s] = slots[s]
      /\ slots'[Len(slots) + 1] = e
  BY <1>1, AppendProperties
<1>3. \A s \in 1 .. Len(slots) + 1 : s \in 1 .. Len(slots) \/ s = Len(slots) + 1
  BY <1>1
<1>4. Ascending'
  <2> SUFFICES ASSUME NEW s \in 1 .. Len(slots) + 1, NEW t \in 1 .. Len(slots) + 1, s < t
               PROVE  slots'[s].key < slots'[t].key
    BY <1>2 DEF Ascending
  <2>1. s \in 1 .. Len(slots)
    BY <1>1, <1>3
  <2> QED
    BY <1>1, <1>2, <1>3, <2>1 DEF Ascending
<1>5. SlotKeys' = SlotKeys \cup {e.key}
  <2>1. Len(slots) + 1 \in 1 .. Len(slots) + 1 /\ \A s \in 1 .. Len(slots) : s \in 1 .. Len(slots) + 1
    BY <1>1
  <2> QED
    BY <1>1, <1>2, <1>3, <2>1 DEF SlotKeys
<1> QED
  BY <1>1, <1>2, <1>3, <1>4, <1>5

\* Whether anything is planned at the key of a turn, or nothing is.
LEMMA PlanTurn ==
  ASSUME WalkInv, UNCHANGED << inputs, order >>, phase' = "plan",
         NEW d \in 0 .. KeyCount, SlotKeys = {k \in Planful : k < d},
         NEW key \in Keys, key >= d, \A k \in Planful : k >= d => k >= key,
         Ascending, \A s \in DOMAIN slots : Sized(s),
         IF PlannedByMerge THEN Level(foretold, key + 1)' ELSE Driven(foretold, key + 1)',
         \/ key \notin Planful /\ slots' = slots
         \/ /\ key \in Planful
            /\ \E e \in [key : Keys, who : SUBSET N] :
                 /\ e.key = key /\ slots' = Append(slots, e)
                 /\ \A s \in DOMAIN slots' : slots'[s] = e => Sized(s)'
  PROVE  /\ PlanInv' /\ slots' \in Seq([key : Keys, who : SUBSET N]) /\ Len(slots') >= Len(slots)
<1>1. /\ op' = op /\ route' = route /\ ins' = ins /\ N' = N /\ foretold' = foretold
      /\ PlannedByMerge' = PlannedByMerge /\ plan_order' = plan_order
  BY SameInputs
<1>2. Planful' = Planful
  BY <1>1 DEF Planful, At
<1>3. slots \in Seq([key : Keys, who : SUBSET N])
  BY DEF WalkInv, ShapeOK
<1>4. /\ Len(slots) \in Nat /\ DOMAIN slots = 1 .. Len(slots)
      /\ \A s \in DOMAIN slots : slots[s].key \in Nat
  BY <1>3, SlotTypes
<1>5. key \in Nat /\ d \in Nat /\ key + 1 \in 0 .. KeyCount /\ \A k \in Keys : k \in Nat
  BY KeysAre
<1>6. Planful \subseteq Keys
  <2>1. CASE op = "Union"
    BY <2>1 DEF Planful
  <2>2. CASE op = "Intersect"
    <3>1. CASE route = "trivial"
      <4>1. plan_order[1] \in N
        BY <3>1, PlanOrderIs DEF WalkInv, InputsOK
      <4> QED
        BY <2>2, <3>1, <4>1, SourceFacts DEF Planful, WalkInv
    <3>2. CASE route # "trivial"
      BY <2>2, <3>2 DEF Planful
    <3> QED
      BY <3>1, <3>2
  <2>3. CASE op = "Diff"
    <3>1. ins # << >> => 1 \in N
      BY InputFacts DEF WalkInv
    <3> QED
      BY <2>3, <3>1, SourceFacts DEF Planful, WalkInv
  <2> QED
    BY <2>1, <2>2, <2>3 DEF WalkInv, InputsOK
<1>7. ASSUME NEW s \in DOMAIN slots PROVE slots[s].key < key
  <2>1. slots[s].key \in SlotKeys
    BY DEF SlotKeys
  <2> QED
    BY <1>4, <1>5, <2>1
<1>8. {k \in Planful : k < key + 1} = {k \in Planful : k < d} \cup (Planful \cap {key})
  <2>1. ASSUME NEW k \in Planful PROVE k < key + 1 <=> k < d \/ k = key
    <3>1. k \in Nat /\ (k >= d => k >= key)
      BY <1>5, <1>6
    <3> QED
      BY <1>5, <3>1
  <2> QED
    BY <2>1
<1>9. ASSUME NEW s \in DOMAIN slots, NEW t, slots'[t] = slots[s] PROVE Sized(t)'
  <2>1. Sized(s)
    OBVIOUS
  <2> QED
    BY <1>1, <1>9, <2>1 DEF Sized, At
<1>10. CASE key \notin Planful /\ slots' = slots
  <2>1. Ascending' /\ SlotKeys' = SlotKeys
    BY <1>10 DEF Ascending, SlotKeys
  <2>2. \A s \in DOMAIN slots' : Sized(s)'
    BY <1>9, <1>10
  <2>3. SlotKeys' = {k \in Planful' : k < key + 1}
    BY <1>2, <1>8, <1>10, <2>1
  <2>4. PlanAt(key + 1)'
    BY <1>1, <2>3 DEF PlanAt
  <2>5. slots' \in Seq([key : Keys, who : SUBSET N]) /\ Len(slots') >= Len(slots)
    <3>1. slots' = slots
      BY <1>10
    <3>2. slots' \in Seq([key : Keys, who : SUBSET N])
      BY <1>3, <3>1
    <3>3. Len(slots') = Len(slots)
      BY <3>1
    <3> QED
      BY <1>4, <3>2, <3>3
  <2> QED
    BY <1>5, <2>1, <2>2, <2>4, <2>5 DEF PlanInv
<1>11. ASSUME key \in Planful, NEW e \in [key : Keys, who : SUBSET N],
              e.key = key, slots' = Append(slots, e),
              \A s \in DOMAIN slots' : slots'[s] = e => Sized(s)'
       PROVE  PlanInv' /\ slots' \in Seq([key : Keys, who : SUBSET N]) /\ Len(slots') >= Len(slots)
  <2>1. /\ slots' \in Seq([key : Keys, who : SUBSET N]) /\ Len(slots') >= Len(slots)
        /\ Ascending' /\ SlotKeys' = SlotKeys \cup {key}
        /\ \A s \in DOMAIN slots' : (s \in DOMAIN slots /\ slots'[s] = slots[s]) \/ slots'[s] = e
    BY <1>3, <1>7, <1>11, SlotAdded
  <2>2. \A s \in DOMAIN slots' : Sized(s)'
    BY <1>9, <1>11, <2>1
  <2>3. SlotKeys' = {k \in Planful' : k < key + 1}
    BY <1>2, <1>8, <1>11, <2>1
  <2>4. PlanAt(key + 1)'
    BY <1>1, <2>3 DEF PlanAt
  <2> QED
    BY <1>5, <2>1, <2>2, <2>4 DEF PlanInv
<1> QED
  BY <1>10, <1>11

LEMMA PlanMergeKeeps ==
  ASSUME WalkInv, PlanMerge
  PROVE  WalkInv'
<1>0. PICK m \in Keys : m = min_key(cur)
  BY MergeIs, CursorsAre, KeysAre DEF PlanMerge, WalkInv
<1>1. /\ phase = "plan" /\ PlannedByMerge /\ m # END
      /\ cur' = merged_cursors
      /\ slots' = IF op = "Intersect" /\ holders # N THEN slots
                  ELSE Append(slots, [key |-> m, who |-> holders])
      /\ UNCHANGED << inputs, phase, order, major, pass, next_slot, handed, emptied >>
  BY <1>0 DEF PlanMerge
<1>2. InputsOK /\ CursorsOK /\ Ready /\ \A i \in N : Rest(cur[i]) \subseteq foretold[i] /\ Rest(cur[i]) \subseteq Keys
  BY <1>1, CursorsAre DEF WalkInv
<1>3. Ascending /\ (\A s \in DOMAIN slots : Sized(s)) /\ \E d \in 0 .. KeyCount : PlanAt(d)
  BY <1>1 DEF WalkInv, PlanInv
<1>4. PICK d \in 0 .. KeyCount : Level(foretold, d) /\ SlotKeys = {k \in Planful : k < d}
  BY <1>1, <1>3 DEF PlanAt
<1>5. /\ m \in Keys /\ m \in Nat /\ d \in Nat /\ (\A k \in Keys : k \in Nat)
      /\ \A i \in N : \A k \in Rest(cur[i]) : m <= k
      /\ holders = {i \in N : m \in Rest(cur[i])} /\ holders # {}
  BY <1>0, <1>1, <1>2, MergeIs, KeysAre
<1>6. \A i \in N : Rest(cur[i]) = {k \in foretold[i] : k >= d}
  BY <1>4 DEF Level
<1>7. /\ DOMAIN cur' = N /\ cur' = [i \in N |-> cur'[i]]
      /\ \A i \in N : CursorOK(cur'[i]) /\ Alike(cur'[i], cur[i]) /\ Rest(cur'[i]) = Rest(cur[i]) \ {m}
  BY <1>0, <1>1, <1>2, MergedIs
<1>8. CursorsOK'
  BY <1>1, <1>2, <1>7, CursorsStay
<1>9. N' = N /\ foretold' = foretold /\ op' = op /\ route' = route
  BY <1>1, SameInputs
<1>10. PICK i0 \in N : m \in Rest(cur[i0])
  BY <1>5
<1>11. m >= d
  BY <1>6, <1>10
<1>12. Level(foretold, m + 1)'
  <2> SUFFICES ASSUME NEW i \in N PROVE Rest(cur'[i]) = {k \in foretold[i] : k >= m + 1}
    BY <1>9 DEF Level
  <2>1. ASSUME NEW k \in foretold[i] PROVE k \in Rest(cur[i]) /\ k # m <=> k >= m + 1
    <3>1. k \in Nat
      BY <1>2, <1>5, SourceFacts
    <3>2. k \in Rest(cur[i]) => k >= m
      BY <1>5
    <3>3. k >= m + 1 => k >= d
      BY <1>5, <1>11, <3>1
    <3> QED
      BY <1>5, <1>6, <3>1, <3>2, <3>3
  <2> QED
    BY <1>2, <1>7, <2>1
<1>13. op \in {"Union", "Intersect"} /\ (op = "Intersect" => route # "trivial") /\ N # {}
  <2>1. ins # << >>
    BY <1>2, <1>10, InputFacts
  <2>2. op # "Diff"
    BY <1>1, <2>1 DEF PlannedByMerge
  <2>3. op = "Intersect" => route # "trivial"
    BY <1>1 DEF PlannedByMerge
  <2> QED
    BY <1>2, <1>10, <2>2, <2>3 DEF InputsOK
<1>14. ASSUME NEW k \in Keys, k >= d, k <= m PROVE At(foretold, k) = {i \in N : k \in Rest(cur[i])}
  BY <1>6, <1>14 DEF At
<1>15. At(foretold, m) = holders
  BY <1>5, <1>11, <1>14
<1>16. m \in Planful <=> ~ (op = "Intersect" /\ holders # N)
  BY <1>5, <1>13, <1>15 DEF Planful
<1>17. ASSUME NEW k \in Planful, k >= d PROVE k >= m
  <2>1. k \in Keys /\ At(foretold, k) # {}
    BY <1>13 DEF Planful
  <2>2. PICK i \in N : k \in foretold[i]
    BY <2>1 DEF At
  <2>3. k \in Rest(cur[i])
    BY <1>6, <1>17, <2>2
  <2> QED
    BY <1>5, <2>1, <2>3
<1>18. \/ m \notin Planful /\ slots' = slots
       \/ /\ m \in Planful
          /\ \E e \in [key : Keys, who : SUBSET N] :
               /\ e.key = m /\ slots' = Append(slots, e)
               /\ \A s \in DOMAIN slots' : slots'[s] = e => Sized(s)'
  <2>1. CASE op = "Intersect" /\ holders # N
    BY <1>1, <1>16, <2>1
  <2>2. CASE ~ (op = "Intersect" /\ holders # N)
    <3> DEFINE e == [key |-> m, who |-> holders]
    <3>1. e \in [key : Keys, who : SUBSET N] /\ e.key = m /\ e.who = holders
      BY <1>5
    <3>2. slots' = Append(slots, e)
      BY <1>1, <2>2
    <3> HIDE DEF e
    <3>3. ASSUME NEW s, slots'[s] = e PROVE Sized(s)'
      BY <1>9, <1>13, <1>15, <2>2, <3>1, <3>3 DEF Sized, At
    <3> QED
      BY <1>16, <2>2, <3>1, <3>2, <3>3
  <2> QED
    BY <2>1, <2>2
<1>19. PlanInv' /\ slots' \in Seq([key : Keys, who : SUBSET N]) /\ Len(slots') >= Len(slots)
  BY <1>1, <1>3, <1>4, <1>5, <1>11, <1>12, <1>17, <1>18, PlanTurn
<1> QED
  BY <1>1, <1>8, <1>19, PlanningKeeps
LEMMA DriverTurns ==
  ASSUME WalkInv, phase = "plan", ~PlannedByMerge, driver_key # END,
         NEW d \in 0 .. KeyCount, Driven(foretold, d)
  PROVE  /\ ins # << >> /\ order = plan_order /\ order[1] \in N /\ op \in {"Intersect", "Diff"}
         /\ driver_key \in Keys /\ driver_key = peek_key(cur[order[1]])
         /\ Turning(driver_key)
         /\ driver_key \in foretold[order[1]] /\ driver_key >= d
         /\ \A k \in foretold[order[1]] : k >= d => k >= driver_key
         /\ Probed(driver_key) = At(foretold, driver_key)
<1>1. InputsOK /\ CursorsOK /\ order = plan_order
  BY DEF WalkInv, OrderOK
<1>2. /\ Ready
      /\ \A i \in N : cur[i].live = Keys /\ Rest(cur[i]) \subseteq foretold[i] /\ Rest(cur[i]) \subseteq Keys
  BY <1>1, CursorsAre
<1>3. order # << >> /\ driver_key = peek_key(cur[order[1]])
  BY DEF driver_key
<1>4. ins # << >> /\ order[1] \in N /\ Visits(order)
  BY <1>1, <1>3, PlanOrderIs
<1>5. /\ driver_key \in Keys /\ driver_key \in Rest(cur[order[1]])
      /\ \A k \in Rest(cur[order[1]]) : driver_key <= k
  BY <1>2, <1>3, <1>4, PeekIs DEF Ready
<1>6. Turning(driver_key)
  BY <1>1, <1>2, <1>3, <1>4, <1>5 DEF Turning
<1>7. op \in {"Intersect", "Diff"}
  BY <1>1 DEF InputsOK, PlannedByMerge
<1>8. /\ Rest(cur[order[1]]) = {k \in foretold[order[1]] : k >= d}
      /\ \A i \in N : {k \in foretold[i] : k >= d} \subseteq Rest(cur[i])
  BY <1>4 DEF Driven
<1>9. driver_key \in foretold[order[1]] /\ driver_key >= d
  BY <1>5, <1>8
<1>10. Probed(driver_key) = At(foretold, driver_key)
  BY <1>2, <1>8, <1>9 DEF Probed, At
<1>11. \A k \in foretold[order[1]] : k >= d => k >= driver_key
  BY <1>5, <1>8, KeysAre
<1> QED
  BY <1>1, <1>3, <1>4, <1>5, <1>6, <1>7, <1>9, <1>10, <1>11

\* A slot is planned at the driver's key when the operation has that key, and is
\* as large as it has to be.
LEMMA DrivenSlot ==
  ASSUME WalkInv, phase = "plan", ~PlannedByMerge, driver_key # END,
         NEW d \in 0 .. KeyCount, Driven(foretold, d),
         NEW key, key = driver_key, NEW p, p = Probe(key, planning_stops),
         NEW who, who = IF route = "trivial" THEN N ELSE {order[1]} \cup Range(p.hits)
  PROVE  /\ key \in Planful <=> ~ (op = "Intersect" /\ ~p.all)
         /\ who \subseteq N
         /\ op = "Intersect" /\ p.all => who = N
         /\ op = "Diff" => /\ 1 \in who
                           /\ IF route = "trivial" THEN who = N
                              ELSE who = {1} <=> At(foretold, key) = {1}
<1>1. /\ ins # << >> /\ order = plan_order /\ order[1] \in N /\ op \in {"Intersect", "Diff"}
      /\ Turning(key) /\ key \in foretold[order[1]] /\ Probed(key) = At(foretold, key) /\ key \in Keys
  BY DriverTurns
<1>2. InputsOK
  BY DEF WalkInv
<1>3. /\ Len(order) \in Nat \ {0} /\ \A j \in 2 .. Len(order) : order[j] \in N /\ order[j] # order[1]
  BY <1>1, TurnFacts
<1>4. /\ route # "trivial" => Everywhere(order)
      /\ route = "trivial" => Len(order) = 1
      /\ op = "Diff" => order[1] = 1
  BY <1>1, <1>2, PlanOrderIs
<1>5. route # "trivial" => \A i \in N : i = order[1] \/ \E j \in 2 .. Len(order) : order[j] = i
  BY <1>3, <1>4 DEF Everywhere
<1>6. /\ Range(p.hits) = Told(p) /\ Told(p) \subseteq N \ {order[1]}
      /\ Told(p) = Asked(key, planning_stops) \cap Probed(key)
  <2>1. p.hits \in Seq(N) /\ Told(p) = Asked(key, planning_stops) \cap Probed(key) /\ Told(p) \subseteq N \ {order[1]}
    BY <1>1, ProbeHits DEF Visits
  <2>2. Range(p.hits) = Told(p)
    BY <2>1, RangeIs DEF Told
  <2> QED
    BY <2>1, <2>2
<1>7. order[1] \in At(foretold, key)
  BY <1>1 DEF At
<1>8. CASE op = "Intersect"
  <2>1. planning_stops = {FALSE}
    BY <1>8 DEF planning_stops
  <2>2. /\ p.all <=> \A j \in 2 .. Len(order) : order[j] \in At(foretold, key)
        /\ p.all => Told(p) = {order[j] : j \in 2 .. Len(order)}
    BY <1>1, <2>1, ProbeAll
  <2>3. CASE route = "trivial"
    <3>1. p.all
      <4>1. Len(order) = 1
        BY <1>4, <2>3
      <4>2. 2 .. 1 = {}
        OBVIOUS
      <4> QED
        BY <2>2, <4>1, <4>2
    <3>2. key \in Planful
      BY <1>1, <1>8, <2>3 DEF Planful
    <3> QED
      BY <1>8, <2>3, <3>1, <3>2
  <2>4. CASE route # "trivial"
    <3>1. p.all <=> At(foretold, key) = N
      <4>1. At(foretold, key) \subseteq N
        BY DEF At
      <4> QED
        BY <1>3, <1>5, <1>7, <2>2, <2>4, <4>1
    <3>2. key \in Planful <=> At(foretold, key) = N
      BY <1>1, <1>8, <2>4 DEF Planful
    <3>3. p.all => who = N
      BY <1>1, <1>3, <1>5, <1>6, <2>2, <2>4
    <3>4. who \subseteq N
      BY <1>1, <1>6, <2>4
    <3> QED
      BY <1>8, <3>1, <3>2, <3>3, <3>4
  <2> QED
    BY <2>3, <2>4
<1>9. CASE op = "Diff"
  <2>1. order[1] = 1 /\ key \in Planful
    BY <1>1, <1>4, <1>9 DEF Planful
  <2>2. CASE route = "trivial"
    BY <1>1, <1>9, <2>1, <2>2
  <2>3. CASE route # "trivial"
    <3>1. Told(p) = {} <=> \A j \in 2 .. Len(order) : order[j] \notin Probed(key)
      <4>1. CASE route = "flat"
        <5>1. planning_stops = {TRUE}
          BY <1>9, <4>1 DEF planning_stops
        <5> QED
          BY <1>1, <5>1, ProbeAny
      <4>2. CASE route # "flat"
        <5>1. planning_stops = {}
          BY <1>9, <4>2 DEF planning_stops
        <5>2. Told(p) = {order[j] : j \in 2 .. Len(order)} \cap Probed(key)
          BY <1>1, <5>1, ProbeEvery
        <5> QED
          BY <5>2
      <4> QED
        BY <4>1, <4>2
    <3>2. Told(p) = {} <=> At(foretold, key) = {1}
      BY <1>1, <1>3, <1>5, <1>7, <2>1, <2>3, <3>1 DEF At
    <3>3. who = {1} \cup Told(p)
      BY <1>6, <2>1, <2>3
    <3>4. who \subseteq N /\ 1 \in who /\ (who = {1} <=> Told(p) = {})
      BY <1>1, <1>6, <2>1, <3>3
    <3> QED
      BY <1>9, <2>1, <2>3, <3>2, <3>4
  <2> QED
    BY <2>2, <2>3
<1> QED
  BY <1>1, <1>8, <1>9

LEMMA PlanDrivenKeeps ==
  ASSUME WalkInv, PlanDriven
  PROVE  WalkInv'
<1>1. phase = "plan" /\ ~PlannedByMerge /\ driver_key # END
  BY DEF PlanDriven
<1>2. Ascending /\ (\A s \in DOMAIN slots : Sized(s)) /\ \E d \in 0 .. KeyCount : PlanAt(d)
  BY <1>1 DEF WalkInv, PlanInv
<1>3. PICK d \in 0 .. KeyCount : Driven(foretold, d) /\ SlotKeys = {k \in Planful : k < d}
  BY <1>1, <1>2 DEF PlanAt
<1>4. PICK key \in Keys : key = driver_key
  BY <1>1, <1>3, DriverTurns
<1>5. /\ ins # << >> /\ order = plan_order /\ order[1] \in N /\ op \in {"Intersect", "Diff"}
      /\ key = peek_key(cur[order[1]]) /\ Turning(key)
      /\ key \in foretold[order[1]] /\ key >= d
      /\ \A k \in foretold[order[1]] : k >= d => k >= key
  BY <1>1, <1>3, <1>4, DriverTurns
<1> DEFINE p   == Probe(key, planning_stops)
           who == IF route = "trivial" THEN N ELSE {order[1]} \cup Range(p.hits)
<1>6. /\ cur' = p.cur
      /\ slots' = IF op = "Intersect" /\ ~p.all THEN slots ELSE Append(slots, [key |-> key, who |-> who])
      /\ UNCHANGED << inputs, phase, order, major, pass, next_slot, handed, emptied >>
  BY <1>4 DEF PlanDriven
<1>7. /\ key \in Planful <=> ~ (op = "Intersect" /\ ~p.all)
      /\ who \subseteq N
      /\ op = "Intersect" /\ p.all => who = N
      /\ op = "Diff" => /\ 1 \in who
                        /\ IF route = "trivial" THEN who = N
                           ELSE who = {1} <=> At(foretold, key) = {1}
  BY <1>1, <1>3, <1>4, DrivenSlot
<1>8. /\ DOMAIN p.cur = N /\ p.cur = [i \in N |-> p.cur[i]]
      /\ \A i \in N : CursorOK(p.cur[i]) /\ Alike(p.cur[i], cur[i])
      /\ Rest(p.cur[order[1]]) = Rest(cur[order[1]]) \ {key}
      /\ \A i \in N \ {order[1]} : {k \in Rest(cur[i]) : k >= key} \subseteq Rest(p.cur[i])
  BY <1>5, ProbeCursors
<1> HIDE DEF p, who
<1>9. InputsOK /\ CursorsOK /\ \A i \in N : foretold[i] \subseteq Keys
  BY SourceFacts DEF WalkInv
<1>10. CursorsOK'
  BY <1>1, <1>6, <1>8, <1>9, CursorsStay
<1>11. N' = N /\ foretold' = foretold /\ op' = op /\ route' = route /\ ins' = ins /\ order' = order
       /\ PlannedByMerge' = PlannedByMerge
  BY <1>6, SameInputs
<1>12. /\ Rest(cur[order[1]]) = {k \in foretold[order[1]] : k >= d}
       /\ \A i \in N : {k \in foretold[i] : k >= d} \subseteq Rest(cur[i])
  BY <1>3, <1>5 DEF Driven
<1>13. key \in Nat /\ d \in Nat /\ \A k \in Keys : k \in Nat
  BY KeysAre
<1>14. \A k \in Keys : /\ k >= key + 1 => k >= key /\ k >= d /\ k # key
                       /\ k >= key /\ k # key => k >= key + 1
  <2>1. key >= d
    BY <1>5
  <2> QED
    BY <1>13, <2>1
<1>15. Driven(foretold, key + 1)'
  <2>1. Rest(p.cur[order[1]]) = {k \in foretold[order[1]] : k >= key + 1}
    <3>1. ASSUME NEW k \in foretold[order[1]] PROVE k >= d /\ k # key <=> k >= key + 1
      <4>1. k \in Keys
        BY <1>5, <1>9
      <4>2. k >= d => k >= key
        BY <1>5
      <4> QED
        BY <1>13, <1>14, <4>1, <4>2
    <3> QED
      BY <1>8, <1>12, <3>1
  <2>2. \A i \in N : {k \in foretold[i] : k >= key + 1} \subseteq Rest(p.cur[i])
    <3> SUFFICES ASSUME NEW i \in N, NEW k \in foretold[i], k >= key + 1 PROVE k \in Rest(p.cur[i])
      OBVIOUS
    <3>1. CASE i = order[1]
      BY <2>1, <3>1
    <3>2. CASE i # order[1]
      <4>1. k >= key /\ k >= d
        BY <1>9, <1>13, <1>14
      <4>2. k \in Rest(cur[i])
        BY <1>12, <4>1
      <4>3. {q \in Rest(cur[i]) : q >= key} \subseteq Rest(p.cur[i])
        BY <1>8, <3>2
      <4> QED
        BY <4>1, <4>2, <4>3
    <3> QED
      BY <3>1, <3>2
  <2>3. \A i : Rest(cur[i])' = Rest(p.cur[i])
    BY <1>6
  <2> QED
    BY <1>11, <2>1, <2>2, <2>3 DEF Driven
<1>16. Planful \subseteq foretold[order[1]]
  <2>1. CASE op = "Intersect"
    BY <1>5, <2>1 DEF Planful, At
  <2>2. CASE op = "Diff"
    <3>1. order[1] = 1
      BY <1>5, <1>9, <2>2, PlanOrderIs
    <3> QED
      BY <1>5, <2>2, <3>1 DEF Planful
  <2> QED
    BY <1>5, <2>1, <2>2
<1>17. \/ key \notin Planful /\ slots' = slots
       \/ /\ key \in Planful
          /\ \E e \in [key : Keys, who : SUBSET N] :
               /\ e.key = key /\ slots' = Append(slots, e)
               /\ \A s \in DOMAIN slots' : slots'[s] = e => Sized(s)'
  <2>1. CASE op = "Intersect" /\ ~p.all
    BY <1>6, <1>7, <2>1
  <2>2. CASE ~ (op = "Intersect" /\ ~p.all)
    <3> DEFINE e == [key |-> key, who |-> who]
    <3>1. e \in [key : Keys, who : SUBSET N] /\ e.key = key /\ e.who = who
      BY <1>7
    <3>2. slots' = Append(slots, e)
      BY <1>6, <2>2
    <3> HIDE DEF e
    <3>3. ASSUME NEW s, slots'[s] = e PROVE Sized(s)'
      <4>1. At(foretold, key)' = At(foretold, key)
        BY <1>11 DEF At
      <4>2. CASE op = "Intersect"
        BY <1>7, <1>11, <2>2, <3>1, <3>3, <4>2 DEF Sized
      <4>3. CASE op = "Diff"
        BY <1>7, <1>11, <3>1, <3>3, <4>1, <4>3 DEF Sized
      <4> QED
        BY <1>5, <4>2, <4>3
    <3> QED
      BY <1>7, <2>2, <3>1, <3>2, <3>3
  <2> QED
    BY <2>1, <2>2
<1>18. PlanInv' /\ slots' \in Seq([key : Keys, who : SUBSET N]) /\ Len(slots') >= Len(slots)
  <2>1. \A k \in Planful : k >= d => k >= key
    BY <1>5, <1>16
  <2>2. phase' = "plan" /\ UNCHANGED << inputs, order >>
    BY <1>1, <1>6
  <2>3. IF PlannedByMerge THEN Level(foretold, key + 1)' ELSE Driven(foretold, key + 1)'
    BY <1>1, <1>15
  <2> QED
    BY <1>2, <1>3, <1>5, <1>17, <2>1, <2>2, <2>3, PlanTurn
<1> QED
  BY <1>1, <1>6, <1>10, <1>18, PlanningKeeps

----------------------------------------------------------------------------
\* A finished plan is what the fold needs.

LEMMA HeldIsForetold ==
  ASSUME InputsOK, NEW k
  PROVE  At(held, k) \subseteq At(foretold, k) /\ At(foretold, k) \subseteq N
<1>1. \A i \in N : held[i] \subseteq foretold[i]
  BY SourceFacts
<1> QED
  BY <1>1 DEF At

LEMMA PlanComplete ==
  ASSUME WalkInv, Planned
  PROVE  Ascending /\ (\A s \in DOMAIN slots : Sized(s)) /\ SlotKeys = Planful
<1>1. phase = "plan" /\ (IF PlannedByMerge THEN min_key(cur) = END ELSE driver_key = END)
  BY DEF Planned
<1>2. Ascending /\ (\A s \in DOMAIN slots : Sized(s)) /\ \E d \in 0 .. KeyCount : PlanAt(d)
  BY <1>1 DEF WalkInv, PlanInv
<1>3. PICK d \in 0 .. KeyCount : PlanAt(d)
  BY <1>2
<1>4. InputsOK /\ CursorsOK /\ Ready /\ order = plan_order
  BY <1>1, CursorsAre DEF WalkInv, OrderOK
<1>5. /\ SlotKeys = {k \in Planful : k < d} /\ d \in Nat
      /\ \A i \in N : foretold[i] \subseteq Keys /\ \A k \in Keys : k \in Nat
  BY <1>3, <1>4, KeysAre, SourceFacts DEF PlanAt
<1>6. op \in {"Intersect", "Union", "Diff"}
  BY <1>4 DEF InputsOK
<1>7. ASSUME NEW k \in Planful PROVE k < d
  <2>1. CASE PlannedByMerge
    <3>1. op # "Diff" \/ ins = << >>
      BY <2>1 DEF PlannedByMerge
    <3>2. op = "Intersect" => route # "trivial"
      BY <2>1 DEF PlannedByMerge
    <3>3. op = "Diff" => Planful = {}
      BY <3>1 DEF Planful
    <3>4. At(foretold, k) # {}
      BY <1>6, <1>7, <3>2, <3>3 DEF Planful
    <3>5. PICK i \in N : k \in foretold[i]
      BY <3>4 DEF At
    <3>6. Rest(cur[i]) = {} /\ Rest(cur[i]) = {q \in foretold[i] : q >= d}
      BY <1>1, <1>3, <1>4, <2>1, MergeIs DEF PlanAt, Level
    <3>7. k \in Nat /\ ~ (k >= d)
      BY <1>5, <3>5, <3>6
    <3> QED
      BY <1>5, <3>7
  <2>2. CASE ~PlannedByMerge
    <3>1. op = "Union" => FALSE
      BY <2>2 DEF PlannedByMerge
    <3>2. ins # << >>
      BY <1>4, <1>6, <1>7, <3>1, InputFacts DEF Planful, InputsOK
    <3>3. order # << >> /\ order[1] \in N /\ (op = "Diff" => order[1] = 1)
      BY <1>4, <3>2, PlanOrderIs
    <3>4. k \in foretold[order[1]]
      BY <1>4, <1>6, <1>7, <3>1, <3>2, <3>3 DEF Planful, At
    <3>5. Rest(cur[order[1]]) = {}
      BY <1>1, <1>4, <2>2, <3>3, PeekIs DEF driver_key, Ready
    <3>6. Rest(cur[order[1]]) = {q \in foretold[order[1]] : q >= d}
      BY <1>3, <2>2, <3>2 DEF PlanAt, Driven
    <3>7. k \in Nat /\ ~ (k >= d)
      BY <1>5, <3>3, <3>4, <3>5, <3>6
    <3> QED
      BY <1>5, <3>7
  <2> QED
    BY <2>1, <2>2
<1> QED
  BY <1>2, <1>5, <1>7

\* What is planned covers what the fold meets, which is part of what was foretold.
LEMMA PlanCovers ==
  ASSUME InputsOK, SlotKeys = Planful
  PROVE  \A k \in Keys : WantedAt(k) # {} => k \in SlotKeys
<1> SUFFICES ASSUME NEW k \in Keys, WantedAt(k) # {} PROVE k \in Planful
  OBVIOUS
<1>1. At(held, k) \subseteq At(foretold, k) /\ At(foretold, k) \subseteq N
  BY HeldIsForetold
<1>2. /\ WantedAt(k) \subseteq At(held, k)
      /\ op = "Intersect" => At(held, k) = N
      /\ op = "Diff" => 1 \in At(held, k)
  BY WantedFacts
<1>3. CASE op = "Union"
  BY <1>1, <1>2, <1>3 DEF Planful
<1>4. CASE op = "Intersect"
  <2>1. At(foretold, k) = N /\ N # {}
    BY <1>1, <1>2, <1>4
  <2>2. plan_order[1] \in N
    BY <2>1, InputFacts, PlanOrderIs
  <2>3. k \in foretold[plan_order[1]]
    BY <2>1, <2>2 DEF At
  <2> QED
    BY <1>4, <2>1, <2>3 DEF Planful
<1>5. CASE op = "Diff"
  <2>1. 1 \in At(foretold, k)
    BY <1>1, <1>2, <1>5
  <2>2. 1 \in N /\ k \in foretold[1]
    BY <2>1 DEF At
  <2>3. ins # << >>
    BY <2>2, InputFacts
  <2> QED
    BY <1>5, <2>2, <2>3 DEF Planful
<1> QED
  BY <1>3, <1>4, <1>5 DEF InputsOK

LEMMA SizedIsRoomy ==
  ASSUME InputsOK, NEW s, Sized(s)
  PROVE  Roomy(s)
<1> DEFINE k == slots[s].key
<1>1. At(held, k) \subseteq At(foretold, k) /\ At(held, k) \subseteq N
  BY HeldIsForetold
<1> QED
  BY <1>1 DEF InputsOK, Sized, Roomy

----------------------------------------------------------------------------
\* The fold begins.

LEMMA FoldBegins ==
  ASSUME WalkInv, StartFold, phase \in {"plan", "observe"},
         Ascending, \A k \in Keys : WantedAt(k) # {} => k \in SlotKeys,
         \A s \in DOMAIN slots : Roomy(s),
         route = "flat" => SlotKeys = Planful /\ \A s \in DOMAIN slots : Sized(s)
  PROVE  WalkInv'
<1>1. /\ phase' = "fold" /\ cur' = [i \in N |-> cursor(i)]
      /\ order' = IF ins = << >> THEN << >> ELSE fold_order
      /\ major' \in IF op = "Intersect" \/ route = "trivial" THEN {"key"} ELSE {"key", "partner"}
      /\ handed' = [s \in DOMAIN slots |-> << >>]
      /\ pass' = 1 /\ next_slot' = 1
      /\ UNCHANGED << inputs, slots, emptied >>
  BY DEF StartFold
<1>2. InputsOK /\ slots \in Seq([key : Keys, who : SUBSET N]) /\ emptied = {}
  BY DEF WalkInv, ShapeOK
<1>3. /\ op' = op /\ route' = route /\ ins' = ins /\ live' = live
      /\ N' = N /\ foretold' = foretold /\ held' = held
      /\ PlannedByMerge' = PlannedByMerge /\ plan_order' = plan_order /\ fold_order' = fold_order
      /\ \A i : cursor(i)' = cursor(i)
      /\ \A k : WantedAt(k)' = WantedAt(k)
      /\ InputsOK'
  BY <1>1, <1>2, SameInputs
<1>4. Len(slots) \in Nat /\ DOMAIN slots = 1 .. Len(slots) /\ \A s \in DOMAIN slots : slots[s].key \in Nat
  BY <1>2, SlotTypes
<1>5. \A i \in N : CursorOK(cursor(i)) /\ Rest(cursor(i)) = held[i] /\ held[i] \subseteq Keys
  BY <1>2, SourceFacts
<1>6. \A i \in N : cur'[i] = cursor(i) /\ Rest(cur'[i]) = held[i] /\ Rest(cur[i])' = held[i]
  BY <1>1, <1>5
<1>7. CursorsOK'
  BY <1>1, <1>3, <1>5 DEF CursorsOK, Alike
<1>8. OrderOK'
  BY <1>1, <1>3 DEF OrderOK
<1>9. slots' = slots /\ emptied' = {} /\ DOMAIN handed' = DOMAIN slots /\ \A s \in DOMAIN slots : handed'[s] = << >>
  BY <1>1, <1>2
<1>10. ShapeOK'
  <2> DEFINE R == [input : N, key : Keys, from : Nat, upto : Nat]
  <2>1. handed' \in Seq(Seq(R))
    <3>1. << >> \in Seq(R)
      OBVIOUS
    <3> HIDE DEF R
    <3>2. handed' \in [1 .. Len(slots) -> Seq(R)]
      BY <1>1, <1>4, <3>1
    <3> QED
      BY <1>4, <3>2, SeqDef
  <2>2. slots' \in Seq([key : Keys, who : SUBSET N'])
    BY <1>2, <1>3, <1>9
  <2>3. Len(ins) \in Nat
    BY <1>2, InputFacts
  <2>4. pass' \in 1 .. Len(ins') + 1 \cup {3} /\ next_slot' \in Nat \ {0} /\ next_slot' <= Len(slots') + 1
    BY <1>1, <1>3, <1>4, <1>9, <2>3
  <2>5. major' \in {"key", "partner"} /\ (major' = "partner" => op' # "Intersect")
    BY <1>1, <1>3
  <2> QED
    BY <1>1, <1>3, <1>9, <2>1, <2>2, <2>4, <2>5 DEF ShapeOK
<1>11. PlanInv' /\ ObserveInv'
  BY <1>1 DEF PlanInv, ObserveInv
<1>12. SlotKeys' = SlotKeys /\ Planful' = Planful /\ Ascending' /\ \A s : Roomy(s)' = Roomy(s) /\ Sized(s)' = Sized(s)
  <2>1. SlotKeys' = SlotKeys /\ Ascending'
    BY <1>9 DEF SlotKeys, Ascending
  <2>2. Planful' = Planful
    BY <1>3 DEF Planful, At
  <2>3. \A s : Roomy(s)' = Roomy(s)
    BY <1>3, <1>9 DEF Roomy, At
  <2>4. \A s : Sized(s)' = Sized(s)
    BY <1>3, <1>9 DEF Sized, At
  <2> QED
    BY <2>1, <2>2, <2>3, <2>4
<1>13. LaidOut'
  BY <1>3, <1>9, <1>12 DEF LaidOut
<1>14. \A s \in DOMAIN slots : Given(s)' = {}
  BY <1>9 DEF Given
<1>15. HandedOK'
  BY <1>9, <1>14 DEF HandedOK
<1>16. ASSUME NEW i \in N, NEW k PROVE k \in held[i] <=> k \in held[i] /\ k >= 0
  BY <1>5, <1>16, KeysAre
<1>17. \A s \in DOMAIN slots' : ~ (s < next_slot')
  BY <1>1, <1>4, <1>9
<1>18. \A s \in DOMAIN slots : ~ (slots[s].key < 0)
  BY <1>4
<1>19. KeyMajorAt(0)'
  <2>1. Below(0)'
    BY <1>17 DEF Below
  <2>2. Level(held, 0)'
    BY <1>3, <1>6, <1>16 DEF Level
  <2>3. Driven(held, 0)'
    <3>1. ins # << >> => order'[1] \in N
      BY <1>1, <1>2, FoldOrderIs
    <3> QED
      BY <1>3, <1>6, <1>16, <3>1 DEF Driven
  <2> QED
    BY <1>9, <1>14, <1>18, <2>1, <2>2, <2>3 DEF KeyMajorAt
<1>20. 0 \in 0 .. KeyCount
  BY KeysAre
<1>21. KeyMajorInv'
  BY <1>19, <1>20 DEF KeyMajorInv
<1>22. UnionPassInv'
  <2>1. Behind'
    BY <1>17 DEF Behind
  <2>2. \A i \in N : ~ (i < 1)
    BY <1>2, InputFacts
  <2> QED
    BY <1>1, <1>3, <1>6, <1>9, <1>14, <2>1, <2>2 DEF UnionPassInv
<1>23. DiffPassInv'
  <2>1. SeedAt(0)'
    <3>1. Below(0)'
      BY <1>17 DEF Below
    <3> QED
      BY <1>3, <1>6, <1>9, <1>14, <1>16, <1>18, <3>1 DEF SeedAt
  <2> QED
    BY <1>1, <1>3, <1>6, <1>20, <2>1 DEF DiffPassInv
<1> QED
  BY <1>3, <1>7, <1>8, <1>10, <1>11, <1>13, <1>15, <1>21, <1>22, <1>23 DEF WalkInv

LEMMA PlanDoneKeeps ==
  ASSUME WalkInv, PlanDone
  PROVE  WalkInv'
<1>1. Planned /\ StartFold /\ phase = "plan" /\ InputsOK
  BY DEF PlanDone, Planned, WalkInv
<1>2. Ascending /\ (\A s \in DOMAIN slots : Sized(s)) /\ SlotKeys = Planful
  BY <1>1, PlanComplete
<1>3. (\A s \in DOMAIN slots : Roomy(s)) /\ \A k \in Keys : WantedAt(k) # {} => k \in SlotKeys
  BY <1>1, <1>2, SizedIsRoomy, PlanCovers
<1> QED
  BY <1>1, <1>2, <1>3, FoldBegins

----------------------------------------------------------------------------
\* The observed re-plan.

LEMMA FunIsSeq ==
  ASSUME NEW S, NEW n \in Nat, NEW f \in [1 .. n -> S]
  PROVE  f \in Seq(S) /\ Len(f) = n
BY SeqDef

\* Slots keep their keys when only their sizes change.
LEMMA SameKeys ==
  ASSUME DOMAIN slots' = DOMAIN slots, \A s \in DOMAIN slots : slots'[s].key = slots[s].key
  PROVE  SlotKeys' = SlotKeys /\ (Ascending => Ascending')
BY DEF SlotKeys, Ascending

LEMMA PlanAgainKeeps ==
  ASSUME WalkInv, PlanAgain
  PROVE  WalkInv'
<1>1. /\ Planned /\ route = "tree" /\ op = "Union" /\ phase = "plan"
      /\ phase' = "observe"
      /\ slots' = [s \in DOMAIN slots |-> [slots[s] EXCEPT !.who = {i \in @ : IsLeaf(ins[i])}]]
      /\ cur' = [i \in N |-> cursor(i)]
      /\ pass' = 1 /\ next_slot' = 1
      /\ UNCHANGED << inputs, order, major, handed, emptied >>
  BY DEF PlanAgain, Planned
<1>3. InputsOK /\ slots \in Seq([key : Keys, who : SUBSET N]) /\ handed = << >> /\ emptied = {} /\ major # "partner"
  BY <1>1 DEF WalkInv, ShapeOK
<1>4. /\ op' = op /\ route' = route /\ ins' = ins /\ live' = live
      /\ N' = N /\ held' = held /\ plan_order' = plan_order
      /\ \A i : cursor(i)' = cursor(i)
      /\ \A k : WantedAt(k)' = WantedAt(k)
      /\ InputsOK'
  BY <1>1, <1>3, SameInputs
<1>5. /\ Len(slots) \in Nat /\ DOMAIN slots = 1 .. Len(slots)
      /\ \A s \in DOMAIN slots : slots[s] \in [key : Keys, who : SUBSET N]
  BY <1>3, SlotTypes
<1>6. /\ DOMAIN slots' = DOMAIN slots
      /\ \A s \in DOMAIN slots : /\ slots'[s] \in [key : Keys, who : SUBSET N]
                                 /\ slots'[s].key = slots[s].key
                                 /\ slots'[s].who = {i \in slots[s].who : IsLeaf(ins[i])}
  BY <1>1, <1>5
<1>7. slots' \in Seq([key : Keys, who : SUBSET N]) /\ Len(slots') = Len(slots)
  <2>1. slots' \in [1 .. Len(slots) -> [key : Keys, who : SUBSET N]]
    BY <1>1, <1>5, <1>6
  <2> QED
    BY <1>5, <2>1, FunIsSeq
<1>8. \A i \in N : CursorOK(cursor(i)) /\ Rest(cursor(i)) = held[i] /\ held[i] \subseteq foretold[i]
  BY <1>3, SourceFacts
<1>9. \A i \in N : Rest(cur[i])' = held[i]
  BY <1>1, <1>8
<1>10. CursorsOK'
  BY <1>1, <1>4, <1>8 DEF CursorsOK, Alike
<1>11. OrderOK'
  BY <1>1, <1>4 DEF WalkInv, OrderOK
<1>12. ShapeOK'
  <2>1. Len(ins) \in Nat
    BY <1>3, InputFacts
  <2>2. pass' \in 1 .. Len(ins') + 1 \cup {3} /\ next_slot' \in Nat \ {0} /\ next_slot' <= Len(slots') + 1
    BY <1>1, <1>4, <1>5, <1>7, <2>1
  <2>3. handed' = << >> /\ emptied' = {} /\ handed' \in Seq(Seq([input : N, key : Keys, from : Nat, upto : Nat]))
    BY <1>1, <1>3
  <2>4. major' = "key"
    BY <1>1, <1>3 DEF WalkInv, ShapeOK
  <2> QED
    BY <1>1, <1>4, <1>7, <2>2, <2>3, <2>4 DEF ShapeOK
<1>13. Ascending /\ (\A s \in DOMAIN slots : Sized(s)) /\ SlotKeys = Planful
  BY <1>1, PlanComplete
<1>14. SlotKeys' = SlotKeys /\ Ascending'
  BY <1>6, <1>13, SameKeys
<1>15. \A k \in Keys : WantedAt(k) # {} => k \in SlotKeys
  BY <1>3, <1>13, PlanCovers
<1>16. LaidOut'
  BY <1>1, <1>4, <1>14, <1>15 DEF LaidOut
<1>17. ObserveInv'
  <2>1. Behind'
    BY <1>1, <1>6, <1>5 DEF Behind
  <2>2. ASSUME NEW s \in DOMAIN slots, NEW i \in N, slots[s].key \in held[i], IsLeaf(ins[i])
        PROVE  i \in slots'[s].who
    <3>1. slots[s].who = At(foretold, slots[s].key)
      BY <1>1, <1>13 DEF Sized
    <3>2. i \in slots[s].who
      BY <1>8, <2>2, <3>1 DEF At
    <3> QED
      BY <1>6, <2>2, <3>2
  <2>3. \A i \in N : ~ (i < 1)
    BY <1>3, InputFacts
  <2>4. \A s \in DOMAIN slots', i \in N' :
          /\ slots'[s].key \in held'[i]
          /\ IsLeaf(ins'[i]) \/ i < pass' \/ (i = pass' /\ slots'[s].key \notin Rest(cur[i])')
          => i \in slots'[s].who
    BY <1>1, <1>4, <1>6, <1>9, <2>2, <2>3
  <2>5. \A i \in N' : i > pass' => Rest(cur[i])' = held'[i]
    BY <1>4, <1>9
  <2> QED
    BY <2>1, <2>4, <2>5 DEF ObserveInv
<1>18. HandedOK' /\ PlanInv' /\ KeyMajorInv' /\ UnionPassInv' /\ DiffPassInv'
  BY <1>1, <1>3 DEF HandedOK, PlanInv, KeyMajorInv, UnionPassInv, DiffPassInv
<1> QED
  BY <1>4, <1>10, <1>11, <1>12, <1>16, <1>17, <1>18 DEF WalkInv

\* What a turn of the re-plan has to keep.
LEMMA ObservingKeeps ==
  ASSUME WalkInv, phase = "observe", UNCHANGED << inputs, phase, order, major, handed, emptied >>,
         slots' \in Seq([key : Keys, who : SUBSET N]),
         DOMAIN slots' = DOMAIN slots, Len(slots') = Len(slots),
         \A s \in DOMAIN slots : slots'[s].key = slots[s].key,
         pass' \in 1 .. Len(ins) + 1 \cup {3}, next_slot' \in 1 .. Len(slots) + 1,
         CursorsOK', ObserveInv'
  PROVE  WalkInv'
<1>1. /\ op' = op /\ route' = route /\ ins' = ins /\ N' = N /\ plan_order' = plan_order
      /\ \A k : WantedAt(k)' = WantedAt(k)
      /\ InputsOK'
  BY SameInputs DEF WalkInv
<1>2. handed = << >> /\ emptied = {} /\ route = "tree" /\ op = "Union" /\ major = "key"
  BY DEF WalkInv, ShapeOK
<1>3. OrderOK'
  BY <1>1 DEF WalkInv, OrderOK
<1>4. ShapeOK'
  <2>1. Len(slots) \in Nat
    BY SlotTypes DEF WalkInv, ShapeOK
  <2>2. next_slot' \in Nat \ {0} /\ next_slot' <= Len(slots') + 1
    BY <2>1
  <2>3. handed' \in Seq(Seq([input : N', key : Keys, from : Nat, upto : Nat])) /\ handed' = << >> /\ emptied' = {}
    BY <1>1, <1>2
  <2>4. slots' \in Seq([key : Keys, who : SUBSET N']) /\ pass' \in 1 .. Len(ins') + 1 \cup {3}
    BY <1>1
  <2> QED
    BY <1>1, <1>2, <2>2, <2>3, <2>4 DEF ShapeOK
<1>5. SlotKeys' = SlotKeys /\ (Ascending => Ascending')
  BY SameKeys
<1>6. LaidOut'
  BY <1>1, <1>2, <1>5 DEF WalkInv, LaidOut
<1>7. HandedOK' /\ PlanInv' /\ KeyMajorInv' /\ UnionPassInv' /\ DiffPassInv'
  BY <1>2 DEF HandedOK, PlanInv, KeyMajorInv, UnionPassInv, DiffPassInv
<1> QED
  BY <1>1, <1>3, <1>4, <1>6, <1>7 DEF WalkInv

LEMMA ObserveKeeps ==
  ASSUME WalkInv, Observe
  PROVE  WalkInv'
<1>1. PICK key : key = peek_key(cur[pass])
  OBVIOUS
<1>2. PICK j : j = slot_for(next_slot, key)
  OBVIOUS
<1>3. /\ phase = "observe" /\ pass \in N
      /\ IF ins[pass].kind # "arena" \/ key = END \/ j > Len(slots)
         THEN pass' = pass + 1 /\ next_slot' = 1 /\ UNCHANGED << cur, slots >>
         ELSE /\ slots' = IF slots[j].key = key
                          THEN [slots EXCEPT ![j].who = @ \cup {pass}] ELSE slots
              /\ cur' = [cur EXCEPT ![pass] = advance(@)]
              /\ next_slot' = j
              /\ UNCHANGED pass
      /\ UNCHANGED << inputs, phase, order, major, handed, emptied >>
  BY <1>1, <1>2 DEF Observe
<1>4. /\ InputsOK /\ CursorsOK /\ Ready /\ route = "tree" /\ op = "Union"
      /\ slots \in Seq([key : Keys, who : SUBSET N])
      /\ next_slot \in Nat \ {0} /\ next_slot <= Len(slots) + 1
      /\ \A i \in N : Rest(cur[i]) \subseteq held[i]
  BY <1>3, CursorsAre DEF WalkInv, ShapeOK
<1>5. /\ Len(slots) \in Nat /\ DOMAIN slots = 1 .. Len(slots) /\ next_slot \in 1 .. Len(slots) + 1
      /\ \A s \in DOMAIN slots : /\ slots[s] \in [key : Keys, who : SUBSET N]
                                 /\ slots[s].key \in Nat /\ slots[s].who \subseteq N
  BY <1>4, SlotTypes
<1>6. /\ Behind
      /\ \A i \in N : i > pass => Rest(cur[i]) = held[i]
      /\ \A s \in DOMAIN slots, i \in N :
           /\ slots[s].key \in held[i]
           /\ IsLeaf(ins[i]) \/ i < pass \/ (i = pass /\ slots[s].key \notin Rest(cur[i]))
           => i \in slots[s].who
  BY <1>3 DEF WalkInv, ObserveInv
<1>7. /\ CursorOK(cur[pass]) /\ key \in Nat /\ key \in Keys \cup {END}
      /\ key # END => key \in Rest(cur[pass]) /\ key \in Keys
      /\ key = END <=> Rest(cur[pass]) = {}
      /\ \A k \in Rest(cur[pass]) : key <= k
  BY <1>1, <1>3, <1>4, PeekIs DEF Ready
<1>8. /\ N' = N /\ held' = held /\ ins' = ins
  BY <1>3, SameInputs
<1>9. /\ Len(ins) \in Nat /\ N = 1 .. Len(ins) /\ \A i \in N : ins[i] \in Operands /\ held[i] \subseteq Keys /\ Rest(cur[i]) \subseteq Keys
  BY <1>4, InputFacts, CursorsAre, SourceFacts
<1>10. CASE ins[pass].kind # "arena" \/ key = END \/ j > Len(slots)
  <2>1. pass' = pass + 1 /\ next_slot' = 1 /\ cur' = cur /\ slots' = slots
    BY <1>3, <1>10
  <2>2. CursorsOK'
    <3>1. \A i \in N : CursorOK(cur[i]) /\ Alike(cur[i], cur[i])
      BY <1>4 DEF Ready, Alike
    <3> QED
      BY <1>3, <1>4, <2>1, <3>1, CursorsStay DEF Ready
  <2>3. ASSUME NEW s \in DOMAIN slots, slots[s].key \in held[pass], slots[s].key \in Rest(cur[pass]), ~IsLeaf(ins[pass])
        PROVE  FALSE
    <3>1. ins[pass].kind = "arena"
      <4>1. ins[pass].kind # "empty"
        <5>1. Range(<< >>) = {}
          BY DEF Range
        <5> QED
          BY <1>3, <1>4, <1>9, <2>3, <5>1, OperandFacts, SourceFacts
      <4> QED
        BY <1>3, <1>9, <2>3, <4>1, OperandFacts DEF Kinds, IsLeaf
    <3>2. j > Len(slots) /\ key <= slots[s].key
      BY <1>7, <1>10, <2>3, <3>1
    <3>3. \A t \in next_slot .. j - 1 : slots[t].key < key
      BY <1>2, <1>4, <1>5, <1>7, SlotFor
    <3>4. j \in Nat
      BY <1>2, <1>4, <1>5, <1>7, SlotFor
    <3>5. CASE s < next_slot
      BY <1>3, <1>5, <1>6, <2>3, <3>5 DEF Behind
    <3>6. CASE ~ (s < next_slot)
      <4>1. s \in next_slot .. j - 1
        BY <1>4, <1>5, <3>2, <3>4, <3>6
      <4> QED
        BY <1>5, <1>7, <3>2, <3>3, <4>1
    <3> QED
      BY <3>5, <3>6
  <2>4. ObserveInv'
    <3>1. Behind'
      BY <1>5, <2>1 DEF Behind
    <3>2. \A i \in N : i > pass + 1 => i > pass
      BY <1>3, <1>9
    <3>3. ASSUME NEW s \in DOMAIN slots, NEW i \in N, slots[s].key \in held[i],
                 IsLeaf(ins[i]) \/ i < pass + 1 \/ (i = pass + 1 /\ slots[s].key \notin Rest(cur[i]))
          PROVE  i \in slots[s].who
      <4>1. CASE i = pass
        BY <1>6, <2>3, <3>3, <4>1
      <4>2. CASE i = pass + 1
        BY <1>3, <1>6, <1>9, <3>3, <4>2
      <4>3. CASE i # pass /\ i # pass + 1
        <5>1. IsLeaf(ins[i]) \/ i < pass
          BY <1>3, <1>9, <3>3, <4>3
        <5> QED
          BY <1>6, <3>3, <5>1
      <4> QED
        BY <4>1, <4>2, <4>3
    <3>4. \A i : Rest(cur[i])' = Rest(cur[i])
      BY <2>1
    <3> QED
      BY <1>6, <1>8, <2>1, <3>1, <3>2, <3>3, <3>4 DEF ObserveInv
  <2>5. pass' \in 1 .. Len(ins) + 1 \cup {3} /\ next_slot' \in 1 .. Len(slots) + 1
    BY <1>3, <1>5, <1>9, <2>1
  <2>6. /\ slots' \in Seq([key : Keys, who : SUBSET N]) /\ DOMAIN slots' = DOMAIN slots
        /\ Len(slots') = Len(slots) /\ \A s \in DOMAIN slots : slots'[s].key = slots[s].key
    BY <1>4, <2>1
  <2> QED
    BY <1>3, <2>2, <2>4, <2>5, <2>6, ObservingKeeps
<1>11. CASE ~ (ins[pass].kind # "arena" \/ key = END \/ j > Len(slots))
  <2>1. key \in Rest(cur[pass]) /\ key \in Keys /\ key \in held[pass]
    BY <1>3, <1>4, <1>7, <1>11
  <2>2. key \in SlotKeys /\ Ascending
    <3>1. pass \in At(held, key)
      BY <1>3, <2>1 DEF At
    <3>2. WantedAt(key) # {}
      BY <1>4, <3>1, WantedFacts
    <3> QED
      BY <1>3, <2>1, <3>2 DEF WalkInv, LaidOut
  <2>3. \A t \in DOMAIN slots : t < next_slot => slots[t].key < key
    BY <1>3, <1>6, <2>1 DEF Behind
  <2>4. /\ j \in DOMAIN slots /\ slots[j].key = key /\ j \in Nat
        /\ \A t \in DOMAIN slots : t < j => slots[t].key < key
        /\ \A t \in DOMAIN slots : slots[t].key = key => t = j
    BY <1>2, <1>4, <1>5, <2>2, <2>3, SlotFound
  <2>5. /\ slots' = [slots EXCEPT ![j].who = @ \cup {pass}]
        /\ cur' = [cur EXCEPT ![pass] = advance(@)]
        /\ next_slot' = j /\ pass' = pass
    BY <1>3, <1>11, <2>4
  <2>6. /\ DOMAIN slots' = DOMAIN slots
        /\ \A s \in DOMAIN slots : /\ slots'[s] \in [key : Keys, who : SUBSET N]
                                   /\ slots'[s].key = slots[s].key
                                   /\ slots[s].who \subseteq slots'[s].who
                                   /\ s = j => pass \in slots'[s].who
    <3>1. DOMAIN slots' = DOMAIN slots
      BY <2>5
    <3>2. ASSUME NEW s \in DOMAIN slots, s # j PROVE slots'[s] = slots[s]
      BY <2>5, <3>2
    <3>3. slots'[j] = [slots[j] EXCEPT !.who = @ \cup {pass}]
      BY <2>4, <2>5
    <3>4. /\ slots'[j] \in [key : Keys, who : SUBSET N] /\ slots'[j].key = slots[j].key
          /\ slots'[j].who = slots[j].who \cup {pass}
      BY <1>3, <1>5, <2>4, <3>3
    <3> QED
      BY <1>5, <3>1, <3>2, <3>4
  <2>7. slots' \in Seq([key : Keys, who : SUBSET N]) /\ Len(slots') = Len(slots)
    <3>1. slots' \in [1 .. Len(slots) -> [key : Keys, who : SUBSET N]]
      <4>1. slots' = [s \in 1 .. Len(slots) |-> slots'[s]]
        BY <1>5, <2>5
      <4> QED
        BY <1>5, <2>6, <4>1
    <3> QED
      BY <1>5, <3>1, FunIsSeq
  <2>8. /\ DOMAIN cur' = N /\ cur' = [i \in N |-> cur'[i]]
        /\ \A i \in N : CursorOK(cur'[i]) /\ Alike(cur'[i], cur[i])
        /\ Rest(cur'[pass]) = Rest(cur[pass]) \ {key}
        /\ \A i \in N \ {pass} : cur'[i] = cur[i]
    <3>1. /\ DOMAIN cur' = N /\ cur' = [i \in N |-> cur'[i]]
          /\ cur'[pass] = advance(cur[pass]) /\ \A i \in N \ {pass} : cur'[i] = cur[i]
      BY <1>3, <1>4, <2>5 DEF Ready
    <3>2. /\ CursorOK(advance(cur[pass])) /\ Alike(advance(cur[pass]), cur[pass])
          /\ Rest(advance(cur[pass])) = Rest(cur[pass]) \ {key}
      BY <1>1, <1>7, AdvanceIs
    <3>3. \A i \in N : CursorOK(cur[i]) /\ Alike(cur[i], cur[i])
      BY <1>4 DEF Ready, Alike
    <3> QED
      BY <3>1, <3>2, <3>3
  <2>9. CursorsOK'
    BY <1>3, <1>4, <2>8, CursorsStay
  <2>10. ObserveInv'
    <3>1. Rest(cur[pass])' = Rest(cur[pass]) \ {key} /\ \A i \in N \ {pass} : Rest(cur[i])' = Rest(cur[i])
      BY <2>5, <2>8
    <3>2. Behind'
      <4> SUFFICES ASSUME NEW s \in DOMAIN slots, NEW k \in Rest(cur[pass]) \ {key}, s < j
                   PROVE  slots[s].key < k
        BY <2>5, <2>6, <2>8 DEF Behind
      <4>1. key <= k /\ slots[s].key < key /\ k \in Nat
        BY <1>3, <1>7, <1>9, <2>4, KeysAre
      <4> QED
        BY <1>5, <1>7, <4>1
    <3>3. \A i \in N : i > pass => i # pass
      BY <1>3, <1>9
    <3>4. ASSUME NEW s \in DOMAIN slots, NEW i \in N, slots[s].key \in held[i],
                 IsLeaf(ins[i]) \/ i < pass \/ (i = pass /\ slots[s].key \notin Rest(cur[i])')
          PROVE  i \in slots'[s].who
      <4>1. CASE i = pass /\ slots[s].key = key
        BY <2>4, <2>6, <4>1
      <4>2. CASE ~ (i = pass /\ slots[s].key = key)
        <5>1. IsLeaf(ins[i]) \/ i < pass \/ (i = pass /\ slots[s].key \notin Rest(cur[i]))
          <6>1. i = pass => Rest(cur[i])' = Rest(cur[i]) \ {key}
            BY <2>5, <2>8
          <6> QED
            BY <3>4, <4>2, <6>1
        <5>2. i \in slots[s].who
          BY <1>6, <3>4, <5>1
        <5> QED
          BY <2>6, <5>2
      <4> QED
        BY <4>1, <4>2
    <3> QED
      BY <1>6, <1>8, <2>5, <2>6, <3>1, <3>2, <3>3, <3>4 DEF ObserveInv
  <2>11. pass' \in 1 .. Len(ins) + 1 \cup {3} /\ next_slot' \in 1 .. Len(slots) + 1
    BY <1>3, <1>5, <1>9, <2>4, <2>5
  <2> QED
    BY <1>3, <2>6, <2>7, <2>9, <2>10, <2>11, ObservingKeeps
<1> QED
  BY <1>10, <1>11

LEMMA ObserveDoneKeeps ==
  ASSUME WalkInv, ObserveDone
  PROVE  WalkInv'
<1>1. phase = "observe" /\ pass \notin N /\ StartFold
  BY DEF ObserveDone
<1>2. InputsOK /\ route = "tree" /\ op = "Union" /\ pass \in 1 .. Len(ins) + 1 \cup {3}
  BY <1>1 DEF WalkInv, ShapeOK
<1>3. \A i \in N : i < pass
  BY <1>1, <1>2, InputFacts
<1>4. \A s \in DOMAIN slots : Roomy(s)
  <2> SUFFICES ASSUME NEW s \in DOMAIN slots, NEW i \in At(held, slots[s].key) PROVE i \in slots[s].who
    BY <1>2 DEF Roomy
  <2>1. i \in N /\ slots[s].key \in held[i]
    BY DEF At
  <2> QED
    BY <1>1, <1>3, <2>1 DEF WalkInv, ObserveInv
<1>5. Ascending /\ \A k \in Keys : WantedAt(k) # {} => k \in SlotKeys
  BY <1>1 DEF WalkInv, LaidOut
<1> QED
  BY <1>1, <1>2, <1>4, <1>5, FoldBegins

LEMMA StartsRight ==
  ASSUME Init
  PROVE  WalkInv
<1>1. InputsOK
  <2>1. ins \in Seq(Operands) /\ Len(ins) <= MaxArity
    <3>1. PICK m \in 0 .. MaxArity : ins \in [1 .. m -> Operands]
      BY DEF Init, BoundedSeq, SeqOf
    <3>2. MaxArity \in Nat
      BY WalkAssumption
    <3>3. m \in Nat /\ m <= MaxArity
      BY <3>2
    <3> QED
      BY <3>1, <3>3, FunIsSeq
  <2>2. live \in SUBSET Keys
    BY WalkAssumption DEF Init
  <2>3. /\ op \in {"Intersect", "Union", "Diff"} /\ route \in {"flat", "trivial", "tree"}
        /\ route # "tree" => live = Keys /\ \A i \in N : IsLeaf(ins[i])
        /\ route = "trivial" => op # "Union" /\ ins # << >>
    BY DEF Init
  <2> QED
    BY <2>1, <2>2, <2>3 DEF InputsOK
<1>2. /\ phase = "plan" /\ order = plan_order /\ cur = [i \in N |-> plan_cursor(i)]
      /\ major = "key" /\ slots = << >> /\ pass = 1 /\ next_slot = 1
      /\ handed = << >> /\ emptied = {}
  BY DEF Init
<1>3. \A i \in N : CursorOK(plan_cursor(i)) /\ Rest(plan_cursor(i)) = foretold[i] /\ foretold[i] \subseteq Keys
  BY <1>1, SourceFacts
<1>4. CursorsOK
  BY <1>2, <1>3 DEF CursorsOK, Alike
<1>5. OrderOK
  BY <1>2 DEF OrderOK
<1>6. ShapeOK
  <2>1. Len(ins) \in Nat /\ Len(slots) = 0 /\ DOMAIN slots = {} /\ DOMAIN handed = {}
    BY <1>1, <1>2, InputFacts
  <2>2. slots \in Seq([key : Keys, who : SUBSET N]) /\ handed \in Seq(Seq([input : N, key : Keys, from : Nat, upto : Nat]))
    BY <1>2
  <2>3. pass \in 1 .. Len(ins) + 1 \cup {3} /\ next_slot \in Nat \ {0} /\ next_slot <= Len(slots) + 1
    BY <1>2, <2>1
  <2> QED
    BY <1>2, <2>1, <2>2, <2>3 DEF ShapeOK
<1>7. PlanInv
  <2>1. DOMAIN slots = {}
    BY <1>2
  <2>2. Ascending /\ SlotKeys = {} /\ \A s \in DOMAIN slots : Sized(s)
    BY <2>1 DEF Ascending, SlotKeys
  <2>3. \A i \in N : \A k : k \in foretold[i] <=> k \in foretold[i] /\ k >= 0
    BY <1>3, KeysAre
  <2>4. \A i \in N : Rest(cur[i]) = foretold[i]
    BY <1>2, <1>3
  <2>5. Level(foretold, 0)
    BY <2>3, <2>4 DEF Level
  <2>6. Driven(foretold, 0)
    <3>1. ins # << >> => order[1] \in N
      BY <1>1, <1>2, PlanOrderIs
    <3> QED
      BY <2>3, <2>4, <3>1 DEF Driven
  <2>7. {k \in Planful : k < 0} = {}
    <3>1. \A k \in Planful : k \in Nat
      <4>1. CASE op = "Union"
        BY <4>1, KeysAre DEF Planful
      <4>2. CASE op = "Intersect"
        <5>1. plan_order[1] \in N \/ route # "trivial"
          BY <1>1, PlanOrderIs DEF InputsOK
        <5> QED
          BY <1>3, <4>2, <5>1, KeysAre DEF Planful
      <4>3. CASE op = "Diff"
        <5>1. ins # << >> => 1 \in N
          BY <1>1, InputFacts
        <5> QED
          BY <1>3, <4>3, <5>1, KeysAre DEF Planful
      <4> QED
        BY <1>1, <4>1, <4>2, <4>3 DEF InputsOK
    <3> QED
      BY <3>1
  <2>8. PlanAt(0) /\ 0 \in 0 .. KeyCount
    BY <2>2, <2>5, <2>6, <2>7, KeysAre DEF PlanAt
  <2> QED
    BY <2>2, <2>8 DEF PlanInv
<1>8. ObserveInv /\ LaidOut /\ HandedOK /\ KeyMajorInv /\ UnionPassInv /\ DiffPassInv
  BY <1>2 DEF ObserveInv, LaidOut, HandedOK, KeyMajorInv, UnionPassInv, DiffPassInv
<1> QED
  BY <1>1, <1>4, <1>5, <1>6, <1>7, <1>8 DEF WalkInv

----------------------------------------------------------------------------
\* Handing containers over.

Refs == [input : N, key : Keys, from : Nat, upto : Nat]

\* refs are the containers of the inputs I at key, each once and whole.
Containers(refs, I, key) ==
  /\ refs \in Seq(Refs)
  /\ \A j \in 1 .. Len(refs) : refs[j].key = key /\ Whole(refs[j])
  /\ \A i, j \in 1 .. Len(refs) : refs[i].input = refs[j].input => i = j
  /\ {refs[j].input : j \in 1 .. Len(refs)} = I

LEMMA OneContainer ==
  ASSUME InputsOK, NEW i \in N, NEW c, CursorOK(c), c.at = ins[i].at, peek_key(c) # END
  PROVE  /\ Containers(<< Ref(i, c) >>, {i}, peek_key(c))
         /\ << Ref(i, c) >>[1].input = i /\ Len(<< Ref(i, c) >>) = 1
<1>1. Ref(i, c) \in Refs /\ Ref(i, c).input = i /\ Ref(i, c).key = peek_key(c) /\ Whole(Ref(i, c))
  BY RefIs DEF Refs
<1>2. PICK r \in Refs : r = Ref(i, c)
  BY <1>1
<1>3. << r >> \in Seq(Refs) /\ Len(<< r >>) = 1 /\ << r >>[1] = r
  OBVIOUS
<1>4. \A j \in 1 .. 1 : j = 1
  OBVIOUS
<1> QED
  BY <1>1, <1>2, <1>3, <1>4 DEF Containers

\* The containers under the cursors c of the inputs of h.
Each(h, c) == [j \in DOMAIN h |-> Ref(h[j], c[h[j]])]

LEMMA ManyContainers ==
  ASSUME InputsOK, NEW h, Visits(h), NEW c, NEW key,
         \A j \in 1 .. Len(h) : /\ CursorOK(c[h[j]]) /\ c[h[j]].at = ins[h[j]].at
                                /\ peek_key(c[h[j]]) = key /\ key # END
  PROVE  Containers(Each(h, c), {h[j] : j \in 1 .. Len(h)}, key)
<1> DEFINE refs == [j \in DOMAIN h |-> Ref(h[j], c[h[j]])]
<1>1. /\ h \in Seq(N) /\ Len(h) \in Nat /\ DOMAIN h = 1 .. Len(h)
      /\ \A p, q \in 1 .. Len(h) : h[p] = h[q] => p = q
      /\ \A p \in 1 .. Len(h) : h[p] \in N
  BY ElementOfSeq, LenProperties DEF Visits
<1>2. ASSUME NEW j \in 1 .. Len(h)
      PROVE  /\ Ref(h[j], c[h[j]]) \in Refs /\ Ref(h[j], c[h[j]]).input = h[j]
             /\ Ref(h[j], c[h[j]]).key = key /\ Whole(Ref(h[j], c[h[j]]))
  BY <1>1, RefIs DEF Refs
<1>3. /\ \A j \in 1 .. Len(h) : /\ refs[j] \in Refs /\ refs[j].input = h[j]
                                /\ refs[j].key = key /\ Whole(refs[j])
      /\ refs = [j \in 1 .. Len(h) |-> refs[j]]
  BY <1>1, <1>2
<1> HIDE DEF refs
<1>4. refs \in [1 .. Len(h) -> Refs]
  BY <1>3
<1>5. refs \in Seq(Refs) /\ Len(refs) = Len(h)
  BY <1>1, <1>4, FunIsSeq
<1>6. Containers(refs, {h[j] : j \in 1 .. Len(h)}, key)
  BY <1>1, <1>3, <1>5 DEF Containers
<1> QED
  BY <1>6 DEF refs, Each

LEMMA OneThenMany ==
  ASSUME NEW r, NEW a, NEW refs, NEW I, NEW key, a \notin I,
         Containers(<< r >>, {a}, key), Containers(refs, I, key)
  PROVE  /\ Containers(<< r >> \o refs, {a} \cup I, key)
         /\ (<< r >> \o refs)[1].input = a /\ Len(<< r >> \o refs) = Len(refs) + 1
<1>1. /\ << r >> \in Seq(Refs) /\ Len(<< r >>) = 1 /\ << r >>[1] = r /\ r.input = a /\ r.key = key /\ Whole(r) /\ r \in Refs
  <2>1. Len(<< r >>) = 1 /\ << r >>[1] = r /\ 1 \in 1 .. 1
    OBVIOUS
  <2> QED
    BY <2>1, ElementOfSeq DEF Containers
<1>2. /\ refs \in Seq(Refs) /\ Len(refs) \in Nat
      /\ \A j \in 1 .. Len(refs) : refs[j].key = key /\ Whole(refs[j]) /\ refs[j].input \in I
      /\ \A i, j \in 1 .. Len(refs) : refs[i].input = refs[j].input => i = j
      /\ \A i \in I : \E j \in 1 .. Len(refs) : refs[j].input = i
  BY LenProperties DEF Containers
<1> DEFINE all == << r >> \o refs
<1>3. all \in Seq(Refs) /\ Len(all) = Len(refs) + 1 /\ all[1] = r
  BY <1>1, <1>2, ConcatProperties
<1>4. \A j \in 2 .. Len(refs) + 1 : j - 1 \in 1 .. Len(refs) /\ all[j] = refs[j - 1]
  BY <1>1, <1>2, ConcatProperties
<1> HIDE DEF all
<1>5. \A j \in 1 .. Len(refs) + 1 : j = 1 \/ j \in 2 .. Len(refs) + 1
  BY <1>2
<1>6. \A j \in 1 .. Len(refs) : j + 1 \in 2 .. Len(refs) + 1 /\ j + 1 \in 1 .. Len(refs) + 1 /\ (j + 1) - 1 = j
  BY <1>2
<1>7. \A j \in 1 .. Len(all) : all[j].key = key /\ Whole(all[j]) /\ all[j].input \in {a} \cup I
  BY <1>1, <1>2, <1>3, <1>4, <1>5
<1>8. ASSUME NEW i \in 1 .. Len(all), NEW j \in 1 .. Len(all), all[i].input = all[j].input PROVE i = j
  <2>1. (i = 1 \/ i \in 2 .. Len(refs) + 1) /\ (j = 1 \/ j \in 2 .. Len(refs) + 1)
    BY <1>3, <1>5
  <2>2. CASE i = 1 /\ j = 1
    BY <2>2
  <2>3. CASE i = 1 /\ j # 1
    <3>1. all[j].input \in I
      BY <1>2, <1>4, <2>1, <2>3
    <3> QED
      BY <1>1, <1>3, <1>8, <2>3, <3>1
  <2>4. CASE i # 1 /\ j = 1
    <3>1. all[i].input \in I
      BY <1>2, <1>4, <2>1, <2>4
    <3> QED
      BY <1>1, <1>3, <1>8, <2>4, <3>1
  <2>5. CASE i # 1 /\ j # 1
    <3>1. i - 1 = j - 1
      BY SMTT(30), <1>2, <1>4, <1>8, <2>1, <2>5
    <3> QED
      BY <1>2, <2>1, <2>5, <3>1
  <2> QED
    BY <2>2, <2>3, <2>4, <2>5
<1>9. {all[j].input : j \in 1 .. Len(all)} = {a} \cup I
  <2>1. 1 \in 1 .. Len(all)
    BY <1>2, <1>3
  <2>2. ASSUME NEW i \in I PROVE \E j \in 1 .. Len(all) : all[j].input = i
    <3>1. PICK j \in 1 .. Len(refs) : refs[j].input = i
      BY <1>2
    <3>2. all[j + 1].input = i /\ j + 1 \in 1 .. Len(all)
      BY <1>3, <1>4, <1>6, <3>1
    <3> QED
      BY <3>2
  <2> QED
    BY <1>1, <1>3, <1>7, <2>1, <2>2
<1>10. Containers(all, {a} \cup I, key)
  BY <1>3, <1>7, <1>8, <1>9 DEF Containers
<1> QED
  BY <1>1, <1>3, <1>10 DEF all

\* One step of a fold that hands over: containers still missing at a slot, above
\* all that were handed over of the same inputs; a difference's minuend first.
HandOver(s, refs, I) ==
  /\ phase = "fold" /\ UNCHANGED folding
  /\ s \in DOMAIN slots \ emptied
  /\ Containers(refs, I, slots[s].key)
  /\ handed' = [handed EXCEPT ![s] = @ \o refs]
  /\ I # {} /\ I \subseteq WantedAt(slots[s].key) \ Given(s)
  /\ \A t \in DOMAIN slots : I \cap Given(t) # {} => slots[t].key < slots[s].key
  /\ op = "Intersect" => I = N
  /\ op = "Diff" /\ Given(s) = {} => refs[1].input = 1
  /\ \/ UNCHANGED emptied
     \/ /\ op = "Diff" /\ major = "partner" /\ Len(handed[s]) + Len(refs) > 1
        /\ emptied' = emptied \cup {s}

LEMMA HandOverIs ==
  ASSUME WalkInv, NEW s, NEW refs, NEW I, HandOver(s, refs, I)
  PROVE  /\ HandedOK' /\ DOMAIN handed' = DOMAIN slots'
         /\ handed' \in Seq(Seq([input : N', key : Keys, from : Nat, upto : Nat]))
         /\ emptied' \subseteq DOMAIN slots' /\ (emptied' # {} => op' = "Diff" /\ major' = "partner")
         /\ \A t \in DOMAIN slots : Given(t)' = IF t = s THEN Given(s) \cup I ELSE Given(t)
<1>1. /\ phase = "fold" /\ UNCHANGED << op, route, ins, live, phase, order, major, slots >>
      /\ s \in DOMAIN slots /\ s \notin emptied
      /\ Containers(refs, I, slots[s].key)
      /\ handed' = [handed EXCEPT ![s] = @ \o refs]
      /\ I # {} /\ I \subseteq WantedAt(slots[s].key) \ Given(s)
      /\ op = "Intersect" => I = N
      /\ op = "Diff" /\ Given(s) = {} => refs[1].input = 1
      /\ \/ emptied' = emptied
         \/ /\ op = "Diff" /\ major = "partner" /\ Len(handed[s]) + Len(refs) > 1
            /\ emptied' = emptied \cup {s}
  BY DEF HandOver, folding, inputs
<1>2. /\ handed \in Seq(Seq(Refs)) /\ DOMAIN handed = DOMAIN slots
      /\ emptied \subseteq DOMAIN slots /\ (emptied # {} => op = "Diff" /\ major = "partner")
  BY <1>1 DEF WalkInv, ShapeOK, Refs
<1>3. N' = N /\ \A k : WantedAt(k)' = WantedAt(k)
  BY <1>1, SameInputs DEF inputs
<1>4. \A r : Whole(r)' = Whole(r)
  BY <1>1, SameInputs DEF inputs
<1>5. Len(handed) \in Nat /\ DOMAIN handed = 1 .. Len(handed) /\ \A t \in DOMAIN handed : handed[t] \in Seq(Refs)
  BY <1>2, ElementOfSeq, LenProperties
<1> DEFINE old == handed[s]
           new == old \o refs
<1>6. /\ old \in Seq(Refs) /\ Len(old) \in Nat /\ DOMAIN old = 1 .. Len(old)
      /\ refs \in Seq(Refs) /\ Len(refs) \in Nat
  BY <1>1, <1>2, <1>5, LenProperties DEF Containers
<1>7. /\ new \in Seq(Refs) /\ Len(new) = Len(old) + Len(refs) /\ DOMAIN new = 1 .. Len(old) + Len(refs)
      /\ \A j \in 1 .. Len(old) : new[j] = old[j]
      /\ \A j \in Len(old) + 1 .. Len(old) + Len(refs) : new[j] = refs[j - Len(old)]
  BY <1>6, ConcatProperties, LenProperties
<1> HIDE DEF new
<1>8. /\ DOMAIN handed' = DOMAIN handed /\ handed'[s] = new
      /\ \A t \in DOMAIN handed : t # s => handed'[t] = handed[t]
  BY <1>1, <1>2 DEF new
<1>9. handed' \in Seq(Seq(Refs))
  <2>1. handed' \in [1 .. Len(handed) -> Seq(Refs)]
    <3>1. handed' = [t \in 1 .. Len(handed) |-> handed'[t]]
      BY <1>1, <1>5
    <3>2. \A t \in 1 .. Len(handed) : handed'[t] \in Seq(Refs)
      BY <1>5, <1>7, <1>8
    <3> QED
      BY <3>1, <3>2
  <2> QED
    BY <1>5, <2>1, FunIsSeq
<1>10. /\ \A j \in 1 .. Len(refs) : refs[j].key = slots[s].key /\ Whole(refs[j]) /\ refs[j].input \in I
       /\ \A i, j \in 1 .. Len(refs) : refs[i].input = refs[j].input => i = j
       /\ \A i \in I : \E j \in 1 .. Len(refs) : refs[j].input = i
  BY <1>1 DEF Containers
<1>11. /\ \A j \in 1 .. Len(old) : old[j].key = slots[s].key /\ Whole(old[j]) /\ old[j].input \in Given(s)
       /\ \A i, j \in 1 .. Len(old) : old[i].input = old[j].input => i = j
       /\ \A i \in Given(s) : \E j \in 1 .. Len(old) : old[j].input = i
  BY <1>1, <1>2, <1>6 DEF WalkInv, HandedOK, Given
<1>12. \A j \in DOMAIN new : \/ j \in 1 .. Len(old)
                             \/ /\ j \in Len(old) + 1 .. Len(old) + Len(refs) /\ j \notin 1 .. Len(old)
                                /\ j - Len(old) \in 1 .. Len(refs)
  BY <1>6, <1>7
<1>13. \A j \in 1 .. Len(refs) : /\ Len(old) + j \in Len(old) + 1 .. Len(old) + Len(refs)
                                 /\ Len(old) + j \in 1 .. Len(old) + Len(refs)
                                 /\ (Len(old) + j) - Len(old) = j
  BY <1>6
<1>14. \A j \in 1 .. Len(old) : j \in DOMAIN new
  BY <1>6, <1>7
<1>15. \A j \in DOMAIN new : new[j].key = slots[s].key /\ Whole(new[j]) /\ new[j].input \in Given(s) \cup I
  BY <1>7, <1>10, <1>11, <1>12
<1>16. \A i \in Given(s) \cup I : \E j \in DOMAIN new : new[j].input = i
  <2>1. ASSUME NEW i \in Given(s) PROVE \E j \in DOMAIN new : new[j].input = i
    <3>1. PICK j \in 1 .. Len(old) : old[j].input = i
      BY <1>11
    <3> QED
      BY <1>7, <1>14, <3>1
  <2>2. ASSUME NEW i \in I PROVE \E j \in DOMAIN new : new[j].input = i
    <3>1. PICK j \in 1 .. Len(refs) : refs[j].input = i
      BY <1>10
    <3>2. Len(old) + j \in DOMAIN new /\ new[Len(old) + j] = refs[j]
      BY <1>7, <1>13
    <3> QED
      BY <3>1, <3>2
  <2> QED
    BY <2>1, <2>2
<1>17. ASSUME NEW i \in DOMAIN new, NEW j \in DOMAIN new, new[i].input = new[j].input PROVE i = j
  <2>1. CASE i \in 1 .. Len(old) /\ j \in 1 .. Len(old)
    BY <1>7, <1>11, <1>17, <2>1
  <2>2. CASE i \in 1 .. Len(old) /\ j \notin 1 .. Len(old)
    <3>1. new[i].input \in Given(s) /\ new[j].input \in I
      BY SMTT(30), <1>7, <1>10, <1>11, <1>12, <2>2
    <3> QED
      BY <1>1, <1>17, <3>1
  <2>3. CASE i \notin 1 .. Len(old) /\ j \in 1 .. Len(old)
    <3>1. new[j].input \in Given(s) /\ new[i].input \in I
      BY <1>7, <1>10, <1>11, <1>12, <2>3
    <3> QED
      BY <1>1, <1>17, <3>1
  <2>4. CASE i \notin 1 .. Len(old) /\ j \notin 1 .. Len(old)
    <3>1. i - Len(old) \in 1 .. Len(refs) /\ j - Len(old) \in 1 .. Len(refs)
      BY <1>12, <2>4
    <3>2. new[i] = refs[i - Len(old)] /\ new[j] = refs[j - Len(old)]
      BY <1>7, <1>12, <2>4
    <3>3. i - Len(old) = j - Len(old)
      BY <1>10, <1>17, <3>1, <3>2
    <3>4. i \in Nat /\ j \in Nat
      BY <1>6, <1>7
    <3> QED
      BY <1>6, <3>3, <3>4
  <2> QED
    BY <2>1, <2>2, <2>3, <2>4
<1>18. Given(s)' = Given(s) \cup I
  <2>1. Given(s)' = {new[j].input : j \in DOMAIN new}
    BY <1>8 DEF Given
  <2> QED
    BY <1>15, <1>16, <2>1
<1>19. \A t \in DOMAIN slots : t # s => Given(t)' = Given(t)
  BY <1>2, <1>8 DEF Given
<1>20. HandedOK'
  <2> SUFFICES ASSUME NEW t \in DOMAIN handed
               PROVE  /\ \A j \in DOMAIN handed'[t] : /\ handed'[t][j].key = slots[t].key
                                                      /\ Whole(handed'[t][j])
                      /\ \A i, j \in DOMAIN handed'[t] : handed'[t][i].input = handed'[t][j].input => i = j
                      /\ Given(t)' \subseteq WantedAt(slots[t].key)
                      /\ op = "Intersect" => Given(t)' \in {{}, N}
                      /\ op = "Diff" /\ Given(t)' # {} => 1 \in Given(t)'
                      /\ t \in emptied' => Len(handed'[t]) > 1
    BY <1>1, <1>3, <1>4, <1>8 DEF HandedOK
  <2>1. /\ \A j \in DOMAIN handed[t] : handed[t][j].key = slots[t].key /\ Whole(handed[t][j])
        /\ \A i, j \in DOMAIN handed[t] : handed[t][i].input = handed[t][j].input => i = j
        /\ Given(t) \subseteq WantedAt(slots[t].key)
        /\ op = "Intersect" => Given(t) \in {{}, N}
        /\ op = "Diff" /\ Given(t) # {} => 1 \in Given(t)
        /\ t \in emptied => Len(handed[t]) > 1
    BY DEF WalkInv, HandedOK
  <2>2. CASE t # s
    <3>1. handed'[t] = handed[t] /\ Given(t)' = Given(t) /\ (t \in emptied' => t \in emptied)
      BY <1>1, <1>2, <1>8, <1>19, <2>2
    <3> QED
      BY <2>1, <3>1
  <2>3. CASE t = s
    <3>1. handed'[t] = new /\ Given(t)' = Given(s) \cup I
      BY <1>8, <1>18, <2>3
    <3>2. op = "Intersect" => Given(s) \cup I = N
      <4>1. WantedAt(slots[s].key) \subseteq N
        BY WantedFacts DEF WalkInv
      <4> QED
        BY <1>1, <2>1, <2>3, <4>1
    <3>3. op = "Diff" => 1 \in Given(s) \cup I
      <4>1. CASE Given(s) # {}
        BY <2>1, <2>3, <4>1
      <4>2. CASE Given(s) = {}
        <5>1. Len(refs) # 0
          BY <1>1, <1>6, <1>10
        <5>2. 1 \in 1 .. Len(refs)
          BY <1>6, <5>1
        <5> QED
          BY <1>1, <1>10, <4>2, <5>2
      <4> QED
        BY <4>1, <4>2
    <3>4. t \in emptied' => Len(new) > 1
      BY <1>1, <1>7, <2>3
    <3>5. Given(s) \cup I \subseteq WantedAt(slots[s].key)
      BY <1>1, <2>1, <2>3
    <3>6. \A j \in DOMAIN new : new[j].key = slots[t].key /\ Whole(new[j])
      BY <1>15, <2>3
    <3> QED
      BY <1>17, <2>3, <3>1, <3>2, <3>3, <3>4, <3>5, <3>6
  <2> QED
    BY <2>2, <2>3
<1>21. emptied' \subseteq DOMAIN slots' /\ (emptied' # {} => op' = "Diff" /\ major' = "partner")
  BY <1>1, <1>2
<1>22. DOMAIN handed' = DOMAIN slots' /\ handed' \in Seq(Seq([input : N', key : Keys, from : Nat, upto : Nat]))
  BY <1>1, <1>2, <1>3, <1>8, <1>9 DEF Refs
<1> QED
  BY <1>18, <1>19, <1>20, <1>21, <1>22

\* What a step of a fold has to keep.
LEMMA FoldingKeeps ==
  ASSUME WalkInv, phase = "fold", UNCHANGED folding,
         CursorsOK', HandedOK', DOMAIN handed' = DOMAIN slots',
         handed' \in Seq(Seq([input : N', key : Keys, from : Nat, upto : Nat])),
         emptied' \subseteq DOMAIN slots', emptied' # {} => op' = "Diff" /\ major' = "partner",
         pass' \in 1 .. Len(ins) + 1 \cup {3}, major = "key" => pass' = 1,
         next_slot' \in 1 .. Len(slots) + 1,
         KeyMajorInv', UnionPassInv', DiffPassInv'
  PROVE  WalkInv'
<1>1. UNCHANGED << op, route, ins, live, phase, order, major, slots >>
  BY DEF folding, inputs
<1>2. /\ N' = N /\ foretold' = foretold /\ held' = held /\ fold_order' = fold_order
      /\ PlannedByMerge' = PlannedByMerge /\ plan_order' = plan_order
      /\ \A k : WantedAt(k)' = WantedAt(k)
      /\ InputsOK'
  BY <1>1, SameInputs DEF WalkInv, inputs
<1>3. OrderOK'
  BY <1>1, <1>2 DEF WalkInv, OrderOK
<1>4. ShapeOK'
  <2>1. Len(slots) \in Nat
    BY SlotTypes DEF WalkInv, ShapeOK
  <2>2. next_slot' \in Nat \ {0} /\ next_slot' <= Len(slots') + 1
    BY <1>1, <2>1
  <2>3. /\ slots \in Seq([key : Keys, who : SUBSET N]) /\ major \in {"key", "partner"}
        /\ major = "partner" => op # "Intersect"
    BY DEF WalkInv, ShapeOK
  <2>4. slots' \in Seq([key : Keys, who : SUBSET N']) /\ pass' \in 1 .. Len(ins') + 1 \cup {3}
    BY <1>1, <1>2, <2>3
  <2> QED
    BY <1>1, <2>2, <2>3, <2>4 DEF ShapeOK
<1>5. LaidOut'
  <2>1. SlotKeys' = SlotKeys /\ (Ascending => Ascending')
    BY <1>1, SameKeys
  <2>2. \A s : (Roomy(s) => Roomy(s)') /\ (Sized(s) => Sized(s)')
    BY <1>1, <1>2 DEF Roomy, Sized, At
  <2>3. Planful' = Planful
    BY <1>1, <1>2 DEF Planful, At
  <2> QED
    BY <1>1, <1>2, <2>1, <2>2, <2>3 DEF WalkInv, LaidOut
<1>6. PlanInv' /\ ObserveInv'
  BY <1>1 DEF PlanInv, ObserveInv
<1> QED
  BY <1>2, <1>3, <1>4, <1>5, <1>6 DEF WalkInv

----------------------------------------------------------------------------
\* Folding key by key.

Handing == \E s, refs, I : HandOver(s, refs, I)

\* A turn at a key: nothing is wanted there, or all of it is handed over.
LEMMA KeyTurn ==
  ASSUME WalkInv, phase = "fold", major = "key", UNCHANGED << folding, pass, emptied >>, CursorsOK',
         NEW d \in 0 .. KeyCount, KeyMajorAt(d),
         NEW key \in Keys, key >= d, \A k \in Keys : k >= d /\ k < key => WantedAt(k) = {},
         IF op = "Union" THEN Level(held, key + 1)' ELSE Driven(held, key + 1)',
         \/ WantedAt(key) = {} /\ UNCHANGED << next_slot, handed >>
         \/ \E refs : /\ WantedAt(key) # {} /\ Containers(refs, WantedAt(key), key)
                      /\ op = "Diff" => refs[1].input = 1
                      /\ next_slot' = claim_key(key) + 1
                      /\ Hand(claim_key(key), refs)
  PROVE  WalkInv' /\ (Handing \/ UNCHANGED handed)
<1>1. UNCHANGED << op, route, ins, live, phase, order, major, slots, pass, emptied >>
  BY DEF folding, inputs
<1>2. /\ N' = N /\ held' = held /\ \A k : WantedAt(k)' = WantedAt(k)
  BY <1>1, SameInputs DEF inputs
<1>3. /\ InputsOK /\ slots \in Seq([key : Keys, who : SUBSET N])
      /\ DOMAIN handed = DOMAIN slots /\ handed \in Seq(Seq([input : N, key : Keys, from : Nat, upto : Nat]))
      /\ emptied = {} /\ pass = 1
      /\ next_slot \in Nat \ {0} /\ next_slot <= Len(slots) + 1
      /\ Ascending /\ \A k \in Keys : WantedAt(k) # {} => k \in SlotKeys
  BY DEF WalkInv, ShapeOK, LaidOut
<1>4. /\ Len(slots) \in Nat /\ DOMAIN slots = 1 .. Len(slots) /\ next_slot \in 1 .. Len(slots) + 1
      /\ \A s \in DOMAIN slots : slots[s].key \in Keys /\ slots[s].key \in Nat
  BY <1>3, SlotTypes
<1>5. d \in Nat /\ key \in Nat /\ key + 1 \in 0 .. KeyCount /\ \A k \in Keys : k \in Nat
  BY KeysAre
<1>6. /\ \A s \in DOMAIN slots : s < next_slot => slots[s].key < d
      /\ \A s \in DOMAIN slots :
           Given(s) = IF slots[s].key < d THEN WantedAt(slots[s].key) ELSE {}
  BY DEF KeyMajorAt, Below
<1>7. ASSUME NEW s \in DOMAIN slots, slots[s].key # key
      PROVE  Given(s) = IF slots[s].key < key + 1 THEN WantedAt(slots[s].key) ELSE {}
  <2>1. CASE slots[s].key < d
    BY <1>4, <1>5, <1>6, <2>1
  <2>2. CASE slots[s].key >= d /\ slots[s].key < key
    BY <1>4, <1>5, <1>6, <2>2
  <2>3. CASE slots[s].key > key
    BY <1>4, <1>5, <1>6, <2>3
  <2> QED
    BY <1>4, <1>5, <1>7, <2>1, <2>2, <2>3
<1>8. ASSUME next_slot' \in 1 .. Len(slots) + 1, HandedOK', DOMAIN handed' = DOMAIN slots',
             handed' \in Seq(Seq([input : N', key : Keys, from : Nat, upto : Nat])),
             \A s \in DOMAIN slots : s < next_slot' => slots[s].key < key + 1,
             \A s \in DOMAIN slots :
               Given(s)' = IF slots[s].key < key + 1 THEN WantedAt(slots[s].key) ELSE {}
      PROVE  WalkInv'
  <2>1. KeyMajorAt(key + 1)'
    BY <1>1, <1>2, <1>8 DEF KeyMajorAt, Below
  <2>2. KeyMajorInv'
    BY <1>5, <2>1 DEF KeyMajorInv
  <2>3. UnionPassInv' /\ DiffPassInv'
    BY <1>1 DEF UnionPassInv, DiffPassInv
  <2>4. pass' \in 1 .. Len(ins) + 1 \cup {3}
    BY <1>1 DEF WalkInv, ShapeOK
  <2>5. emptied' \subseteq DOMAIN slots' /\ (emptied' # {} => op' = "Diff" /\ major' = "partner")
    BY <1>1, <1>3
  <2> QED
    BY <1>1, <1>3, <1>8, <2>2, <2>3, <2>4, <2>5, FoldingKeeps
<1>9. CASE WantedAt(key) = {} /\ UNCHANGED << next_slot, handed >>
  <2>1. \A s \in DOMAIN slots : Given(s)' = Given(s)
    BY <1>9 DEF Given
  <2>2. ASSUME NEW s \in DOMAIN slots
        PROVE  Given(s)' = IF slots[s].key < key + 1 THEN WantedAt(slots[s].key) ELSE {}
    <3>1. CASE slots[s].key = key
      BY <1>5, <1>6, <1>9, <2>1, <3>1
    <3> QED
      BY <1>7, <2>1, <3>1
  <2>3. HandedOK'
    BY <1>1, <1>2, <1>3, <1>9, <2>1, SameInputs DEF WalkInv, HandedOK, inputs
  <2>4. \A s \in DOMAIN slots : s < next_slot' => slots[s].key < key + 1
    BY <1>4, <1>5, <1>6, <1>9
  <2>5. DOMAIN handed' = DOMAIN slots' /\ handed' \in Seq(Seq([input : N', key : Keys, from : Nat, upto : Nat]))
    BY <1>1, <1>2, <1>3, <1>9
  <2> QED
    BY <1>4, <1>8, <1>9, <2>2, <2>3, <2>4, <2>5
<1>10. ASSUME NEW refs, WantedAt(key) # {}, Containers(refs, WantedAt(key), key),
              op = "Diff" => refs[1].input = 1,
              next_slot' = claim_key(key) + 1, Hand(claim_key(key), refs)
       PROVE  WalkInv' /\ Handing
  <2>1. PICK s : s = slot_for(next_slot, key)
    OBVIOUS
  <2>2. key \in SlotKeys
    BY <1>3, <1>10
  <2>3. \A t \in DOMAIN slots : t < next_slot => slots[t].key < key
    BY <1>4, <1>5, <1>6
  <2>4. /\ s \in DOMAIN slots /\ slots[s].key = key /\ s \in Nat
        /\ \A t \in DOMAIN slots : t < s => slots[t].key < key
        /\ \A t \in DOMAIN slots : slots[t].key = key => t = s
    BY <1>3, <1>4, <2>1, <2>2, <2>3, SlotFound
  <2>5. next_slot' = s + 1 /\ handed' = [handed EXCEPT ![s] = @ \o refs]
    BY <1>10, <2>1, <2>4 DEF claim_key, Hand
  <2>6. Given(s) = {}
    BY <1>4, <1>5, <1>6, <2>4
  <2>7. ASSUME NEW t \in DOMAIN slots, WantedAt(key) \cap Given(t) # {} PROVE slots[t].key < slots[s].key
    <3>1. slots[t].key < d
      BY <1>6, <2>7
    <3> QED
      BY <1>4, <1>5, <2>4, <3>1
  <2>8. op = "Intersect" => WantedAt(key) = N
    BY <1>3, <1>10, WantedFacts
  <2>9. HandOver(s, refs, WantedAt(key))
    BY <1>1, <1>3, <1>10, <2>4, <2>5, <2>6, <2>7, <2>8 DEF HandOver
  <2>10. /\ HandedOK' /\ DOMAIN handed' = DOMAIN slots'
         /\ handed' \in Seq(Seq([input : N', key : Keys, from : Nat, upto : Nat]))
         /\ \A t \in DOMAIN slots : Given(t)' = IF t = s THEN Given(s) \cup WantedAt(key) ELSE Given(t)
    BY <2>9, HandOverIs
  <2>11. ASSUME NEW t \in DOMAIN slots
         PROVE  Given(t)' = IF slots[t].key < key + 1 THEN WantedAt(slots[t].key) ELSE {}
    <3>1. CASE t = s
      BY <1>5, <2>4, <2>6, <2>10, <3>1
    <3>2. CASE t # s
      BY <1>7, <2>4, <2>10, <3>2
    <3> QED
      BY <3>1, <3>2
  <2>12. ASSUME NEW t \in DOMAIN slots, t < s + 1 PROVE slots[t].key < key + 1
    <3>1. t < s \/ t = s
      BY <1>4, <2>4, <2>12
    <3> QED
      BY <1>4, <1>5, <2>4, <3>1
  <2>13. next_slot' \in 1 .. Len(slots) + 1
    BY <1>4, <2>4, <2>5
  <2>14. WalkInv'
    BY <1>8, <2>5, <2>10, <2>11, <2>12, <2>13
  <2> QED
    BY <2>9, <2>14 DEF Handing
<1> QED
  BY <1>9, <1>10

\* Where a key-major fold is, before it turns.
LEMMA KeyMajorFacts ==
  ASSUME WalkInv, phase = "fold"
  PROVE  /\ InputsOK /\ CursorsOK /\ Ready
         /\ \A i \in N : /\ cur[i].live = live /\ cur[i].at = ins[i].at
                         /\ Rest(cur[i]) \subseteq held[i] /\ Rest(cur[i]) \subseteq Keys
                         /\ held[i] \subseteq Keys /\ held[i] \subseteq live
         /\ \A k \in Keys : k \in Nat
         /\ ins # << >> => /\ order = fold_order /\ Visits(order) /\ Everywhere(order) /\ order # << >>
                           /\ order[1] \in N /\ Len(order) \in Nat /\ (op = "Diff" => order[1] = 1)
         /\ ins = << >> => order = << >>
         /\ major = "key" => \E d \in 0 .. KeyCount : KeyMajorAt(d)
<1>1. InputsOK /\ CursorsOK
  BY DEF WalkInv
<1>2. /\ Ready
      /\ \A i \in N : /\ cur[i].live = live /\ cur[i].at = ins[i].at
                      /\ Rest(cur[i]) \subseteq held[i] /\ Rest(cur[i]) \subseteq Keys
  BY <1>1, CursorsAre
<1>3. \A i \in N : held[i] \subseteq foretold[i] /\ foretold[i] \subseteq Keys /\ held[i] \subseteq live
  BY <1>1, SourceFacts
<1>4. order = IF ins = << >> THEN << >> ELSE fold_order
  BY DEF WalkInv, OrderOK
<1>5. ins # << >> => /\ order = fold_order /\ Visits(order) /\ Everywhere(order) /\ order # << >>
                     /\ order[1] \in N /\ Len(order) \in Nat /\ (op = "Diff" => order[1] = 1)
  BY <1>1, <1>4, FoldOrderIs
<1>6. major = "key" => \E d \in 0 .. KeyCount : KeyMajorAt(d)
  BY DEF WalkInv, KeyMajorInv
<1> QED
  BY <1>1, <1>2, <1>3, <1>4, <1>5, <1>6, KeysAre

LEMMA UnionKeyKeeps ==
  ASSUME WalkInv, UnionKey
  PROVE  WalkInv' /\ (Handing \/ UNCHANGED handed)
<1>1. phase = "fold" /\ op = "Union" /\ major = "key" /\ min_key(cur) # END
  BY DEF UnionKey
<1>2. /\ InputsOK /\ CursorsOK /\ Ready
      /\ \A i \in N : /\ cur[i].at = ins[i].at
                      /\ Rest(cur[i]) \subseteq held[i] /\ Rest(cur[i]) \subseteq Keys
                      /\ held[i] \subseteq Keys
      /\ \A k \in Keys : k \in Nat
      /\ ins # << >> => Visits(order) /\ Everywhere(order)
      /\ \E d \in 0 .. KeyCount : KeyMajorAt(d)
  BY <1>1, KeyMajorFacts
<1>3. PICK d \in 0 .. KeyCount : KeyMajorAt(d)
  BY <1>2
<1>4. PICK key \in Keys : key = min_key(cur)
  BY <1>1, <1>2, MergeIs
<1>5. /\ key # END /\ key \in Nat /\ d \in Nat
      /\ \A i \in N : \A k \in Rest(cur[i]) : key <= k
      /\ holders = {i \in N : key \in Rest(cur[i])} /\ holders # {}
      /\ \A i \in holders : peek_key(cur[i]) = key
  BY <1>1, <1>2, <1>4, MergeIs, KeysAre
<1>6. \A i \in N : Rest(cur[i]) = {k \in held[i] : k >= d}
  BY <1>1, <1>3 DEF KeyMajorAt, Level
<1>7. PICK i0 \in N : key \in Rest(cur[i0])
  BY <1>5
<1>8. key >= d
  BY <1>6, <1>7
<1>9. \A k \in Keys : WantedAt(k) = {i \in N : k \in held[i]}
  BY <1>1, <1>2, WantedFacts DEF At
<1>10. holders = WantedAt(key)
  BY <1>5, <1>6, <1>8, <1>9
<1>11. ASSUME NEW k \in Keys, k >= d, k < key PROVE WantedAt(k) = {}
  <2> SUFFICES ASSUME NEW i \in N, k \in held[i] PROVE FALSE
    BY <1>9
  <2>1. k \in Rest(cur[i])
    BY <1>6, <1>11
  <2>2. key <= k /\ k \in Nat
    BY <1>2, <1>5, <2>1
  <2> QED
    BY <1>5, <1>11, <2>2
<1>12. /\ UNCHANGED << folding, pass, emptied >> /\ cur' = merged_cursors
       /\ next_slot' = claim_key(key) + 1
       /\ Hand(claim_key(key), [j \in DOMAIN kept(order, holders) |->
                                  Ref(kept(order, holders)[j], cur[kept(order, holders)[j]])])
  BY <1>4 DEF UnionKey
<1>13. /\ DOMAIN cur' = N /\ cur' = [i \in N |-> cur'[i]]
       /\ \A i \in N : CursorOK(cur'[i]) /\ Alike(cur'[i], cur[i]) /\ Rest(cur'[i]) = Rest(cur[i]) \ {key}
  BY <1>2, <1>4, <1>12, MergedIs
<1>14. CursorsOK'
  BY <1>1, <1>2, <1>12, <1>13, CursorsStay DEF folding
<1>15. Level(held, key + 1)'
  <2>1. N' = N /\ held' = held
    BY <1>12, SameInputs DEF folding
  <2> SUFFICES ASSUME NEW i \in N PROVE Rest(cur'[i]) = {k \in held[i] : k >= key + 1}
    BY <2>1 DEF Level
  <2>2. ASSUME NEW k \in held[i] PROVE k \in Rest(cur[i]) /\ k # key <=> k >= key + 1
    <3>1. k \in Nat
      BY <1>2
    <3>2. k \in Rest(cur[i]) => k >= key
      BY <1>5
    <3>3. k >= key + 1 => k >= d
      BY <1>5, <1>8, <3>1
    <3> QED
      BY <1>5, <1>6, <3>1, <3>2, <3>3
  <2> QED
    BY <1>2, <1>13, <2>2
<1>16. Containers([j \in DOMAIN kept(order, holders) |->
                     Ref(kept(order, holders)[j], cur[kept(order, holders)[j]])], WantedAt(key), key)
  <2> DEFINE h == kept(order, holders)
  <2>1. Visits(order) /\ Everywhere(order)
    BY <1>2, <1>7, InputFacts
  <2>2. /\ Visits(h)
        /\ \A i : (\E j \in 1 .. Len(h) : h[j] = i) <=> i \in holders /\ \E p \in 1 .. Len(order) : order[p] = i
    BY <2>1, KeptIs
  <2> HIDE DEF h
  <2>3. holders \subseteq N
    BY DEF holders
  <2>4. {h[j] : j \in 1 .. Len(h)} = holders
    BY <2>1, <2>2, <2>3 DEF Everywhere
  <2>5. \A j \in 1 .. Len(h) : h[j] \in holders /\ h[j] \in N
    BY <2>3, <2>4
  <2>6. \A j \in 1 .. Len(h) : /\ CursorOK(cur[h[j]]) /\ cur[h[j]].at = ins[h[j]].at
                               /\ peek_key(cur[h[j]]) = key /\ key # END
    BY <1>2, <1>5, <2>5 DEF Ready
  <2>7. Containers(Each(h, cur), {h[j] : j \in 1 .. Len(h)}, key)
    BY <1>2, <2>2, <2>6, ManyContainers
  <2> QED
    BY <1>10, <2>4, <2>7 DEF h, Each
<1>17. WantedAt(key) # {} /\ op # "Diff"
  BY <1>1, <1>5, <1>10
<1>18. IF op = "Union" THEN Level(held, key + 1)' ELSE Driven(held, key + 1)'
  BY <1>1, <1>15
<1> QED
  BY <1>1, <1>3, <1>8, <1>11, <1>12, <1>14, <1>16, <1>17, <1>18, KeyTurn

DriverRefs(p) == << Ref(order[1], cur[order[1]]) >> \o Each(p.hits, p.cur)

\* A driven turn hands over the driver's container and those of the inputs told
\* to be at its key, and leaves the cursors ready for the next one.
LEMMA DriverHands ==
  ASSUME WalkInv, phase = "fold", major = "key", op \in {"Intersect", "Diff"}, driver_key # END,
         NEW d \in 0 .. KeyCount, KeyMajorAt(d),
         NEW key, key = driver_key, NEW stops, NEW p, p = Probe(key, stops),
         NEW refs, refs = DriverRefs(p)
  PROVE  /\ key \in Keys /\ key >= d /\ Turning(key) /\ order[1] \in N /\ Everywhere(order)
         /\ op = "Diff" => order[1] = 1
         /\ \A k \in Keys : k >= d /\ k < key => WantedAt(k) = {}
         /\ Probed(key) = At(held, key) /\ order[1] \in At(held, key)
         /\ Containers(refs, {order[1]} \cup Told(p), key) /\ refs[1].input = order[1]
         /\ cur' = p.cur /\ UNCHANGED folding => CursorsOK' /\ Driven(held, key + 1)'
<1>1. /\ InputsOK /\ CursorsOK /\ Ready
      /\ \A i \in N : /\ cur[i].live = live /\ cur[i].at = ins[i].at
                      /\ Rest(cur[i]) \subseteq held[i] /\ Rest(cur[i]) \subseteq Keys
                      /\ held[i] \subseteq Keys /\ held[i] \subseteq live
      /\ \A k \in Keys : k \in Nat
  BY KeyMajorFacts
<1>2. order # << >> /\ key = peek_key(cur[order[1]]) /\ key # END
  BY DEF driver_key
<1>3. ins # << >> /\ Visits(order) /\ Everywhere(order) /\ order[1] \in N /\ (op = "Diff" => order[1] = 1)
  BY <1>2, KeyMajorFacts
<1>4. /\ key \in Keys /\ key \in Nat /\ d \in Nat /\ key \in Rest(cur[order[1]])
      /\ \A k \in Rest(cur[order[1]]) : key <= k
  <2>1. CursorOK(cur[order[1]])
    BY <1>1, <1>3 DEF Ready
  <2>2. d \in Nat
    BY KeysAre
  <2> QED
    BY <1>2, <2>1, <2>2, PeekIs
<1>5. key \in live
  BY <1>1, <1>3, <1>4
<1>6. Turning(key)
  BY <1>1, <1>2, <1>3, <1>5 DEF Turning
<1>7. /\ Rest(cur[order[1]]) = {k \in held[order[1]] : k >= d}
      /\ \A i \in N : {k \in held[i] : k >= d} \subseteq Rest(cur[i])
  BY <1>3 DEF KeyMajorAt, Driven
<1>8. key >= d /\ key \in held[order[1]]
  BY <1>4, <1>7
<1>9. Probed(key) = At(held, key) /\ order[1] \in At(held, key)
  <2>1. \A i \in N : key \in Rest(cur[i]) <=> key \in held[i]
    BY <1>1, <1>7, <1>8
  <2> QED
    BY <1>3, <1>8, <2>1 DEF Probed, At
<1>10. ASSUME NEW k \in Keys, k >= d, k < key PROVE WantedAt(k) = {}
  <2>1. /\ op = "Intersect" => WantedAt(k) = IF At(held, k) = N THEN N ELSE {}
        /\ op = "Diff" => WantedAt(k) = IF 1 \in At(held, k) THEN At(held, k) ELSE {}
    BY <1>1, WantedFacts
  <2>2. order[1] \notin At(held, k)
    <3> SUFFICES ASSUME k \in held[order[1]] PROVE FALSE
      BY DEF At
    <3>1. k \in Rest(cur[order[1]])
      BY <1>7, <1>10
    <3> QED
      BY <1>1, <1>4, <1>10, <3>1
  <2> QED
    BY <1>3, <2>1, <2>2
<1>11. /\ DOMAIN p.cur = N /\ p.cur = [i \in N |-> p.cur[i]]
       /\ \A i \in N : CursorOK(p.cur[i]) /\ Alike(p.cur[i], cur[i])
       /\ Rest(p.cur[order[1]]) = Rest(cur[order[1]]) \ {key}
       /\ \A i \in N \ {order[1]} : {k \in Rest(cur[i]) : k >= key} \subseteq Rest(p.cur[i])
  BY <1>2, <1>6, ProbeCursors
<1>12. /\ Visits(p.hits) /\ Told(p) = {p.hits[j] : j \in 1 .. Len(p.hits)}
       /\ \A i \in Told(p) : i \in N \ {order[1]} /\ peek_key(p.cur[i]) = key
  BY <1>6, ProbeHits DEF Told
<1>13. Containers(refs, {order[1]} \cup Told(p), key) /\ refs[1].input = order[1]
  <2>1. Containers(<< Ref(order[1], cur[order[1]]) >>, {order[1]}, key)
    BY <1>1, <1>2, <1>3, OneContainer DEF Ready
  <2>2. \A j \in 1 .. Len(p.hits) : p.hits[j] \in Told(p)
    BY <1>12
  <2>3. \A j \in 1 .. Len(p.hits) : /\ CursorOK(p.cur[p.hits[j]]) /\ p.cur[p.hits[j]].at = ins[p.hits[j]].at
                                    /\ peek_key(p.cur[p.hits[j]]) = key /\ key # END
    BY SMTT(30), <1>1, <1>2, <1>11, <1>12, <2>2 DEF Alike
  <2>4. Containers(Each(p.hits, p.cur), Told(p), key)
    BY <1>1, <1>12, <2>3, ManyContainers
  <2>5. order[1] \notin Told(p)
    BY <1>12
  <2> QED
    <3>1. PICK r : r = Ref(order[1], cur[order[1]])
      OBVIOUS
    <3>2. PICK e : e = Each(p.hits, p.cur)
      OBVIOUS
    <3>3. refs = << r >> \o e
      BY <3>1, <3>2 DEF DriverRefs
    <3>4. Containers(<< r >>, {order[1]}, key) /\ Containers(e, Told(p), key)
      BY <2>1, <2>4, <3>1, <3>2
    <3>5. Containers(<< r >> \o e, {order[1]} \cup Told(p), key) /\ (<< r >> \o e)[1].input = order[1]
      BY <2>5, <3>4, OneThenMany
    <3> QED
      BY <3>3, <3>5
<1>14. ASSUME cur' = p.cur, UNCHANGED folding PROVE CursorsOK' /\ Driven(held, key + 1)'
  <2>1. CursorsOK'
    BY <1>1, <1>11, <1>14, CursorsStay DEF folding
  <2>2. N' = N /\ held' = held /\ order' = order /\ ins' = ins
    BY <1>14, SameInputs DEF folding, inputs
  <2>3. \A k \in Keys : /\ k >= key + 1 => k >= key /\ k >= d /\ k # key
                        /\ k >= key /\ k # key => k >= key + 1
    <3>1. key \in Nat /\ d \in Nat /\ key >= d
      BY <1>4, <1>8
    <3>2. ASSUME NEW k \in Nat
          PROVE  /\ k >= key + 1 => k >= key /\ k >= d /\ k # key
                 /\ k >= key /\ k # key => k >= key + 1
      BY <3>1
    <3> QED
      BY <1>1, <3>2
  <2>4. Rest(p.cur[order[1]]) = {k \in held[order[1]] : k >= key + 1}
    <3>1. ASSUME NEW k \in held[order[1]] PROVE k \in Rest(cur[order[1]]) /\ k # key <=> k >= key + 1
      <4>1. k \in Keys /\ k \in Nat
        BY <1>1, <1>3
      <4>2. k \in Rest(cur[order[1]]) => k >= key
        BY <1>4
      <4>3. k >= d => k \in Rest(cur[order[1]])
        BY <1>7
      <4> QED
        BY <1>4, <2>3, <4>1, <4>2, <4>3
    <3> QED
      BY <1>1, <1>3, <1>11, <3>1
  <2>5. \A i \in N : {k \in held[i] : k >= key + 1} \subseteq Rest(p.cur[i])
    <3> SUFFICES ASSUME NEW i \in N, NEW k \in held[i], k >= key + 1 PROVE k \in Rest(p.cur[i])
      OBVIOUS
    <3>1. CASE i = order[1]
      BY <2>4, <3>1
    <3>2. CASE i # order[1]
      <4>1. k >= key /\ k >= d
        BY <1>1, <2>3
      <4>2. k \in Rest(cur[i])
        BY <1>7, <4>1
      <4>3. {q \in Rest(cur[i]) : q >= key} \subseteq Rest(p.cur[i])
        BY <1>11, <3>2
      <4> QED
        BY <4>1, <4>2, <4>3
    <3> QED
      BY <3>1, <3>2
  <2>6. \A i : Rest(cur[i])' = Rest(p.cur[i])
    BY <1>14
  <2>7. Driven(held, key + 1)'
    BY <2>2, <2>4, <2>5, <2>6 DEF Driven
  <2> QED
    BY <2>1, <2>7
<1> QED
  BY <1>3, <1>4, <1>6, <1>8, <1>9, <1>10, <1>13, <1>14

\* The others of a visiting order.
LEMMA TheOthers ==
  ASSUME NEW key, Turning(key), Everywhere(order)
  PROVE  {order[j] : j \in 2 .. Len(order)} = N \ {order[1]}
<1>1. /\ Len(order) \in Nat \ {0} /\ \A j \in 2 .. Len(order) : order[j] \in N /\ order[j] # order[1]
  BY TurnFacts
<1>2. \A i \in N : i = order[1] \/ \E j \in 2 .. Len(order) : order[j] = i
  BY <1>1 DEF Everywhere
<1> QED
  BY <1>1, <1>2

LEMMA IntersectKeyKeeps ==
  ASSUME WalkInv, IntersectKey
  PROVE  WalkInv' /\ (Handing \/ UNCHANGED handed)
<1>1. phase = "fold" /\ op = "Intersect" /\ driver_key # END
  BY DEF IntersectKey
<1>2. major = "key" /\ InputsOK
  BY <1>1 DEF WalkInv, ShapeOK
<1>3. PICK d \in 0 .. KeyCount : KeyMajorAt(d)
  BY <1>1, <1>2, KeyMajorFacts
<1>4. PICK key : key = driver_key
  OBVIOUS
<1>5. PICK p : p = Probe(key, {FALSE})
  OBVIOUS
<1>6. PICK refs : refs = DriverRefs(p)
  OBVIOUS
<1>7. /\ cur' = p.cur
      /\ IF p.all THEN next_slot' = claim_key(key) + 1 /\ Hand(claim_key(key), refs) ELSE UNCHANGED << next_slot, handed >>
      /\ UNCHANGED << folding, pass, emptied >>
  BY <1>4, <1>5, <1>6 DEF IntersectKey, DriverRefs, Each
<1>8. /\ key \in Keys /\ key >= d /\ Turning(key) /\ order[1] \in N /\ Everywhere(order)
      /\ \A k \in Keys : k >= d /\ k < key => WantedAt(k) = {}
      /\ Probed(key) = At(held, key) /\ order[1] \in At(held, key)
      /\ Containers(refs, {order[1]} \cup Told(p), key)
      /\ CursorsOK' /\ Driven(held, key + 1)'
  BY <1>1, <1>2, <1>3, <1>4, <1>5, <1>6, <1>7, DriverHands
<1>9. {order[j] : j \in 2 .. Len(order)} = N \ {order[1]}
  BY <1>8, TheOthers
<1>10. /\ p.all <=> \A j \in 2 .. Len(order) : order[j] \in At(held, key)
       /\ p.all => Told(p) = N \ {order[1]}
  BY <1>5, <1>8, <1>9, ProbeAll
<1>11. p.all <=> At(held, key) = N
  <2>1. At(held, key) \subseteq N
    BY DEF At
  <2>2. (\A j \in 2 .. Len(order) : order[j] \in At(held, key)) <=> N \ {order[1]} \subseteq At(held, key)
    BY <1>9
  <2> QED
    BY <1>8, <1>10, <2>1, <2>2
<1>12. WantedAt(key) = IF p.all THEN N ELSE {}
  BY <1>1, <1>2, <1>11, WantedFacts
<1>13. \/ WantedAt(key) = {} /\ UNCHANGED << next_slot, handed >>
       \/ \E r : /\ WantedAt(key) # {} /\ Containers(r, WantedAt(key), key)
                 /\ op = "Diff" => r[1].input = 1
                 /\ next_slot' = claim_key(key) + 1
                 /\ Hand(claim_key(key), r)
  <2>1. CASE p.all
    <3>1. {order[1]} \cup Told(p) = N /\ N # {}
      BY <1>8, <1>10, <2>1
    <3>2. WantedAt(key) = N
      BY <1>12, <2>1
    <3>3. WantedAt(key) # {} /\ Containers(refs, WantedAt(key), key)
      BY <1>8, <3>1, <3>2
    <3> QED
      BY <1>1, <1>7, <2>1, <3>3
  <2>2. CASE ~p.all
    BY <1>7, <1>12, <2>2
  <2> QED
    BY <2>1, <2>2
<1>14. IF op = "Union" THEN Level(held, key + 1)' ELSE Driven(held, key + 1)'
  BY <1>1, <1>8
<1> QED
  BY <1>1, <1>2, <1>3, <1>7, <1>8, <1>13, <1>14, KeyTurn

LEMMA DiffKeyKeeps ==
  ASSUME WalkInv, DiffKey
  PROVE  WalkInv' /\ (Handing \/ UNCHANGED handed)
<1>1. phase = "fold" /\ op = "Diff" /\ major = "key" /\ driver_key # END
  BY DEF DiffKey
<1>2. InputsOK
  BY DEF WalkInv
<1>3. PICK d \in 0 .. KeyCount : KeyMajorAt(d)
  BY <1>1, KeyMajorFacts
<1>4. PICK key : key = driver_key
  OBVIOUS
<1>5. PICK p : p = Probe(key, {})
  OBVIOUS
<1>6. PICK refs : refs = DriverRefs(p)
  OBVIOUS
<1>7. ins # << >> /\ order[1] = 1
  <2>1. order # << >>
    BY <1>1 DEF driver_key
  <2> QED
    BY <1>1, <2>1, KeyMajorFacts
<1>8. /\ cur' = p.cur
      /\ next_slot' = claim_key(key) + 1
      /\ Hand(claim_key(key), refs)
      /\ UNCHANGED << folding, pass, emptied >>
  BY <1>4, <1>5, <1>6, <1>7 DEF DiffKey, DriverRefs, Each
<1>9. /\ key \in Keys /\ key >= d /\ Turning(key) /\ order[1] \in N /\ Everywhere(order)
      /\ \A k \in Keys : k >= d /\ k < key => WantedAt(k) = {}
      /\ Probed(key) = At(held, key) /\ order[1] \in At(held, key)
      /\ Containers(refs, {order[1]} \cup Told(p), key) /\ refs[1].input = order[1]
      /\ CursorsOK' /\ Driven(held, key + 1)'
  BY <1>1, <1>3, <1>4, <1>5, <1>6, <1>8, DriverHands
<1>10. Told(p) = (N \ {order[1]}) \cap At(held, key)
  BY <1>5, <1>9, TheOthers, ProbeEvery
<1>11. WantedAt(key) = At(held, key)
  BY <1>1, <1>2, <1>7, <1>9, WantedFacts
<1>12. {order[1]} \cup Told(p) = WantedAt(key) /\ WantedAt(key) # {}
  <2>1. At(held, key) \subseteq N
    BY DEF At
  <2> QED
    BY <1>9, <1>10, <1>11, <2>1
<1>13. \/ WantedAt(key) = {} /\ UNCHANGED << next_slot, handed >>
       \/ \E r : /\ WantedAt(key) # {} /\ Containers(r, WantedAt(key), key)
                 /\ op = "Diff" => r[1].input = 1
                 /\ next_slot' = claim_key(key) + 1
                 /\ Hand(claim_key(key), r)
  <2>1. Containers(refs, WantedAt(key), key) /\ refs[1].input = 1
    BY <1>7, <1>9, <1>12
  <2> QED
    BY <1>8, <1>12, <2>1
<1>14. IF op = "Union" THEN Level(held, key + 1)' ELSE Driven(held, key + 1)'
  BY <1>1, <1>9
<1> QED
  BY <1>1, <1>3, <1>8, <1>9, <1>13, <1>14, KeyTurn

----------------------------------------------------------------------------
\* Folding input by input.

\* One cursor moved to what it may be moved to, the others left alone.
LEMMA OneMoved ==
  ASSUME InputsOK, CursorsOK, phase = "fold", UNCHANGED folding,
         NEW i \in N, NEW c, CursorOK(c), Alike(c, cur[i]), cur' = [cur EXCEPT ![i] = c]
  PROVE  /\ CursorsOK' /\ cur'[i] = c
         /\ \A j \in N \ {i} : cur'[j] = cur[j]
         /\ Rest(cur'[i]) = Rest(c) /\ \A j \in N \ {i} : Rest(cur'[j]) = Rest(cur[j])
<1>1. Ready
  BY CursorsAre
<1>2. /\ DOMAIN cur' = N /\ cur' = [j \in N |-> cur'[j]] /\ cur'[i] = c
      /\ \A j \in N \ {i} : cur'[j] = cur[j]
  BY <1>1 DEF Ready
<1>3. \A j \in N : CursorOK(cur[j]) /\ Alike(cur[j], cur[j])
  BY <1>1 DEF Ready, Alike
<1>4. \A j \in N : CursorOK(cur'[j]) /\ Alike(cur'[j], cur[j])
  BY <1>2, <1>3
<1>5. CursorsOK'
  BY <1>2, <1>4, CursorsStay DEF folding
<1> QED
  BY <1>2, <1>5

\* A fold input by input, before a step.
LEMMA PassFacts ==
  ASSUME WalkInv, phase = "fold", major = "partner"
  PROVE  /\ InputsOK /\ CursorsOK /\ op \in {"Union", "Diff"}
         /\ slots \in Seq([key : Keys, who : SUBSET N])
         /\ Len(slots) \in Nat /\ DOMAIN slots = 1 .. Len(slots) /\ next_slot \in 1 .. Len(slots) + 1
         /\ \A s \in DOMAIN slots : slots[s].key \in Keys /\ slots[s].key \in Nat
         /\ DOMAIN handed = DOMAIN slots
         /\ Ascending /\ \A k \in Keys : WantedAt(k) # {} => k \in SlotKeys
         /\ Len(ins) \in Nat /\ N = 1 .. Len(ins)
         /\ pass \in 1 .. Len(ins) + 1 \cup {3} /\ pass \in Nat
         /\ \A i \in N : /\ CursorOK(cur[i]) /\ cur[i].live = live /\ cur[i].at = ins[i].at
                         /\ Rest(cur[i]) \subseteq held[i] /\ held[i] \subseteq Keys /\ held[i] \subseteq live
         /\ \A k \in Keys : k \in Nat
         /\ op = "Union" => UnionPassInv /\ emptied = {}
         /\ ins # << >> => order # << >> /\ (op = "Diff" => order[1] = 1)
         /\ ins = << >> => order = << >>
<1>1. InputsOK /\ CursorsOK /\ slots \in Seq([key : Keys, who : SUBSET N])
  BY DEF WalkInv, ShapeOK
<1>2. /\ Len(slots) \in Nat /\ DOMAIN slots = 1 .. Len(slots)
      /\ \A s \in DOMAIN slots : slots[s].key \in Keys /\ slots[s].key \in Nat
  BY <1>1, SlotTypes
<1>3. next_slot \in 1 .. Len(slots) + 1
  BY <1>2 DEF WalkInv, ShapeOK
<1>4. /\ op \in {"Union", "Diff"} /\ DOMAIN handed = DOMAIN slots
      /\ pass \in 1 .. Len(ins) + 1 \cup {3}
      /\ op = "Union" => emptied = {}
  BY DEF WalkInv, ShapeOK, InputsOK
<1>5. Len(ins) \in Nat /\ N = 1 .. Len(ins)
  BY <1>1, InputFacts
<1>6. pass \in Nat
  BY <1>4, <1>5
<1>7. Ascending /\ \A k \in Keys : WantedAt(k) # {} => k \in SlotKeys
  BY DEF WalkInv, LaidOut
<1>8. \A i \in N : /\ CursorOK(cur[i]) /\ cur[i].live = live /\ cur[i].at = ins[i].at
                   /\ Rest(cur[i]) \subseteq held[i] /\ held[i] \subseteq Keys /\ held[i] \subseteq live
  BY KeyMajorFacts DEF Ready
<1>9. /\ \A k \in Keys : k \in Nat
      /\ ins # << >> => order # << >> /\ (op = "Diff" => order[1] = 1)
      /\ ins = << >> => order = << >>
  BY KeyMajorFacts
<1>10. UnionPassInv
  BY DEF WalkInv
<1> QED
  BY <1>1, <1>2, <1>3, <1>4, <1>5, <1>6, <1>7, <1>8, <1>9, <1>10

LEMMA UnionPassKeeps ==
  ASSUME WalkInv, UnionPass
  PROVE  WalkInv' /\ (Handing \/ UNCHANGED handed)
<1>1. PICK key : key = peek_key(cur[pass])
  OBVIOUS
<1>2. PICK s : s = slot_for(next_slot, key)
  OBVIOUS
<1>3. PICK refs : refs = << Ref(pass, cur[pass]) >>
  OBVIOUS
<1>4. /\ phase = "fold" /\ op = "Union" /\ major = "partner" /\ pass \in N /\ key # END
      /\ cur' = [cur EXCEPT ![pass] = advance(cur[pass])]
      /\ next_slot' = s + 1 /\ Hand(s, refs)
      /\ UNCHANGED << folding, pass, emptied >>
  BY <1>1, <1>2, <1>3 DEF UnionPass
<1>5. /\ InputsOK /\ CursorsOK /\ slots \in Seq([key : Keys, who : SUBSET N])
      /\ Len(slots) \in Nat /\ DOMAIN slots = 1 .. Len(slots) /\ next_slot \in 1 .. Len(slots) + 1
      /\ \A t \in DOMAIN slots : slots[t].key \in Keys /\ slots[t].key \in Nat
      /\ Ascending /\ \A k \in Keys : WantedAt(k) # {} => k \in SlotKeys
      /\ N = 1 .. Len(ins) /\ Len(ins) \in Nat /\ pass \in 1 .. Len(ins) + 1 \cup {3}
      /\ \A i \in N : /\ CursorOK(cur[i]) /\ cur[i].at = ins[i].at
                      /\ Rest(cur[i]) \subseteq held[i] /\ held[i] \subseteq Keys
      /\ \A k \in Keys : k \in Nat
      /\ emptied = {} /\ UnionPassInv
  BY <1>4, PassFacts
<1>6. /\ Behind
      /\ \A i \in N : /\ i < pass => Rest(cur[i]) = {}
                      /\ i > pass => Rest(cur[i]) = held[i]
                      /\ \A k \in held[i] \ Rest(cur[i]), m \in Rest(cur[i]) : k < m
      /\ \A t \in DOMAIN slots : Given(t) = {i \in N : slots[t].key \in held[i] \ Rest(cur[i])}
  BY <1>4, <1>5 DEF UnionPassInv
<1>7. /\ key \in Nat /\ key \in Keys /\ key \in Rest(cur[pass]) /\ key \in held[pass]
      /\ \A k \in Rest(cur[pass]) : key <= k /\ k \in Nat
  BY <1>1, <1>4, <1>5, PeekIs
<1>8. WantedAt(key) = {i \in N : key \in held[i]}
  BY <1>4, <1>5, WantedFacts DEF At
<1>9. key \in SlotKeys
  BY <1>4, <1>5, <1>7, <1>8
<1>10. \A t \in DOMAIN slots : t < next_slot => slots[t].key < key
  BY <1>4, <1>6, <1>7 DEF Behind
<1>11. /\ s \in DOMAIN slots /\ slots[s].key = key /\ s \in Nat
       /\ \A t \in DOMAIN slots : t < s => slots[t].key < key
       /\ \A t \in DOMAIN slots : slots[t].key = key => t = s
  BY <1>2, <1>5, <1>9, <1>10, SlotFound
<1>12. Containers(refs, {pass}, key)
  BY <1>1, <1>3, <1>4, <1>5, OneContainer
<1>13. pass \notin Given(s) /\ pass \in WantedAt(key)
  BY <1>4, <1>6, <1>7, <1>8, <1>11
<1>14. ASSUME NEW t \in DOMAIN slots, {pass} \cap Given(t) # {} PROVE slots[t].key < slots[s].key
  <2>1. slots[t].key \in held[pass] \ Rest(cur[pass])
    BY <1>6, <1>14
  <2> QED
    BY <1>4, <1>6, <1>7, <1>11, <2>1
<1>15. handed' = [handed EXCEPT ![s] = @ \o refs]
  BY <1>4, <1>11 DEF Hand
<1>16. HandOver(s, refs, {pass})
  BY <1>4, <1>5, <1>11, <1>12, <1>13, <1>14, <1>15 DEF HandOver
<1>17. /\ HandedOK' /\ DOMAIN handed' = DOMAIN slots'
       /\ handed' \in Seq(Seq([input : N', key : Keys, from : Nat, upto : Nat]))
       /\ emptied' \subseteq DOMAIN slots' /\ (emptied' # {} => op' = "Diff" /\ major' = "partner")
       /\ \A t \in DOMAIN slots : Given(t)' = IF t = s THEN Given(s) \cup {pass} ELSE Given(t)
  BY <1>16, HandOverIs
<1>18. /\ CursorOK(advance(cur[pass])) /\ Alike(advance(cur[pass]), cur[pass])
       /\ Rest(advance(cur[pass])) = Rest(cur[pass]) \ {key}
  BY <1>1, <1>4, <1>5, AdvanceIs
<1>19. PICK c : c = advance(cur[pass])
  OBVIOUS
<1>20. /\ CursorsOK' /\ Rest(cur'[pass]) = Rest(cur[pass]) \ {key}
       /\ \A j \in N \ {pass} : Rest(cur'[j]) = Rest(cur[j])
  <2>1. CursorOK(c) /\ Alike(c, cur[pass]) /\ cur' = [cur EXCEPT ![pass] = c] /\ Rest(c) = Rest(cur[pass]) \ {key}
    BY <1>4, <1>18, <1>19
  <2> QED
    BY <1>4, <1>5, <2>1, OneMoved
<1>21. /\ phase' = "fold" /\ major' = "partner" /\ op' = "Union" /\ slots' = slots /\ pass' = pass
       /\ N' = N /\ held' = held
  BY <1>4, SameInputs DEF folding, inputs
<1>22. UnionPassInv'
  <2>1. Behind'
    <3> SUFFICES ASSUME NEW t \in DOMAIN slots, NEW k \in Rest(cur[pass]) \ {key}, t < s + 1
                 PROVE  slots[t].key < k
      BY <1>4, <1>20, <1>21 DEF Behind
    <3>1. key < k
      BY <1>7
    <3>2. slots[t].key <= key
      <4>1. t < s \/ t = s
        BY <1>5, <1>11
      <4> QED
        BY <1>5, <1>7, <1>11, <4>1
    <3>3. k \in Nat /\ key \in Nat /\ slots[t].key \in Nat
      BY <1>5, <1>7
    <3> QED
      BY <3>1, <3>2, <3>3
  <2>2. ASSUME NEW i \in N
        PROVE  /\ i < pass => Rest(cur'[i]) = {}
               /\ i > pass => Rest(cur'[i]) = held[i]
               /\ \A k \in held[i] \ Rest(cur'[i]), m \in Rest(cur'[i]) : k < m
    <3>1. CASE i # pass
      BY <1>6, <1>20, <3>1
    <3>2. CASE i = pass
      <4>1. ~ (i < pass) /\ ~ (i > pass)
        BY <1>4, <1>5, <3>2
      <4>2. ASSUME NEW k \in held[pass] \ (Rest(cur[pass]) \ {key}), NEW m \in Rest(cur[pass]) \ {key} PROVE k < m
        <5>1. CASE k = key
          BY <1>7, <5>1
        <5>2. CASE k # key
          BY <1>4, <1>6, <5>2
        <5> QED
          BY <5>1, <5>2
      <4>3. Rest(cur'[i]) = Rest(cur[pass]) \ {key}
        BY <1>20, <3>2
      <4> QED
        BY <3>2, <4>1, <4>2, <4>3
    <3> QED
      BY <3>1, <3>2
  <2>3. ASSUME NEW t \in DOMAIN slots
        PROVE  Given(t)' = {i \in N : slots[t].key \in held[i] \ Rest(cur'[i])}
    <3>1. ASSUME NEW i \in N PROVE i \in Given(t)' <=> slots[t].key \in held[i] \ Rest(cur'[i])
      <4>1. CASE i # pass
        <5>1. i \in Given(t)' <=> i \in Given(t)
          BY <1>17, <4>1
        <5> QED
          BY <1>6, <1>20, <4>1, <5>1
      <4>2. CASE i = pass /\ t = s
        BY <1>7, <1>11, <1>17, <1>20, <4>2
      <4>3. CASE i = pass /\ t # s
        <5>1. slots[t].key # key /\ (i \in Given(t)' <=> i \in Given(t))
          BY <1>11, <1>17, <4>3
        <5> QED
          BY <1>6, <1>20, <4>3, <5>1
      <4> QED
        BY <4>1, <4>2, <4>3
    <3>2. Given(t)' \subseteq N
      BY <1>4, <1>6, <1>17
    <3> QED
      BY <3>1, <3>2
  <2>4. \A i : Rest(cur[i])' = Rest(cur'[i])
    OBVIOUS
  <2> QED
    BY <1>21, <2>1, <2>2, <2>3, <2>4 DEF UnionPassInv
<1>23. KeyMajorInv' /\ DiffPassInv'
  BY <1>21 DEF KeyMajorInv, DiffPassInv
<1>24. next_slot' \in 1 .. Len(slots) + 1
  BY <1>4, <1>5, <1>11
<1>25. WalkInv'
  BY <1>4, <1>5, <1>17, <1>20, <1>21, <1>22, <1>23, <1>24, FoldingKeeps
<1> QED
  BY <1>16, <1>25 DEF Handing

\* The passes of a difference, before a step.
LEMMA DiffPassFacts ==
  ASSUME WalkInv, phase = "fold", op = "Diff", major = "partner"
  PROVE  /\ \A i \in N : i > pass /\ i # 2 => Rest(cur[i]) = held[i]
         /\ pass = 1 => \E d \in 0 .. KeyCount : SeedAt(d)
         /\ pass # 1 =>
              /\ pass > 2
              /\ pass \in N => \A s \in DOMAIN slots :
                   s >= next_slot /\ slots[s].key \in held[pass] => slots[s].key \in Rest(cur[pass])
              /\ \A s \in DOMAIN slots :
                   /\ Given(s) \subseteq {i \in WantedAt(slots[s].key) : SubtractedTo(s, i)}
                   /\ s \notin emptied => Given(s) = {i \in WantedAt(slots[s].key) : SubtractedTo(s, i)}
         /\ \A k : WantedAt(k) = IF 1 \in At(held, k) THEN At(held, k) ELSE {}
         /\ \A s \in DOMAIN slots : /\ handed[s] = << >> <=> Given(s) = {}
                                    /\ Len(handed[s]) \in Nat /\ (Given(s) # {} => Len(handed[s]) # 0)
                                    /\ s \in emptied => Given(s) # {}
<1>1. DiffPassInv /\ InputsOK /\ handed \in Seq(Seq(Refs)) /\ DOMAIN handed = DOMAIN slots
  BY DEF WalkInv, ShapeOK, Refs
<1>2. ASSUME NEW s \in DOMAIN slots
      PROVE  /\ handed[s] = << >> <=> Given(s) = {}
             /\ Len(handed[s]) \in Nat /\ (Given(s) # {} => Len(handed[s]) # 0)
             /\ s \in emptied => Given(s) # {}
  <2>1. handed[s] \in Seq(Refs)
    BY <1>1, ElementOfSeq, LenProperties
  <2>2. Len(handed[s]) \in Nat /\ DOMAIN handed[s] = 1 .. Len(handed[s]) /\ (handed[s] = << >> <=> Len(handed[s]) = 0)
    BY <2>1, LenProperties, EmptySeq
  <2>3. Given(s) = {handed[s][j].input : j \in 1 .. Len(handed[s])}
    BY <2>2 DEF Given
  <2>4. Given(s) = {} <=> Len(handed[s]) = 0
    <3>1. Len(handed[s]) = 0 => Given(s) = {}
      BY <2>3
    <3>2. Len(handed[s]) # 0 => handed[s][1].input \in Given(s)
      <4>1. Len(handed[s]) # 0 => 1 \in 1 .. Len(handed[s])
        BY <2>2
      <4> QED
        BY <2>3, <4>1
    <3> QED
      BY <3>1, <3>2
  <2>5. s \in emptied => Len(handed[s]) # 0
    BY <1>1, <2>2 DEF WalkInv, HandedOK
  <2> QED
    BY <2>2, <2>4, <2>5
<1>3. \A k : WantedAt(k) = IF 1 \in At(held, k) THEN At(held, k) ELSE {}
  BY <1>1, WantedFacts
<1> QED
  BY <1>1, <1>2, <1>3 DEF DiffPassInv

LEMMA PairIs ==
  ASSUME NEW a, NEW b
  PROVE  << a >> \o << b >> = << a, b >>
<1> DEFINE S == {a, b}
<1>1. << a >> \in Seq(S) /\ << b >> \in Seq(S) /\ << a, b >> \in Seq(S)
  OBVIOUS
<1>2. Len(<< a >>) = 1 /\ Len(<< b >>) = 1 /\ << a >>[1] = a /\ << b >>[1] = b
  OBVIOUS
<1> HIDE DEF S
<1>3. /\ << a >> \o << b >> \in Seq(S) /\ Len(<< a >> \o << b >>) = 2
      /\ (<< a >> \o << b >>)[1] = a /\ (<< a >> \o << b >>)[2] = b
  BY <1>1, <1>2, ConcatProperties
<1>4. Len(<< a, b >>) = 2 /\ << a, b >>[1] = a /\ << a, b >>[2] = b
  OBVIOUS
<1>5. \A j \in 1 .. 2 : j = 1 \/ j = 2
  OBVIOUS
<1> QED
  BY <1>1, <1>3, <1>4, <1>5, SeqEqual

LEMMA DiffSeedKeeps ==
  ASSUME WalkInv, DiffSeed
  PROVE  WalkInv' /\ (Handing \/ UNCHANGED << handed, emptied >>)
<1>1. PICK key : key = driver_key
  OBVIOUS
<1>2. PICK s : s = slot_for(next_slot, key)
  OBVIOUS
<1>3. PICK p1 : p1 = IF Len(ins) > 1 THEN advance_to(cur[2], key) ELSE [hit |-> FALSE]
  OBVIOUS
<1>4. /\ phase = "fold" /\ op = "Diff" /\ major = "partner" /\ pass = 1 /\ key # END
      /\ cur' = [i \in N |-> CASE i = 1 -> advance(cur[1]) [] i = 2 -> p1.c [] OTHER -> cur[i]]
      /\ next_slot' = s + 1
      /\ IF p1.hit
         THEN Hand(s, << Ref(1, cur[1]), Ref(2, p1.c) >>) /\ Subtract(s)
         ELSE Hand(s, << Ref(1, cur[1]) >>) /\ UNCHANGED emptied
      /\ UNCHANGED << folding, pass >>
  BY <1>1, <1>2, <1>3 DEF DiffSeed, claim_key
<1>5. /\ InputsOK /\ CursorsOK /\ slots \in Seq([key : Keys, who : SUBSET N])
      /\ Len(slots) \in Nat /\ DOMAIN slots = 1 .. Len(slots) /\ next_slot \in 1 .. Len(slots) + 1
      /\ \A t \in DOMAIN slots : slots[t].key \in Keys /\ slots[t].key \in Nat
      /\ Ascending /\ \A k \in Keys : WantedAt(k) # {} => k \in SlotKeys
      /\ N = 1 .. Len(ins) /\ Len(ins) \in Nat
      /\ \A i \in N : /\ CursorOK(cur[i]) /\ cur[i].live = live /\ cur[i].at = ins[i].at
                      /\ Rest(cur[i]) \subseteq held[i] /\ held[i] \subseteq Keys /\ held[i] \subseteq live
      /\ \A k \in Keys : k \in Nat
  BY <1>4, PassFacts
<1>6. order # << >> /\ order[1] = 1 /\ ins # << >> /\ 1 \in N /\ key = peek_key(cur[1])
  <2>1. order # << >> /\ key = peek_key(cur[order[1]])
    BY <1>1, <1>4 DEF driver_key
  <2>2. ins # << >> /\ order[1] = 1
    BY <1>4, <2>1, PassFacts
  <2> QED
    BY <1>5, <2>1, <2>2, InputFacts
<1>7. /\ \A i \in N : i > 1 /\ i # 2 => Rest(cur[i]) = held[i]
      /\ \A k : WantedAt(k) = IF 1 \in At(held, k) THEN At(held, k) ELSE {}
      /\ \E d \in 0 .. KeyCount : SeedAt(d)
      /\ \A t \in DOMAIN slots : /\ t \in emptied => Given(t) # {}
  BY <1>4, DiffPassFacts
<1>8. PICK d \in 0 .. KeyCount : SeedAt(d)
  BY <1>7
<1>9. /\ \A t \in DOMAIN slots : t < next_slot => slots[t].key < d
      /\ Rest(cur[1]) = {k \in held[1] : k >= d}
      /\ 2 \in N => {k \in held[2] : k >= d} \subseteq Rest(cur[2])
      /\ \A t \in DOMAIN slots :
           Given(t) = IF slots[t].key < d THEN WantedAt(slots[t].key) \cap {1, 2} ELSE {}
  BY <1>6, <1>8 DEF SeedAt, Below
<1>10. /\ key \in Nat /\ key \in Keys /\ key \in Rest(cur[1]) /\ key \in held[1] /\ key >= d /\ d \in Nat
       /\ \A k \in Rest(cur[1]) : key <= k /\ k \in Nat
       /\ key + 1 \in 0 .. KeyCount
  <2>1. /\ key \in Nat /\ key \in Keys /\ key \in Rest(cur[1])
        /\ \A k \in Rest(cur[1]) : key <= k /\ k \in Nat
    BY <1>4, <1>5, <1>6, PeekIs
  <2>2. d \in Nat /\ key + 1 \in 0 .. KeyCount
    BY <2>1, KeysAre
  <2> QED
    BY <1>9, <2>1, <2>2
<1>11. WantedAt(key) = At(held, key) /\ 1 \in WantedAt(key)
  BY <1>6, <1>7, <1>10 DEF At
<1>12. key \in SlotKeys
  BY <1>5, <1>10, <1>11
<1>13. \A t \in DOMAIN slots : t < next_slot => slots[t].key < key
  BY <1>5, <1>9, <1>10
<1>14. /\ s \in DOMAIN slots /\ slots[s].key = key /\ s \in Nat
       /\ \A t \in DOMAIN slots : t < s => slots[t].key < key
       /\ \A t \in DOMAIN slots : slots[t].key = key => t = s
  BY <1>2, <1>5, <1>12, <1>13, SlotFound
<1>15. Given(s) = {} /\ s \notin emptied
  BY <1>7, <1>9, <1>10, <1>14
<1>16. /\ 2 \in N => /\ p1.hit \in BOOLEAN /\ (p1.hit <=> 2 \in At(held, key))
                     /\ CursorOK(p1.c) /\ Alike(p1.c, cur[2])
                     /\ Rest(p1.c) = {k \in Rest(cur[2]) : k >= key}
                     /\ p1.hit => peek_key(p1.c) = key
       /\ 2 \notin N => ~p1.hit
  <2>1. CASE 2 \in N
    <3>1. p1 = advance_to(cur[2], key)
      BY <1>3, <1>5, <2>1
    <3>2. key \in cur[2].live
      BY <1>5, <1>6, <1>10, <2>1
    <3>3. key \in Rest(cur[2]) <=> key \in held[2]
      BY <1>5, <1>9, <1>10, <2>1
    <3> QED
      BY <1>5, <2>1, <3>1, <3>2, <3>3, AdvanceTo DEF At
  <2>2. CASE 2 \notin N
    <3>1. ~ (Len(ins) > 1)
      BY <1>5, <2>2
    <3> QED
      BY <1>3, <2>2, <3>1
  <2> QED
    BY <2>1, <2>2
<1>17. PICK I : I = IF p1.hit THEN {1, 2} ELSE {1}
  OBVIOUS
<1>18. I = WantedAt(key) \cap {1, 2}
  <2>1. 2 \in WantedAt(key) <=> p1.hit
    <3>1. 2 \in At(held, key) => 2 \in N
      BY DEF At
    <3> QED
      BY <1>11, <1>16, <3>1
  <2> QED
    BY <1>11, <1>17, <2>1
<1>19. PICK refs : refs = IF p1.hit THEN << Ref(1, cur[1]), Ref(2, p1.c) >> ELSE << Ref(1, cur[1]) >>
  OBVIOUS
<1>20. Containers(refs, I, key) /\ refs[1].input = 1 /\ (p1.hit => Len(refs) = 2)
  <2>1. Containers(<< Ref(1, cur[1]) >>, {1}, key) /\ << Ref(1, cur[1]) >>[1].input = 1
    BY <1>4, <1>5, <1>6, OneContainer
  <2>2. CASE ~p1.hit
    BY <1>17, <1>19, <2>1, <2>2
  <2>3. CASE p1.hit
    <3>1. 2 \in N /\ CursorOK(p1.c) /\ p1.c.at = ins[2].at /\ peek_key(p1.c) = key
      BY <1>5, <1>16, <2>3 DEF Alike
    <3>2. Containers(<< Ref(2, p1.c) >>, {2}, key)
      BY <1>4, <1>5, <3>1, OneContainer
    <3>3. PICK a, b : a = Ref(1, cur[1]) /\ b = Ref(2, p1.c)
      OBVIOUS
    <3>4. /\ Containers(<< a >> \o << b >>, {1} \cup {2}, key) /\ (<< a >> \o << b >>)[1].input = 1
      <4>1. Containers(<< a >>, {1}, key) /\ Containers(<< b >>, {2}, key) /\ 1 \notin {2}
        BY <2>1, <3>2, <3>3
      <4> QED
        BY <4>1, OneThenMany
    <3>5. << a >> \o << b >> = << a, b >>
      BY PairIs
    <3>6. {1} \cup {2} = {1, 2} /\ Len(<< a, b >>) = 2
      OBVIOUS
    <3> QED
      BY <1>17, <1>19, <2>3, <3>3, <3>4, <3>5, <3>6
  <2> QED
    BY <2>2, <2>3
<1>21. handed' = [handed EXCEPT ![s] = @ \o refs]
  BY <1>4, <1>14, <1>19 DEF Hand
<1>22. \/ UNCHANGED emptied
       \/ /\ op = "Diff" /\ major = "partner" /\ Len(handed[s]) + Len(refs) > 1
          /\ emptied' = emptied \cup {s}
  <2>1. Len(handed[s]) \in Nat
    BY <1>4, <1>14, DiffPassFacts
  <2>2. CASE p1.hit
    <3>1. emptied' \in {emptied, emptied \cup {s}} /\ Len(refs) = 2
      BY <1>4, <1>20, <2>2 DEF Subtract
    <3> QED
      BY <1>4, <2>1, <3>1
  <2>3. CASE ~p1.hit
    BY <1>4, <2>3
  <2> QED
    BY <2>2, <2>3
<1>23. ASSUME NEW t \in DOMAIN slots, I \cap Given(t) # {} PROVE slots[t].key < slots[s].key
  <2>1. slots[t].key < d
    BY <1>9, <1>23
  <2> QED
    BY <1>5, <1>10, <1>14, <2>1
<1>24. HandOver(s, refs, I)
  <2>1. I # {} /\ I \subseteq WantedAt(slots[s].key) \ Given(s)
    BY <1>14, <1>15, <1>17, <1>18
  <2> QED
    BY <1>4, <1>14, <1>15, <1>20, <1>21, <1>22, <1>23, <2>1 DEF HandOver
<1>25. /\ HandedOK' /\ DOMAIN handed' = DOMAIN slots'
       /\ handed' \in Seq(Seq([input : N', key : Keys, from : Nat, upto : Nat]))
       /\ emptied' \subseteq DOMAIN slots' /\ (emptied' # {} => op' = "Diff" /\ major' = "partner")
       /\ \A t \in DOMAIN slots : Given(t)' = IF t = s THEN Given(s) \cup I ELSE Given(t)
  BY <1>24, HandOverIs
<1>26. /\ CursorOK(advance(cur[1])) /\ Alike(advance(cur[1]), cur[1])
       /\ Rest(advance(cur[1])) = Rest(cur[1]) \ {key}
  BY <1>5, <1>6, AdvanceIs
<1>27. /\ DOMAIN cur' = N /\ cur' = [i \in N |-> cur'[i]]
       /\ cur'[1] = advance(cur[1])
       /\ 2 \in N => cur'[2] = p1.c
       /\ \A i \in N : i # 1 /\ i # 2 => cur'[i] = cur[i]
  BY <1>4, <1>6
<1>28. CursorsOK'
  <2>1. ASSUME NEW i \in N PROVE CursorOK(cur'[i]) /\ Alike(cur'[i], cur[i])
    <3>1. CASE i = 1
      BY <1>26, <1>27, <3>1
    <3>2. CASE i = 2
      BY <1>16, <1>27, <3>2
    <3>3. CASE i # 1 /\ i # 2
      BY <1>5, <1>27, <3>3 DEF Alike
    <3> QED
      BY <3>1, <3>2, <3>3
  <2> QED
    BY <1>4, <1>5, <1>27, <2>1, CursorsStay DEF folding
<1>29. /\ phase' = "fold" /\ major' = "partner" /\ op' = "Diff" /\ slots' = slots /\ pass' = 1
       /\ N' = N /\ held' = held /\ \A k : WantedAt(k)' = WantedAt(k)
  BY <1>4, SameInputs DEF folding, inputs
<1>30. SeedAt(key + 1)'
  <2>1. ASSUME NEW t \in DOMAIN slots, t < s + 1 PROVE slots[t].key < key + 1
    <3>1. t < s \/ t = s
      BY <1>5, <1>14, <2>1
    <3> QED
      BY <1>5, <1>10, <1>14, <3>1
  <2>2. Rest(cur'[1]) = {k \in held[1] : k >= key + 1}
    <3>1. ASSUME NEW k \in held[1] PROVE k \in Rest(cur[1]) /\ k # key <=> k >= key + 1
      <4>1. k \in Nat
        BY <1>5, <1>6
      <4>2. k \in Rest(cur[1]) => k >= key
        BY <1>10
      <4>3. k >= d => k \in Rest(cur[1])
        BY <1>9
      <4>4. k >= key + 1 => k >= d
        BY <1>10, <4>1
      <4> QED
        BY <1>10, <4>1, <4>2, <4>3, <4>4
    <3> QED
      BY <1>5, <1>6, <1>26, <1>27, <3>1
  <2>3. ASSUME 2 \in N, NEW k \in held[2], k >= key + 1 PROVE k \in Rest(cur'[2])
    <3>1. k >= key /\ k >= d
      <4>1. k \in Nat
        BY <1>5, <2>3
      <4> QED
        BY <1>10, <2>3, <4>1
    <3>2. k \in Rest(cur[2])
      BY <1>9, <2>3, <3>1
    <3> QED
      BY <1>16, <1>27, <2>3, <3>1, <3>2
  <2>4. ASSUME NEW t \in DOMAIN slots
        PROVE  Given(t)' = IF slots[t].key < key + 1 THEN WantedAt(slots[t].key) \cap {1, 2} ELSE {}
    <3>1. CASE t = s
      BY <1>10, <1>14, <1>15, <1>18, <1>25, <3>1
    <3>2. CASE slots[t].key < d
      <4>1. t # s /\ slots[t].key < key + 1
        BY <1>5, <1>10, <1>14, <3>2
      <4> QED
        BY <1>9, <1>25, <3>2, <4>1
    <3>3. CASE t # s /\ slots[t].key >= d /\ slots[t].key < key + 1
      <4>1. slots[t].key < key
        BY <1>5, <1>10, <1>14, <3>3
      <4>2. slots[t].key \notin held[1]
        BY <1>5, <1>9, <1>10, <3>3, <4>1
      <4>3. WantedAt(slots[t].key) = {}
        BY <1>7, <4>2 DEF At
      <4> QED
        BY <1>5, <1>9, <1>10, <1>25, <3>3, <4>3
    <3>4. CASE t # s /\ slots[t].key >= key + 1
      BY SMTT(30), <1>5, <1>9, <1>10, <1>25, <3>4
    <3> QED
      BY <1>5, <1>10, <3>1, <3>2, <3>3, <3>4
  <2>5. \A i : Rest(cur[i])' = Rest(cur'[i])
    OBVIOUS
  <2>6. Below(key + 1)'
    BY <1>4, <1>29, <2>1 DEF Below
  <2> QED
    BY <1>29, <2>2, <2>3, <2>4, <2>5, <2>6 DEF SeedAt
<1>31. DiffPassInv'
  <2>1. \A i \in N : i > 1 /\ i # 2 => Rest(cur'[i]) = held[i]
    <3>1. \A i \in N : i > 1 => i # 1
      OBVIOUS
    <3> QED
      BY <1>7, <1>27, <3>1
  <2>2. \E q \in 0 .. KeyCount : SeedAt(q)'
    BY <1>10, <1>30
  <2> QED
    BY <1>29, <2>1, <2>2 DEF DiffPassInv
<1>32. KeyMajorInv' /\ UnionPassInv'
  BY <1>29 DEF KeyMajorInv, UnionPassInv
<1>33. next_slot' \in 1 .. Len(slots) + 1 /\ pass' \in 1 .. Len(ins) + 1 \cup {3}
  BY <1>4, <1>5, <1>14, <1>29
<1>34. WalkInv'
  BY <1>4, <1>25, <1>28, <1>29, <1>31, <1>32, <1>33, FoldingKeeps
<1> QED
  BY <1>24, <1>34 DEF Handing

LEMMA DiffSlotKeeps ==
  ASSUME WalkInv, DiffSlot
  PROVE  WalkInv' /\ (Handing \/ UNCHANGED << handed, emptied >>)
<1>1. PICK s : s = next_slot
  OBVIOUS
<1>2. PICK key : key = slots[s].key
  OBVIOUS
<1>3. PICK p : p = advance_to(cur[pass], key)
  OBVIOUS
<1>4. /\ phase = "fold" /\ op = "Diff" /\ major = "partner" /\ pass \in N /\ pass # 1
      /\ s <= Len(slots)
      /\ next_slot' = s + 1
      /\ IF Foldable(s)
         THEN /\ peek_key(cur[pass]) # END
              /\ cur' = [cur EXCEPT ![pass] = p.c]
              /\ IF p.hit
                 THEN Hand(s, << Ref(pass, p.c) >>) /\ Subtract(s)
                 ELSE UNCHANGED << handed, emptied >>
         ELSE UNCHANGED << cur, handed, emptied >>
      /\ UNCHANGED << folding, pass >>
  BY <1>1, <1>2, <1>3 DEF DiffSlot
<1>5. /\ InputsOK /\ CursorsOK
      /\ Len(slots) \in Nat /\ DOMAIN slots = 1 .. Len(slots) /\ next_slot \in 1 .. Len(slots) + 1
      /\ \A t \in DOMAIN slots : slots[t].key \in Keys /\ slots[t].key \in Nat
      /\ DOMAIN handed = DOMAIN slots /\ Ascending
      /\ N = 1 .. Len(ins) /\ Len(ins) \in Nat /\ pass \in Nat
      /\ \A i \in N : /\ CursorOK(cur[i]) /\ cur[i].live = live /\ cur[i].at = ins[i].at
                      /\ Rest(cur[i]) \subseteq held[i] /\ held[i] \subseteq Keys /\ held[i] \subseteq live
      /\ \A k \in Keys : k \in Nat
  BY <1>4, PassFacts
<1>6. /\ \A i \in N : i > pass /\ i # 2 => Rest(cur[i]) = held[i]
      /\ pass > 2
      /\ \A t \in DOMAIN slots :
           t >= s /\ slots[t].key \in held[pass] => slots[t].key \in Rest(cur[pass])
      /\ \A t \in DOMAIN slots :
           /\ Given(t) \subseteq {i \in WantedAt(slots[t].key) : SubtractedTo(t, i)}
           /\ t \notin emptied => Given(t) = {i \in WantedAt(slots[t].key) : SubtractedTo(t, i)}
  BY <1>1, <1>4, DiffPassFacts
<1>7. /\ \A k : WantedAt(k) = IF 1 \in At(held, k) THEN At(held, k) ELSE {}
      /\ \A t \in DOMAIN slots : /\ handed[t] = << >> <=> Given(t) = {}
                                 /\ Len(handed[t]) \in Nat /\ (Given(t) # {} => Len(handed[t]) # 0)
                                 /\ t \in emptied => Given(t) # {}
  BY <1>4, DiffPassFacts
<1>8. s \in DOMAIN slots /\ s \in Nat /\ key \in Nat /\ slots[s].key = key
  BY <1>1, <1>2, <1>4, <1>5
<1>9. \A t, i : SubtractedTo(t, i) <=> i < pass \/ (i = pass /\ t < s)
  BY <1>1 DEF SubtractedTo
<1>10. /\ phase' = "fold" /\ major' = "partner" /\ op' = "Diff" /\ slots' = slots /\ pass' = pass
       /\ N' = N /\ held' = held /\ (\A k : WantedAt(k)' = WantedAt(k))
  BY <1>4, SameInputs DEF folding, inputs
<1>11. \A t, i : SubtractedTo(t, i)' <=> i < pass \/ (i = pass /\ t < s + 1)
  BY <1>4, <1>10 DEF SubtractedTo
<1>12. pass \in WantedAt(key) => pass \in At(held, key) /\ key \in held[pass] /\ key \in Rest(cur[pass])
  <2>1. pass \in At(held, key) => key \in held[pass]
    BY DEF At
  <2>2. s >= s
    BY <1>8
  <2> QED
    BY <1>6, <1>7, <1>8, <2>1, <2>2
<1>13. \A t \in DOMAIN slots : \A i \in N : t # s => (SubtractedTo(t, i)' <=> SubtractedTo(t, i))
  <2>1. \A t \in DOMAIN slots : t # s => (t < s + 1 <=> t < s)
    BY <1>5, <1>8
  <2> QED
    BY <1>9, <1>11, <2>1
<1>14. \A k : WantedAt(k) \subseteq N
  BY <1>5, WantedFacts
<1>15. ~ (pass < pass) /\ ~ (s < s) /\ s < s + 1 /\ 1 < pass
  BY <1>5, <1>6, <1>8
\* What each way through the step has to show.
<1>16. ASSUME CursorsOK', HandedOK', DOMAIN handed' = DOMAIN slots',
              handed' \in Seq(Seq([input : N', key : Keys, from : Nat, upto : Nat])),
              emptied' \subseteq DOMAIN slots',
              \A i \in N : i # pass => Rest(cur'[i]) = Rest(cur[i]),
              \A t \in DOMAIN slots : t >= s + 1 /\ slots[t].key \in held[pass] => slots[t].key \in Rest(cur'[pass]),
              \A t \in DOMAIN slots : t # s => Given(t)' = Given(t) /\ (t \in emptied' <=> t \in emptied),
              Given(s)' \subseteq {i \in WantedAt(key) : SubtractedTo(s, i)'},
              s \notin emptied' => Given(s)' = {i \in WantedAt(key) : SubtractedTo(s, i)'}
       PROVE  WalkInv'
  <2>1. \A i \in N : i > pass /\ i # 2 => Rest(cur'[i]) = held[i]
    <3>1. \A i \in N : i > pass => i # pass
      BY <1>15
    <3> QED
      BY <1>6, <1>16, <3>1
  <2>2. ASSUME NEW t \in DOMAIN slots
        PROVE  /\ Given(t)' \subseteq {i \in WantedAt(slots[t].key) : SubtractedTo(t, i)'}
               /\ t \notin emptied' => Given(t)' = {i \in WantedAt(slots[t].key) : SubtractedTo(t, i)'}
    <3>1. CASE t = s
      BY <1>8, <1>16, <3>1
    <3>2. CASE t # s
      <4>1. {i \in WantedAt(slots[t].key) : SubtractedTo(t, i)'} = {i \in WantedAt(slots[t].key) : SubtractedTo(t, i)}
        BY <1>13, <1>14, <3>2
      <4> QED
        BY <1>6, <1>16, <3>2, <4>1
    <3> QED
      BY <3>1, <3>2
  <2>3. \A i : Rest(cur[i])' = Rest(cur'[i])
    OBVIOUS
  <2>4. DiffPassInv'
    <3>1. \A t \in DOMAIN slots' :
            /\ Given(t)' \subseteq {i \in WantedAt(slots[t].key)' : SubtractedTo(t, i)'}
            /\ t \notin emptied' => Given(t)' = {i \in WantedAt(slots[t].key)' : SubtractedTo(t, i)'}
      BY <1>10, <2>2
    <3>2. pass' # 1 /\ pass' > 2
      BY <1>4, <1>6, <1>10
    <3>3. \A t \in DOMAIN slots : t >= next_slot' /\ slots[t].key \in held[pass] => slots[t].key \in Rest(cur'[pass])
      BY <1>4, <1>16
    <3> QED
      BY <1>10, <2>1, <2>3, <3>1, <3>2, <3>3 DEF DiffPassInv
  <2>5. KeyMajorInv' /\ UnionPassInv'
    BY <1>10 DEF KeyMajorInv, UnionPassInv
  <2>6. pass' \in 1 .. Len(ins) + 1 \cup {3} /\ next_slot' \in 1 .. Len(slots) + 1
    BY <1>4, <1>5, <1>8, <1>10
  <2>7. emptied' # {} => op' = "Diff" /\ major' = "partner"
    BY <1>10
  <2> QED
    BY <1>4, <1>10, <1>16, <2>4, <2>5, <2>6, <2>7, FoldingKeeps
<1>17. ASSUME cur' = cur \/ (cur' = [cur EXCEPT ![pass] = p.c] /\ CursorOK(p.c) /\ Alike(p.c, cur[pass])
                             /\ Rest(p.c) = {k \in Rest(cur[pass]) : k >= key})
       PROVE  /\ CursorsOK' /\ (\A i \in N : i # pass => Rest(cur'[i]) = Rest(cur[i]))
              /\ \A t \in DOMAIN slots : t >= s + 1 /\ slots[t].key \in held[pass] => slots[t].key \in Rest(cur'[pass])
  <2>1. \A t \in DOMAIN slots : t >= s + 1 => t >= s /\ slots[t].key >= key
    <3> SUFFICES ASSUME NEW t \in DOMAIN slots, t >= s + 1 PROVE t >= s /\ slots[t].key >= key
      OBVIOUS
    <3>1. s < t /\ t >= s
      BY <1>5, <1>8
    <3>2. key < slots[t].key
      BY <1>5, <1>8, <3>1 DEF Ascending
    <3> QED
      BY <1>5, <1>8, <3>1, <3>2
  <2>2. CASE cur' = cur
    <3>1. \A i \in N : CursorOK(cur[i]) /\ Alike(cur[i], cur[i])
      BY <1>5 DEF Alike
    <3>2. CursorsOK'
      <4>1. DOMAIN cur' = N /\ cur' = [i \in N |-> cur'[i]]
        BY <1>5, <2>2 DEF CursorsOK
      <4> QED
        BY <1>4, <1>5, <2>2, <3>1, <4>1, CursorsStay DEF folding
    <3> QED
      BY <1>6, <2>1, <2>2, <3>2
  <2>3. CASE /\ cur' = [cur EXCEPT ![pass] = p.c] /\ CursorOK(p.c) /\ Alike(p.c, cur[pass])
             /\ Rest(p.c) = {k \in Rest(cur[pass]) : k >= key}
    <3>1. /\ CursorsOK' /\ Rest(cur'[pass]) = {k \in Rest(cur[pass]) : k >= key}
          /\ \A j \in N \ {pass} : Rest(cur'[j]) = Rest(cur[j])
      BY ZenonT(60), <1>4, <1>5, <2>3, OneMoved
    <3> QED
      BY <1>6, <2>1, <3>1
  <2> QED
    BY <1>17, <2>2, <2>3
<1>18. CASE ~Foldable(s)
  <2>1. cur' = cur /\ handed' = handed /\ emptied' = emptied
    BY <1>4, <1>18
  <2>2. /\ HandedOK' /\ DOMAIN handed' = DOMAIN slots' /\ emptied' \subseteq DOMAIN slots'
        /\ handed' \in Seq(Seq([input : N', key : Keys, from : Nat, upto : Nat]))
        /\ \A t \in DOMAIN slots : Given(t)' = Given(t)
    <3>1. \A t \in DOMAIN slots : Given(t)' = Given(t)
      BY <2>1 DEF Given
    <3>2. HandedOK'
      BY <1>4, <1>5, <1>10, <2>1, <3>1, SameInputs DEF WalkInv, HandedOK, folding, inputs
    <3> QED
      BY <1>4, <1>5, <1>10, <2>1, <3>1, <3>2 DEF WalkInv, ShapeOK
  <2>3. s \in emptied \/ Given(s) = {}
    BY <1>5, <1>7, <1>8, <1>18 DEF Foldable
  <2>4. Given(s) \subseteq {i \in WantedAt(key) : SubtractedTo(s, i)'}
    BY <1>6, <1>8, <1>9, <1>11
  <2>5. s \notin emptied => {i \in WantedAt(key) : SubtractedTo(s, i)'} = {} /\ Given(s) = {}
    <3> SUFFICES ASSUME s \notin emptied, NEW i \in WantedAt(key) PROVE FALSE
      BY <2>3
    <3>1. 1 \in WantedAt(key)
      BY <1>7
    <3>2. 1 \in Given(s)
      BY <1>6, <1>8, <1>9, <1>15, <3>1
    <3> QED
      BY <2>3, <3>2
  <2>6. WalkInv'
    <3>1. /\ CursorsOK' /\ (\A i \in N : i # pass => Rest(cur'[i]) = Rest(cur[i]))
          /\ \A t \in DOMAIN slots : t >= s + 1 /\ slots[t].key \in held[pass] => slots[t].key \in Rest(cur'[pass])
      BY <1>17, <2>1
    <3>2. \A t \in DOMAIN slots : t # s => Given(t)' = Given(t) /\ (t \in emptied' <=> t \in emptied)
      BY <2>1, <2>2
    <3>3. /\ Given(s)' \subseteq {i \in WantedAt(key) : SubtractedTo(s, i)'}
          /\ s \notin emptied' => Given(s)' = {i \in WantedAt(key) : SubtractedTo(s, i)'}
      BY <1>8, <2>1, <2>2, <2>4, <2>5
    <3> QED
      BY <1>16, <2>2, <3>1, <3>2, <3>3
  <2> QED
    BY <2>1, <2>6
<1>19. CASE Foldable(s)
  <2>1. Given(s) # {} /\ s \notin emptied
    BY <1>5, <1>7, <1>8, <1>19 DEF Foldable
  <2>2. Given(s) = {i \in WantedAt(key) : SubtractedTo(s, i)} /\ WantedAt(key) # {}
    BY <1>6, <1>8, <2>1
  <2>3. WantedAt(key) = At(held, key)
    BY <1>7, <2>2
  <2>4. key \in live
    <3>1. PICK i \in N : key \in held[i]
      BY <2>2, <2>3 DEF At
    <3> QED
      BY <1>5, <3>1
  <2>5. /\ CursorOK(p.c) /\ Alike(p.c, cur[pass])
        /\ Rest(p.c) = {k \in Rest(cur[pass]) : k >= key}
        /\ p.hit \in BOOLEAN /\ (p.hit <=> key \in Rest(cur[pass])) /\ (p.hit => peek_key(p.c) = key)
    <3>1. CursorOK(cur[pass]) /\ key \in cur[pass].live
      BY <1>4, <1>5, <2>4
    <3> QED
      BY <1>3, <3>1, AdvanceTo
  <2>6. p.hit <=> pass \in WantedAt(key)
    <3>1. key \in Rest(cur[pass]) => pass \in At(held, key)
      BY <1>4, <1>5 DEF At
    <3> QED
      BY <1>12, <2>3, <2>5, <3>1
  <2>7. cur' = [cur EXCEPT ![pass] = p.c]
    BY <1>4, <1>19
  <2>8. /\ CursorsOK' /\ (\A i \in N : i # pass => Rest(cur'[i]) = Rest(cur[i]))
        /\ \A t \in DOMAIN slots : t >= s + 1 /\ slots[t].key \in held[pass] => slots[t].key \in Rest(cur'[pass])
    BY <1>17, <2>5, <2>7
  <2>9. CASE ~p.hit
    <3>1. handed' = handed /\ emptied' = emptied
      BY <1>4, <1>19, <2>9
    <3>2. /\ HandedOK' /\ DOMAIN handed' = DOMAIN slots' /\ emptied' \subseteq DOMAIN slots'
          /\ handed' \in Seq(Seq([input : N', key : Keys, from : Nat, upto : Nat]))
          /\ \A t \in DOMAIN slots : Given(t)' = Given(t)
      <4>1. \A t \in DOMAIN slots : Given(t)' = Given(t)
        BY <3>1 DEF Given
      <4>2. HandedOK'
        BY <1>4, <1>5, <1>10, <3>1, <4>1, SameInputs DEF WalkInv, HandedOK, folding, inputs
      <4> QED
        BY <1>4, <1>5, <1>10, <3>1, <4>1, <4>2 DEF WalkInv, ShapeOK
    <3>3. {i \in WantedAt(key) : SubtractedTo(s, i)'} = Given(s)
      <4>1. \A i \in WantedAt(key) : SubtractedTo(s, i)' <=> SubtractedTo(s, i)
        BY <1>9, <1>11, <2>6, <2>9
      <4> QED
        BY <2>2, <4>1
    <3>4. WalkInv'
      BY <1>8, <1>16, <2>8, <3>1, <3>2, <3>3
    <3> QED
      BY <3>1, <3>4
  <2>10. CASE p.hit
    <3>1. PICK refs : refs = << Ref(pass, p.c) >>
      OBVIOUS
    <3>2. handed' = [handed EXCEPT ![s] = @ \o refs] /\ emptied' \in {emptied, emptied \cup {s}}
      BY <1>4, <1>8, <1>19, <2>10, <3>1 DEF Hand, Subtract
    <3>3. Containers(refs, {pass}, key) /\ Len(refs) = 1
      <4>1. p.c.at = ins[pass].at /\ peek_key(p.c) = key /\ key # END
        <5>1. key \in Keys
          BY <1>5, <1>8
        <5>2. key # END
          BY <5>1, KeysAre
        <5> QED
          BY <1>4, <1>5, <2>5, <2>10, <5>2 DEF Alike
      <4> QED
        BY <1>4, <1>5, <2>5, <3>1, <4>1, OneContainer
    <3>4. pass \in WantedAt(key) \ Given(s)
      BY <1>9, <1>15, <2>2, <2>6, <2>10
    <3>5. ASSUME NEW t \in DOMAIN slots, {pass} \cap Given(t) # {} PROVE slots[t].key < slots[s].key
      <4>1. SubtractedTo(t, pass)
        BY <1>6, <3>5
      <4>2. t < s
        BY <1>9, <1>15, <4>1
      <4> QED
        BY <1>5, <1>8, <4>2 DEF Ascending
    <3>6. Len(handed[s]) + Len(refs) > 1
      <4>1. Len(handed[s]) \in Nat /\ Len(handed[s]) # 0
        BY <1>7, <1>8, <2>1
      <4> QED
        BY <3>3, <4>1
    <3>7. HandOver(s, refs, {pass})
      BY <1>4, <1>8, <2>1, <3>2, <3>3, <3>4, <3>5, <3>6 DEF HandOver
    <3>8. /\ HandedOK' /\ DOMAIN handed' = DOMAIN slots'
          /\ handed' \in Seq(Seq([input : N', key : Keys, from : Nat, upto : Nat]))
          /\ emptied' \subseteq DOMAIN slots'
          /\ \A t \in DOMAIN slots : Given(t)' = IF t = s THEN Given(s) \cup {pass} ELSE Given(t)
      BY <3>7, HandOverIs
    <3>9. Given(s)' = {i \in WantedAt(key) : SubtractedTo(s, i)'}
      <4>1. \A i : SubtractedTo(s, i)' <=> SubtractedTo(s, i) \/ i = pass
        BY <1>9, <1>11, <1>15
      <4>2. Given(s)' = Given(s) \cup {pass}
        BY <1>8, <3>8
      <4> QED
        BY <2>2, <3>4, <4>1, <4>2
    <3>10. \A t \in DOMAIN slots : t # s => Given(t)' = Given(t) /\ (t \in emptied' <=> t \in emptied)
      BY <3>2, <3>8
    <3>11. WalkInv'
      BY <1>16, <2>8, <3>8, <3>9, <3>10
    <3> QED
      BY <3>7, <3>11 DEF Handing
  <2> QED
    BY <2>9, <2>10
<1> QED
  BY <1>18, <1>19

LEMMA NextPassKeeps ==
  ASSUME WalkInv, NextPass
  PROVE  WalkInv' /\ UNCHANGED << handed, emptied >>
<1>1. /\ phase = "fold" /\ major = "partner" /\ pass \in N /\ PassOver
      /\ pass' = next_pass /\ next_slot' = 1
      /\ UNCHANGED << folding, cur, handed, emptied >>
  BY DEF NextPass
<1>2. /\ InputsOK /\ CursorsOK /\ op \in {"Union", "Diff"}
      /\ Len(slots) \in Nat /\ DOMAIN slots = 1 .. Len(slots)
      /\ \A t \in DOMAIN slots : slots[t].key \in Keys /\ slots[t].key \in Nat
      /\ DOMAIN handed = DOMAIN slots
      /\ N = 1 .. Len(ins) /\ Len(ins) \in Nat /\ pass \in Nat /\ pass \in 1 .. Len(ins) + 1 \cup {3}
      /\ \A i \in N : /\ CursorOK(cur[i]) /\ Rest(cur[i]) \subseteq held[i] /\ held[i] \subseteq Keys
      /\ \A k \in Keys : k \in Nat
      /\ ins # << >> => order # << >> /\ (op = "Diff" => order[1] = 1)
  BY <1>1, PassFacts
<1>3. /\ phase' = "fold" /\ major' = "partner" /\ op' = op /\ slots' = slots /\ cur' = cur /\ emptied' = emptied /\ handed' = handed
      /\ N' = N /\ held' = held /\ (\A k : WantedAt(k)' = WantedAt(k))
  BY <1>1, SameInputs DEF folding, inputs
<1>4. \A t : Given(t)' = Given(t)
  BY <1>1 DEF Given
<1>5. HandedOK'
  BY <1>1, <1>3, <1>4, SameInputs DEF WalkInv, HandedOK, folding, inputs
<1>6. CursorsOK'
  <2>1. \A i \in N : CursorOK(cur[i]) /\ Alike(cur[i], cur[i])
    BY <1>2 DEF Alike
  <2>2. DOMAIN cur' = N /\ cur' = [i \in N |-> cur'[i]]
    BY <1>2, <1>3 DEF CursorsOK
  <2> QED
    BY <1>1, <1>2, <1>3, <2>1, <2>2, CursorsStay DEF folding
<1>7. \A t \in DOMAIN slots : ~ (t < 1)
  BY <1>2
<1>8. \A i : Rest(cur[i])' = Rest(cur[i])
  BY <1>3
<1>9. ASSUME pass' \in 1 .. Len(ins) + 1 \cup {3}, UnionPassInv', DiffPassInv' PROVE WalkInv'
  <2>1. KeyMajorInv'
    BY <1>3 DEF KeyMajorInv
  <2>2. /\ DOMAIN handed' = DOMAIN slots'
        /\ handed' \in Seq(Seq([input : N', key : Keys, from : Nat, upto : Nat]))
        /\ emptied' \subseteq DOMAIN slots' /\ (emptied' # {} => op' = "Diff" /\ major' = "partner")
    BY <1>1, <1>3 DEF WalkInv, ShapeOK
  <2>3. next_slot' \in 1 .. Len(slots) + 1
    BY <1>1, <1>2
  <2> QED
    BY <1>1, <1>5, <1>6, <1>9, <2>1, <2>2, <2>3, FoldingKeeps
<1>10. CASE op = "Union"
  <2>1. pass' = pass + 1
    BY <1>1, <1>10 DEF next_pass
  <2>2. Rest(cur[pass]) = {}
    BY <1>1, <1>2, <1>10, PeekIs DEF PassOver
  <2>3. UnionPassInv
    BY DEF WalkInv
  <2>4. /\ \A i \in N : /\ i < pass => Rest(cur[i]) = {}
                        /\ i > pass => Rest(cur[i]) = held[i]
                        /\ \A k \in held[i] \ Rest(cur[i]), m \in Rest(cur[i]) : k < m
        /\ \A t \in DOMAIN slots : Given(t) = {i \in N : slots[t].key \in held[i] \ Rest(cur[i])}
    BY <1>1, <1>10, <2>3 DEF UnionPassInv
  <2>5. Behind'
    BY <1>1, <1>3, <1>7 DEF Behind
  <2>6. \A i \in N : /\ i < pass + 1 => i < pass \/ i = pass
                     /\ i > pass + 1 => i > pass
    BY <1>1, <1>2
  <2>7. UnionPassInv'
    BY <1>3, <1>4, <1>8, <2>1, <2>2, <2>4, <2>5, <2>6 DEF UnionPassInv
  <2>8. DiffPassInv'
    BY <1>3, <1>10 DEF DiffPassInv
  <2>9. pass' \in 1 .. Len(ins) + 1 \cup {3}
    BY <1>1, <1>2, <2>1
  <2> QED
    BY <1>1, <1>9, <2>7, <2>8, <2>9
<1>11. CASE op = "Diff"
  <2>1. /\ \A i \in N : i > pass /\ i # 2 => Rest(cur[i]) = held[i]
        /\ pass = 1 => \E d \in 0 .. KeyCount : SeedAt(d)
        /\ pass # 1 =>
             /\ pass > 2
             /\ pass \in N => \A s \in DOMAIN slots :
                  s >= next_slot /\ slots[s].key \in held[pass] => slots[s].key \in Rest(cur[pass])
             /\ \A s \in DOMAIN slots :
                  /\ Given(s) \subseteq {i \in WantedAt(slots[s].key) : SubtractedTo(s, i)}
                  /\ s \notin emptied => Given(s) = {i \in WantedAt(slots[s].key) : SubtractedTo(s, i)}
        /\ \A k : WantedAt(k) = IF 1 \in At(held, k) THEN At(held, k) ELSE {}
    BY <1>1, <1>11, DiffPassFacts
  <2>2. \A k : WantedAt(k) \subseteq N
    BY <1>2, WantedFacts
  <2>3. UnionPassInv'
    BY <1>3, <1>11 DEF UnionPassInv
  \* What is left to show when a pass begins at a new input q.
  <2>4. ASSUME NEW q \in Nat, pass' = q, q > 2, q \in 1 .. Len(ins) + 1 \cup {3},
               \A i \in N : i >= q => Rest(cur[i]) = held[i],
               \A s \in DOMAIN slots :
                 /\ Given(s) \subseteq {i \in WantedAt(slots[s].key) : i < q}
                 /\ s \notin emptied => Given(s) = {i \in WantedAt(slots[s].key) : i < q}
        PROVE  WalkInv'
    <3>1. \A i \in N : i > q => i >= q
      BY <1>2, <2>4
    <3>2. \A s \in DOMAIN slots : \A i : SubtractedTo(s, i)' <=> i < q
      BY <1>1, <1>7, <2>4 DEF SubtractedTo
    <3>3. \A s \in DOMAIN slots : {i \in WantedAt(slots[s].key) : SubtractedTo(s, i)'} = {i \in WantedAt(slots[s].key) : i < q}
      BY <3>2
    <3>4. \A s \in DOMAIN slots' :
            /\ Given(s)' \subseteq {i \in WantedAt(slots[s].key)' : SubtractedTo(s, i)'}
            /\ s \notin emptied' => Given(s)' = {i \in WantedAt(slots[s].key)' : SubtractedTo(s, i)'}
      BY <1>3, <1>4, <2>4, <3>3
    <3>5. q \in N => Rest(cur[q]) = held[q]
      BY <2>4
    <3>6. DiffPassInv'
      BY <1>3, <1>8, <2>4, <3>1, <3>4, <3>5 DEF DiffPassInv
    <3> QED
      BY <1>9, <2>3, <2>4, <3>6
  <2>5. CASE pass = 1
    <3>1. pass' = 3
      BY <1>1, <1>11, <2>5 DEF next_pass
    <3>2. PICK d \in 0 .. KeyCount : SeedAt(d)
      BY <2>1, <2>5
    <3>3. 1 \in N /\ ins # << >> /\ order # << >> /\ order[1] = 1
      BY <1>1, <1>2, <1>11, <2>5, InputFacts
    <3>4. Rest(cur[1]) = {}
      <4>1. driver_key = END
        BY <1>1, <1>11, <2>5 DEF PassOver
      <4>2. peek_key(cur[1]) = END
        BY <3>3, <4>1 DEF driver_key
      <4> QED
        BY <1>2, <3>3, <4>2, PeekIs
    <3>5. /\ Rest(cur[1]) = {k \in held[1] : k >= d}
          /\ \A t \in DOMAIN slots :
               Given(t) = IF slots[t].key < d THEN WantedAt(slots[t].key) \cap {1, 2} ELSE {}
      BY <3>2, <3>3 DEF SeedAt
    <3>6. ASSUME NEW t \in DOMAIN slots PROVE Given(t) = {i \in WantedAt(slots[t].key) : i < 3}
      <4>1. WantedAt(slots[t].key) \cap {1, 2} = {i \in WantedAt(slots[t].key) : i < 3}
        <5>1. \A i \in N : i < 3 <=> i \in {1, 2}
          BY <1>2
        <5> QED
          BY <2>2, <5>1
      <4>2. CASE slots[t].key < d
        BY <3>5, <4>1, <4>2
      <4>3. CASE ~ (slots[t].key < d)
        <5>1. slots[t].key >= d
          BY <1>2, <4>3
        <5>2. slots[t].key \notin held[1]
          BY <3>4, <3>5, <5>1
        <5>3. WantedAt(slots[t].key) = {}
          BY <2>1, <5>2 DEF At
        <5> QED
          BY <3>5, <4>3, <5>3
      <4> QED
        BY <4>2, <4>3
    <3>7. \A i \in N : i >= 3 => i > pass /\ i # 2
      BY <1>2, <2>5
    <3>8. WalkInv'
      BY <2>1, <2>4, <3>1, <3>6, <3>7
    <3> QED
      BY <1>1, <3>8
  <2>6. CASE pass # 1
    <3>1. pass' = pass + 1
      BY <1>1, <1>11, <2>6 DEF next_pass
    <3>2. next_slot > Len(slots) \/ Rest(cur[pass]) = {}
      <4>1. next_slot > Len(slots) \/ peek_key(cur[pass]) = END
        BY <1>1, <1>11, <2>6 DEF PassOver
      <4> QED
        BY <1>1, <1>2, <4>1, PeekIs
    <3>3. next_slot \in Nat
      BY DEF WalkInv, ShapeOK
    <3>4. ASSUME NEW s \in DOMAIN slots PROVE pass \in WantedAt(slots[s].key) => s < next_slot
      <4> SUFFICES ASSUME pass \in WantedAt(slots[s].key), ~ (s < next_slot) PROVE FALSE
        OBVIOUS
      <4>1. slots[s].key \in held[pass]
        BY <2>1 DEF At
      <4>2. s >= next_slot /\ ~ (next_slot > Len(slots))
        BY <1>2, <3>3
      <4> QED
        BY <1>1, <2>1, <2>6, <3>2, <4>1, <4>2
    <3>5. ASSUME NEW s \in DOMAIN slots
          PROVE  /\ Given(s) \subseteq {i \in WantedAt(slots[s].key) : i < pass + 1}
                 /\ s \notin emptied => Given(s) = {i \in WantedAt(slots[s].key) : i < pass + 1}
      <4>1. \A i \in WantedAt(slots[s].key) : SubtractedTo(s, i) <=> i < pass + 1
        <5> SUFFICES ASSUME NEW i \in WantedAt(slots[s].key) PROVE SubtractedTo(s, i) <=> i < pass + 1
          OBVIOUS
        <5>1. i \in Nat
          BY <1>2, <2>2
        <5>2. i < pass + 1 <=> i < pass \/ i = pass
          BY <1>2, <5>1
        <5> QED
          BY <3>4, <5>2 DEF SubtractedTo
      <4> QED
        BY <2>1, <2>6, <4>1
    <3>6. \A i \in N : i >= pass + 1 => i > pass /\ i # 2
      BY <1>2, <2>1, <2>6
    <3>7. pass + 1 \in Nat /\ pass + 1 > 2 /\ pass + 1 \in 1 .. Len(ins) + 1 \cup {3}
      BY <1>1, <1>2, <2>1, <2>6
    <3>8. WalkInv'
      BY <2>1, <2>4, <3>1, <3>5, <3>6, <3>7
    <3> QED
      BY <1>1, <3>8
  <2> QED
    BY <2>5, <2>6
<1> QED
  BY <1>2, <1>10, <1>11

LEMMA FoldDoneKeeps ==
  ASSUME WalkInv, FoldDone
  PROVE  WalkInv' /\ UNCHANGED << handed, emptied, slots, inputs >>
<1>1. /\ phase = "fold" /\ phase' = "done"
      /\ UNCHANGED << inputs, order, major, cur, slots, pass, next_slot, handed, emptied >>
  BY DEF FoldDone
<1>2. /\ op' = op /\ route' = route /\ ins' = ins /\ N' = N /\ held' = held /\ foretold' = foretold
      /\ fold_order' = fold_order
      /\ \A k : WantedAt(k)' = WantedAt(k)
      /\ \A r : Whole(r)' = Whole(r)
      /\ InputsOK'
  BY <1>1, SameInputs DEF WalkInv
<1>3. CursorsOK'
  <2>1. InputsOK /\ CursorsOK /\ Ready
    BY CursorsAre DEF WalkInv
  <2>2. \A i \in N : CursorOK(cur[i]) /\ Alike(cur[i], cur[i])
    BY <2>1 DEF Ready, Alike
  <2> QED
    BY <1>1, <2>1, <2>2, CursorsStay DEF Ready
<1>4. OrderOK'
  BY <1>1, <1>2 DEF WalkInv, OrderOK
<1>5. ShapeOK'
  BY <1>1, <1>2 DEF WalkInv, ShapeOK
<1>6. LaidOut'
  <2>1. SlotKeys' = SlotKeys /\ (Ascending => Ascending')
    BY <1>1, SameKeys
  <2>2. \A s : (Roomy(s) => Roomy(s)') /\ (Sized(s) => Sized(s)')
    BY <1>1, <1>2 DEF Roomy, Sized, At
  <2>3. Planful' = Planful
    <3>1. plan_order' = plan_order
      BY <1>1, SameInputs
    <3> QED
      BY <1>2, <3>1 DEF Planful, At
  <2> QED
    BY <1>1, <1>2, <2>1, <2>2, <2>3 DEF WalkInv, LaidOut
<1>7. HandedOK'
  <2>1. \A s : Given(s)' = Given(s)
    BY <1>1 DEF Given
  <2> QED
    BY <1>1, <1>2, <2>1 DEF WalkInv, HandedOK
<1>8. PlanInv' /\ ObserveInv' /\ KeyMajorInv' /\ UnionPassInv' /\ DiffPassInv'
  BY <1>1 DEF PlanInv, ObserveInv, KeyMajorInv, UnionPassInv, DiffPassInv
<1> QED
  BY <1>1, <1>2, <1>3, <1>4, <1>5, <1>6, <1>7, <1>8 DEF WalkInv

----------------------------------------------------------------------------
\* The invariant holds, and what follows from it.

LEMMA StutterKeeps ==
  ASSUME WalkInv, UNCHANGED vars
  PROVE  WalkInv'
<1>1. UNCHANGED << op, route, ins, live, phase, order, major, cur, slots, pass, next_slot, handed, emptied, inputs >>
  BY DEF vars, inputs
<1>2. /\ N' = N /\ foretold' = foretold /\ held' = held
      /\ PlannedByMerge' = PlannedByMerge /\ plan_order' = plan_order /\ fold_order' = fold_order
      /\ \A i : cursor(i)' = cursor(i) /\ plan_cursor(i)' = plan_cursor(i)
      /\ \A k : WantedAt(k)' = WantedAt(k)
      /\ \A r : Whole(r)' = Whole(r)
      /\ InputsOK'
  BY <1>1, SameInputs DEF WalkInv
<1>3. CursorsOK' /\ OrderOK' /\ ShapeOK'
  BY <1>1, <1>2 DEF WalkInv, CursorsOK, OrderOK, ShapeOK
<1>4. /\ SlotKeys' = SlotKeys /\ (Ascending => Ascending') /\ Planful' = Planful
      /\ \A s : Given(s)' = Given(s)
      /\ \A s : (Roomy(s) => Roomy(s)') /\ (Sized(s) => Sized(s)')
  <2>1. SlotKeys' = SlotKeys /\ (Ascending => Ascending')
    BY <1>1, SameKeys
  <2>2. \A s : (Roomy(s) => Roomy(s)') /\ (Sized(s) => Sized(s)')
    BY <1>1, <1>2 DEF Roomy, Sized, At
  <2>3. Planful' = Planful
    BY <1>1, <1>2 DEF Planful, At
  <2>4. \A s : Given(s)' = Given(s)
    BY <1>1 DEF Given
  <2> QED
    BY <2>1, <2>2, <2>3, <2>4
<1>5. LaidOut' /\ HandedOK'
  BY <1>1, <1>2, <1>4 DEF WalkInv, LaidOut, HandedOK
<1>6. PlanInv'
  <2>1. \A d : PlanAt(d) => PlanAt(d)'
    BY <1>1, <1>2, <1>4 DEF PlanAt, Level, Driven
  <2> QED
    BY <1>1, <1>4, <2>1 DEF WalkInv, PlanInv
<1>7. ObserveInv' /\ UnionPassInv'
  BY <1>1, <1>2, <1>4 DEF WalkInv, ObserveInv, UnionPassInv, Behind
<1>8. KeyMajorInv'
  <2>1. \A d : KeyMajorAt(d) => KeyMajorAt(d)'
    BY <1>1, <1>2, <1>4 DEF KeyMajorAt, Below, Level, Driven
  <2> QED
    BY <1>1, <2>1 DEF WalkInv, KeyMajorInv
<1>9. DiffPassInv'
  <2>1. \A d : SeedAt(d) => SeedAt(d)'
    BY <1>1, <1>2, <1>4 DEF SeedAt, Below
  <2> QED
    BY <1>1, <1>2, <1>4, <2>1 DEF WalkInv, DiffPassInv, SubtractedTo
<1> QED
  BY <1>2, <1>3, <1>5, <1>6, <1>7, <1>8, <1>9 DEF WalkInv

LEMMA StepKeeps ==
  ASSUME WalkInv, [Next]_vars
  PROVE  WalkInv'
<1>1. CASE Next
  BY <1>1, PlanDrivenKeeps, PlanMergeKeeps, PlanDoneKeeps, PlanAgainKeeps, ObserveKeeps, ObserveDoneKeeps,
     IntersectKeyKeeps, UnionKeyKeeps, DiffKeyKeeps, UnionPassKeeps, DiffSeedKeeps, DiffSlotKeeps,
     NextPassKeeps, FoldDoneKeeps DEF Next
<1>2. CASE UNCHANGED vars
  BY <1>2, StutterKeeps
<1> QED
  BY <1>1, <1>2

\* Both walks keep to WalkInv: where each cursor is, which keys have slots, and
\* what every slot was handed so far (plan.rs, shape.rs, ops/kernels).
THEOREM WalksAgree == Spec => []WalkInv
<1>1. Init => WalkInv
  BY StartsRight
<1>2. WalkInv /\ [Next]_vars => WalkInv'
  BY StepKeeps
<1> QED
  BY <1>1, <1>2, PTL DEF Spec

LEMMA WalkInvTypes ==
  ASSUME WalkInv
  PROVE  TypeOK
<1>1. /\ InputsOK /\ CursorsOK
      /\ phase \in {"plan", "observe", "fold", "done"} /\ major \in {"key", "partner"}
      /\ slots \in Seq([key : Keys, who : SUBSET N])
      /\ handed \in Seq(Seq(Refs))
      /\ pass \in 1 .. Len(ins) + 1 \cup {3} /\ next_slot \in Nat \ {0} /\ next_slot <= Len(slots) + 1
      /\ emptied \subseteq DOMAIN slots
  BY DEF WalkInv, ShapeOK, Refs
<1>2. Len(slots) \in Nat
  BY <1>1, SlotTypes
<1>3. /\ N = 1 .. Len(ins) /\ Len(ins) \in Nat /\ Len(ins) <= MaxArity /\ MaxArity \in Nat
  BY <1>1, InputFacts
<1>4. Range(order) \subseteq N
  <2>1. order \in Seq(N)
    <3>1. order = plan_order \/ order = << >> \/ (ins # << >> /\ order = fold_order)
      BY DEF WalkInv, OrderOK
    <3>2. << >> \in Seq(N)
      OBVIOUS
    <3> QED
      BY <1>1, <3>1, <3>2, PlanOrderIs, FoldOrderIs
  <2> QED
    BY <2>1, RangeIs
<1>5. DOMAIN cur = N /\ \A i \in N : cur[i].pos \in 1 .. Len(cur[i].at) + 1
  <2>1. Ready
    BY <1>1, CursorsAre
  <2>2. \A i \in N : Along(cur[i])
    BY <2>1 DEF Ready, CursorOK
  <2> QED
    BY <2>1, <2>2, CursorFacts DEF Ready
<1>6. handed \in Seq(Seq(RefType))
  <2>1. Refs \subseteq RefType
    BY <1>3, KeysAre DEF Refs, RefType
  <2>2. \A s \in Seq(Refs) : s \in Seq(RefType)
    BY <2>1, SeqDef
  <2>3. PICK n \in Nat : handed \in [1 .. n -> Seq(Refs)]
    BY <1>1, SeqDef
  <2>4. handed \in [1 .. n -> Seq(RefType)]
    BY <2>2, <2>3
  <2> QED
    BY <2>4, FunIsSeq
<1>7. next_slot \in 1 .. Len(slots) + 2
  BY <1>1, <1>2
<1> QED
  BY <1>1, <1>4, <1>5, <1>6, <1>7 DEF TypeOK, InputsOK

\* Every container is folded into the slot planned for its key, and no walk ever
\* claims a slot past the plan, for any inputs, masks and number of keys
\* (arena.rs:217, union.rs:70, cursor.rs:215).
THEOREM ClaimsItsSlot == Spec => []AtItsSlot
<1>1. WalkInv => AtItsSlot
  <2> SUFFICES ASSUME WalkInv PROVE AtItsSlot
    OBVIOUS
  <2>1. TypeOK
    BY WalkInvTypes
  <2>2. next_slot <= Len(slots) + 1
    BY DEF WalkInv, ShapeOK
  <2>3. \A s \in DOMAIN handed : \A j \in DOMAIN handed[s] : handed[s][j].key = slots[s].key
    BY DEF WalkInv, HandedOK
  <2> QED
    BY <2>1, <2>2, <2>3 DEF AtItsSlot
<1> QED
  BY <1>1, WalksAgree, PTL

LEMMA WalkInvForesees ==
  ASSUME WalkInv
  PROVE  Foreseen
<1> SUFFICES ASSUME NEW s \in DOMAIN handed
             PROVE  CASE op = "Union"     -> Given(s) \subseteq slots[s].who
                      [] op = "Intersect" -> Given(s) # {} => Given(s) = N /\ slots[s].who = N
                      [] op = "Diff"      -> /\ Given(s) # {} => 1 \in Given(s)
                                             /\ Given(s) \ {1} # {} => slots[s].who \ {1} # {}
  BY DEF Foreseen, Given
<1>1. phase \in {"fold", "done"} /\ s \in DOMAIN slots /\ InputsOK
  <2>1. DOMAIN << >> = {}
    OBVIOUS
  <2> QED
    BY <2>1 DEF WalkInv, ShapeOK
<1>2. Roomy(s)
  BY <1>1 DEF WalkInv, LaidOut
<1>3. /\ Given(s) \subseteq WantedAt(slots[s].key)
      /\ op = "Intersect" => Given(s) \in {{}, N}
      /\ op = "Diff" /\ Given(s) # {} => 1 \in Given(s)
  BY DEF WalkInv, HandedOK
<1>4. WantedAt(slots[s].key) \subseteq At(held, slots[s].key)
  BY <1>1, WantedFacts
<1>5. CASE op = "Union"
  BY <1>2, <1>3, <1>4, <1>5 DEF Roomy
<1>6. CASE op = "Intersect"
  BY <1>2, <1>3, <1>6 DEF Roomy
<1>7. CASE op = "Diff"
  BY <1>2, <1>3, <1>4, <1>7 DEF Roomy
<1> QED
  BY <1>1, <1>5, <1>6, <1>7 DEF InputsOK

LEMMA WalkInvFlat ==
  ASSUME WalkInv
  PROVE  FlatExact
<1> DEFINE at_key(k) == {i \in N : k \in Range(ins[i].at)}
           needed    == CASE op = "Intersect" -> {k \in Keys : N # {} /\ at_key(k) = N}
                          [] op = "Union"     -> {k \in Keys : at_key(k) # {}}
                          [] op = "Diff"      -> {k \in Keys : 1 \in at_key(k)}
<1> SUFFICES ASSUME phase \in {"fold", "done"}, route = "flat"
             PROVE  /\ SlotKeys = needed
                    /\ \A s, t \in DOMAIN slots : s < t => slots[s].key < slots[t].key
                    /\ op = "Diff" => \A s \in DOMAIN slots :
                         (slots[s].who = {1}) = (at_key(slots[s].key) = {1})
  BY DEF FlatExact, SlotKeys
<1>1. InputsOK /\ Ascending /\ SlotKeys = Planful /\ \A s \in DOMAIN slots : Sized(s)
  BY DEF WalkInv, LaidOut
<1>2. \A k : at_key(k) = At(foretold, k)
  BY DEF At, foretold
<1> HIDE DEF at_key
<1>3. Planful = needed
  <2>1. CASE op = "Union"
    BY <1>2, <2>1 DEF Planful
  <2>2. CASE op = "Intersect"
    BY <1>2, <2>2 DEF Planful
  <2>3. CASE op = "Diff"
    <3>1. ins # << >> <=> 1 \in N
      BY <1>1, InputFacts
    <3>2. 1 \in N => foretold[1] \subseteq Keys
      BY <1>1, SourceFacts
    <3>3. needed = {k \in Keys : 1 \in At(foretold, k)}
      BY <1>2, <2>3
    <3>4. Planful = IF ins = << >> THEN {} ELSE foretold[1]
      BY <2>3 DEF Planful
    <3> QED
      BY <3>1, <3>2, <3>3, <3>4 DEF At
  <2> QED
    BY <1>1, <2>1, <2>2, <2>3 DEF InputsOK
<1>4. ASSUME op = "Diff", NEW s \in DOMAIN slots
      PROVE  (slots[s].who = {1}) = (at_key(slots[s].key) = {1})
  <2>1. slots[s].who = {1} <=> At(foretold, slots[s].key) = {1}
    BY <1>1, <1>4 DEF Sized
  <2> QED
    BY <1>2, <2>1
<1> QED
  BY <1>1, <1>3, <1>4 DEF Ascending

\* A plan has slots for just the keys the operation has and room for every
\* container a slot is handed, whichever walk made it (plan.rs, shape.rs).
THEOREM PlansExactly == Spec => []PlanExact
<1>1. WalkInv => PlanExact
  BY WalkInvForesees, WalkInvFlat DEF PlanExact
<1> QED
  BY <1>1, WalksAgree, PTL

----------------------------------------------------------------------------
\* The walks implement KeyStream.

\* The inputs of the containers handed over.
Inputs_of(refs) == [j \in DOMAIN refs |-> refs[j].input]

\* What KeyStream is shown, in terms of the slots.
GivenIs ==
  /\ \A s \in DOMAIN handed : GivenAt(slots[s].key) = Inputs_of(handed[s])
  /\ \A k : (\A s \in DOMAIN handed : slots[s].key # k) => GivenAt(k) = << >>
  /\ \A s \in DOMAIN handed : Range(Inputs_of(handed[s])) = Given(s)

LEMMA GivenHolds == WalkInv => GivenIs
<1> SUFFICES ASSUME WalkInv PROVE GivenIs
  OBVIOUS
<1>1. HandedOK
  BY DEF WalkInv
<1>2. \A s, t \in DOMAIN handed : slots[s].key = slots[t].key => s = t
  <2>1. /\ phase \in {"plan", "observe", "fold", "done"} /\ slots \in Seq([key : Keys, who : SUBSET N])
        /\ (phase \in {"fold", "done"} => DOMAIN handed = DOMAIN slots)
        /\ (phase \notin {"fold", "done"} => handed = << >>)
    BY DEF WalkInv, ShapeOK
  <2>2. CASE phase \notin {"fold", "done"}
    BY <2>1, <2>2
  <2>3. CASE phase \in {"fold", "done"}
    <3>1. Ascending /\ DOMAIN handed = DOMAIN slots
      BY <2>1, <2>3 DEF WalkInv, LaidOut
    <3>2. /\ DOMAIN slots = 1 .. Len(slots) /\ Len(slots) \in Nat
          /\ \A s \in DOMAIN slots : slots[s].key \in Nat
      BY <2>1, SlotTypes
    <3> SUFFICES ASSUME NEW s \in 1 .. Len(slots), NEW t \in 1 .. Len(slots), slots[s].key = slots[t].key
                 PROVE  s = t
      BY <3>1, <3>2
    <3>3. slots[s].key \in Nat /\ slots[t].key \in Nat
      BY <3>2
    <3>4. s < t => slots[s].key < slots[t].key
      BY <3>1, <3>2 DEF Ascending
    <3>5. t < s => slots[t].key < slots[s].key
      BY <3>1, <3>2 DEF Ascending
    <3> QED
      BY <3>2, <3>3, <3>4, <3>5
  <2> QED
    BY <2>2, <2>3
<1>3. ASSUME NEW s \in DOMAIN handed PROVE GivenAt(slots[s].key) = Inputs_of(handed[s])
  <2> DEFINE here == {t \in DOMAIN handed : slots[t].key = slots[s].key}
  <2>1. here = {s}
    BY <1>2
  <2>2. (CHOOSE t \in here : TRUE) = s /\ here # {}
    BY <2>1
  <2>3. \A j \in DOMAIN handed[s] : handed[s][j].key = slots[s].key /\ Whole(handed[s][j])
    BY <1>1 DEF HandedOK
  <2>4. GivenAt(slots[s].key) = [j \in DOMAIN handed[s] |-> IF handed[s][j].key = slots[s].key /\ Whole(handed[s][j])
                                                           THEN handed[s][j].input ELSE 0]
    BY <2>2 DEF GivenAt
  <2> QED
    BY <2>3, <2>4 DEF Inputs_of
<1>4. ASSUME NEW k, \A s \in DOMAIN handed : slots[s].key # k PROVE GivenAt(k) = << >>
  <2>1. {t \in DOMAIN handed : slots[t].key = k} = {}
    BY <1>4
  <2> QED
    BY <2>1 DEF GivenAt
<1>5. \A s \in DOMAIN handed : Range(Inputs_of(handed[s])) = Given(s)
  BY DEF Range, Inputs_of, Given
<1> QED
  BY <1>3, <1>4, <1>5 DEF GivenIs

LEMMA GivenHoldsAfter ==
  ASSUME WalkInv'
  PROVE  GivenIs'
<1>1. WalkInv' => GivenIs'
  BY GivenHolds, PTL
<1> QED
  BY <1>1

\* Where nothing was handed over yet, whatever the slots are.
LEMMA NothingGiven ==
  ASSUME GivenIs, \A s \in DOMAIN handed : handed[s] = << >>
  PROVE  \A k : GivenAt(k) = << >>
<1> SUFFICES ASSUME NEW k PROVE GivenAt(k) = << >>
  OBVIOUS
<1>1. CASE \E s \in DOMAIN handed : slots[s].key = k
  <2>1. PICK s \in DOMAIN handed : slots[s].key = k
    BY <1>1
  <2>2. GivenAt(k) = Inputs_of(<< >>)
    BY <2>1 DEF GivenIs
  <2>3. Inputs_of(<< >>) = << >>
    BY DEF Inputs_of
  <2> QED
    BY <2>2, <2>3
<1>2. CASE ~ \E s \in DOMAIN handed : slots[s].key = k
  BY <1>2 DEF GivenIs
<1> QED
  BY <1>1, <1>2

\* While slots are being planned KeyStream stands still.
LEMMA PlanningUnseen ==
  ASSUME WalkInv, WalkInv', PlanDriven \/ PlanMerge \/ PlanDone \/ PlanAgain \/ Observe \/ ObserveDone
  PROVE  UNCHANGED Stream!streamVars
<1>1. phase \in {"plan", "observe"} /\ phase' # "done" /\ UNCHANGED << inputs, emptied >>
  BY DEF PlanDriven, PlanMerge, PlanDone, PlanAgain, Observe, ObserveDone, Planned, StartFold
<1>2. handed = << >> /\ emptied = {}
  BY <1>1 DEF WalkInv, ShapeOK
<1>3. handed' = << >> \/ handed' = [s \in DOMAIN slots |-> << >>]
  BY <1>2 DEF PlanDriven, PlanMerge, PlanDone, PlanAgain, Observe, ObserveDone, StartFold
<1>4. (\A s \in DOMAIN handed : handed[s] = << >>) /\ (\A s \in DOMAIN handed' : handed'[s] = << >>)
  BY <1>2, <1>3
<1>5. \A k : GivenAt(k) = << >>
  BY <1>4, GivenHolds, NothingGiven
<1>6. \A k : GivenAt(k)' = << >>
  <2>1. GivenIs'
    BY GivenHoldsAfter
  <2> SUFFICES ASSUME NEW k PROVE GivenAt(k)' = << >>
    OBVIOUS
  <2>2. CASE \E s \in DOMAIN handed' : slots'[s].key = k
    <3>1. PICK s \in DOMAIN handed' : slots'[s].key = k
      BY <2>2
    <3>2. GivenAt(k)' = Inputs_of(<< >>)
      BY <1>4, <2>1, <3>1 DEF GivenIs
    <3>3. Inputs_of(<< >>) = << >>
      BY DEF Inputs_of
    <3> QED
      BY <3>2, <3>3
  <2>3. CASE ~ \E s \in DOMAIN handed' : slots'[s].key = k
    BY <2>1, <2>3 DEF GivenIs
  <2> QED
    BY <2>2, <2>3
<1>7. /\ \A k : WantedAt(k)' = WantedAt(k)
      /\ op' = op /\ ins' = ins
  BY <1>1, SameInputs
<1>8. {slots[s].key : s \in emptied} = {} /\ {slots'[s].key : s \in emptied'} = {}
  BY <1>1, <1>2
<1> QED
  BY <1>1, <1>5, <1>6, <1>7, <1>8 DEF Stream!streamVars

LEMMA FoldingUnseen ==
  ASSUME UNCHANGED << inputs, slots, handed, emptied >>, (phase = "done") = (phase' = "done")
  PROVE  UNCHANGED Stream!streamVars
<1>1. /\ \A k : WantedAt(k)' = WantedAt(k)
      /\ \A r : Whole(r)' = Whole(r)
      /\ op' = op /\ ins' = ins
  BY SameInputs
<1>2. \A k : GivenAt(k)' = GivenAt(k)
  BY <1>1 DEF GivenAt
<1> QED
  BY <1>1, <1>2 DEF Stream!streamVars

\* Handing over is delivering.
LEMMA LinedUpOnce ==
  ASSUME NEW I, NEW n \in Nat, NEW s \in [1 .. n -> I],
         \A i, j \in 1 .. n : s[i] = s[j] => i = j, \A i \in I : \E j \in 1 .. n : s[j] = i
  PROVE  \A W : I \subseteq W => s \in Stream!SetToAllKPermutations(W)
<1>1. ExistsBijection(1 .. n, I)
  BY DEF ExistsBijection, Bijection, Injection, Surjection, IsInjective
<1>2. Cardinality(I) = n
  BY <1>1, FS_CountingElements
<1>3. Stream!Cardinality(I) = n
  BY <1>2 DEF Cardinality, Stream!Cardinality
<1>4. s \in Stream!SetToSeqs(I)
  BY <1>3 DEF Stream!SetToSeqs
<1> QED
  BY <1>4 DEF Stream!SetToAllKPermutations

LEMMA HandingDelivers ==
  ASSUME WalkInv, WalkInv', NEW s, NEW refs, NEW I, HandOver(s, refs, I)
  PROVE  Stream!Deliver
<1>0. PICK k : k = slots[s].key
  OBVIOUS
<1> DEFINE more == Inputs_of(refs)
           W == WantedAt(k)
<1>1. /\ phase = "fold" /\ UNCHANGED << op, route, ins, live, phase, order, major, slots >>
      /\ s \in DOMAIN slots /\ s \notin emptied
      /\ Containers(refs, I, k)
      /\ handed' = [handed EXCEPT ![s] = @ \o refs]
      /\ I # {} /\ I \subseteq W \ Given(s)
      /\ \A t \in DOMAIN slots : I \cap Given(t) # {} => slots[t].key < k
      /\ op = "Diff" /\ Given(s) = {} => refs[1].input = 1
      /\ \/ emptied' = emptied
         \/ /\ op = "Diff" /\ Len(handed[s]) + Len(refs) > 1
            /\ emptied' = emptied \cup {s}
  BY <1>0 DEF HandOver, folding, inputs
<1>2. /\ InputsOK /\ slots \in Seq([key : Keys, who : SUBSET N])
      /\ DOMAIN handed = DOMAIN slots /\ handed \in Seq(Seq(Refs)) /\ emptied \subseteq DOMAIN slots
      /\ Ascending
  BY <1>1 DEF WalkInv, ShapeOK, LaidOut, Refs
<1>3. /\ DOMAIN slots = 1 .. Len(slots) /\ Len(slots) \in Nat
      /\ \A t \in DOMAIN slots : slots[t].key \in Keys /\ slots[t].key \in Nat
  BY <1>2, SlotTypes
<1>4. \A t \in DOMAIN slots : slots[t].key = k => t = s
  <2> SUFFICES ASSUME NEW t \in DOMAIN slots, slots[t].key = k PROVE t = s
    OBVIOUS
  <2>1. t \in Nat /\ s \in Nat /\ slots[t].key = slots[s].key /\ slots[s].key \in Nat
    BY <1>0, <1>1, <1>3
  <2>2. (s < t => slots[s].key < slots[t].key) /\ (t < s => slots[t].key < slots[s].key)
    BY <1>1, <1>2 DEF Ascending
  <2> QED
    BY <2>1, <2>2
<1>5. GivenIs
  BY GivenHolds
<1>6. /\ refs \in Seq(Refs) /\ Len(refs) \in Nat /\ DOMAIN refs = 1 .. Len(refs)
      /\ \A j \in 1 .. Len(refs) : refs[j].key = k /\ Whole(refs[j]) /\ refs[j].input \in I
      /\ \A i, j \in 1 .. Len(refs) : refs[i].input = refs[j].input => i = j
      /\ \A i \in I : \E j \in 1 .. Len(refs) : refs[j].input = i
  BY <1>1, LenProperties DEF Containers
<1>7. /\ more \in [1 .. Len(refs) -> I] /\ more \in Seq(I) /\ Len(more) = Len(refs)
      /\ \A j \in 1 .. Len(refs) : more[j] = refs[j].input
  <2>1. more \in [1 .. Len(refs) -> I] /\ \A j \in 1 .. Len(refs) : more[j] = refs[j].input
    BY <1>6 DEF Inputs_of
  <2> HIDE DEF more
  <2> QED
    BY <1>6, <2>1, FunIsSeq
<1> HIDE DEF more
<1>8. Len(refs) # 0 /\ 1 \in 1 .. Len(refs)
  BY <1>1, <1>6
<1>9. k \in Keys \ {slots[t].key : t \in emptied}
  BY <1>0, <1>1, <1>2, <1>3, <1>4
<1>10. \A t \in DOMAIN slots : GivenAt(slots[t].key) = Inputs_of(handed[t]) /\ Range(Inputs_of(handed[t])) = Given(t)
  BY <1>2, <1>5 DEF GivenIs
<1>11. more \in Stream!SetToAllKPermutations(W \ Stream!Range(GivenAt(k)))
  <2>1. Stream!Range(GivenAt(k)) = Given(s)
    BY <1>0, <1>1, <1>10 DEF Stream!Range, Range
  <2>2. \A i, j \in 1 .. Len(refs) : more[i] = more[j] => i = j
    BY <1>6, <1>7
  <2>3. \A i \in I : \E j \in 1 .. Len(refs) : more[j] = i
    BY <1>6, <1>7
  <2>4. \A V : I \subseteq V => more \in Stream!SetToAllKPermutations(V)
    BY <1>6, <1>7, <2>2, <2>3, LinedUpOnce
  <2> QED
    BY <1>1, <2>1, <2>4
<1>12. more # << >>
  BY <1>7, <1>8
<1>13. ASSUME NEW i \in Stream!Range(more), NEW q \in Keys, i \in Stream!Range(GivenAt(q)) PROVE q < k
  <2>1. i \in I
    BY <1>7, <1>13 DEF Stream!Range
  <2>2. CASE \E t \in DOMAIN slots : slots[t].key = q
    <3>1. PICK t \in DOMAIN slots : slots[t].key = q
      BY <2>2
    <3>2. i \in Given(t)
      BY <1>10, <1>13, <3>1 DEF Stream!Range, Range
    <3> QED
      BY <1>1, <2>1, <3>1, <3>2
  <2>3. CASE ~ \E t \in DOMAIN slots : slots[t].key = q
    <3>1. GivenAt(q) = << >>
      BY <1>2, <1>5, <2>3 DEF GivenIs
    <3>2. Stream!Range(<< >>) = {}
      BY DEF Stream!Range
    <3> QED
      BY <1>13, <3>1, <3>2
  <2> QED
    BY <2>2, <2>3
<1>14. ASSUME op = "Diff", GivenAt(k) = << >> PROVE more[1] = 1
  <2>1. Given(s) = Range(<< >>)
    BY <1>0, <1>1, <1>10, <1>14
  <2>2. Range(<< >>) = {}
    BY DEF Range
  <2> QED
    BY <1>1, <1>7, <1>8, <1>14, <2>1, <2>2
<1>15. /\ DOMAIN handed' = DOMAIN slots /\ handed'[s] = handed[s] \o refs
       /\ \A t \in DOMAIN slots : t # s => handed'[t] = handed[t]
  BY <1>1, <1>2
<1>16. GivenIs'
  BY GivenHoldsAfter
<1>17. \A q, t : t \in DOMAIN slots /\ slots[t].key = q => GivenAt(q)' = Inputs_of(handed'[t])
  <2> SUFFICES ASSUME NEW q, NEW t \in DOMAIN slots, slots[t].key = q PROVE GivenAt(q)' = Inputs_of(handed'[t])
    OBVIOUS
  <2>1. slots'[t].key = q /\ t \in DOMAIN handed'
    BY <1>1, <1>15
  <2>2. GivenAt(slots[t].key)' = Inputs_of(handed'[t])
    BY <1>15, <1>16, <2>1 DEF GivenIs
  <2> QED
    BY <2>1, <2>2
<1>18. GivenAt(k)' = GivenAt(k) \o more /\ Len(GivenAt(k)') = Len(handed[s]) + Len(refs)
  <2> DEFINE old == handed[s]
  <2>1. old \in Seq(Refs) /\ Len(old) \in Nat /\ DOMAIN old = 1 .. Len(old)
    BY <1>1, <1>2, ElementOfSeq, LenProperties
  <2>2. /\ DOMAIN (old \o refs) = 1 .. Len(old) + Len(refs)
        /\ \A j \in 1 .. Len(old) : (old \o refs)[j] = old[j]
        /\ \A j \in Len(old) + 1 .. Len(old) + Len(refs) : (old \o refs)[j] = refs[j - Len(old)]
    BY <1>6, <2>1, ConcatProperties, LenProperties
  <2> HIDE DEF old
  <2>3. PICK S : S = N \cup I
    OBVIOUS
  <2>4. \A r \in Refs : r.input \in S
    BY <2>3 DEF Refs
  <2>5. Inputs_of(old) \in [1 .. Len(old) -> S] /\ \A j \in 1 .. Len(old) : Inputs_of(old)[j] = old[j].input
    BY <2>1, <2>4, ElementOfSeq DEF Inputs_of
  <2>6. Inputs_of(old) \in Seq(S) /\ Len(Inputs_of(old)) = Len(old)
    BY <2>1, <2>5, FunIsSeq
  <2>7. more \in Seq(S)
    BY <1>6, <1>7, <2>3, FunIsSeq
  <2>8. PICK a : a = Inputs_of(old)
    OBVIOUS
  <2>9. /\ Len(a \o more) = Len(old) + Len(refs) /\ a \o more \in Seq(S)
        /\ \A j \in 1 .. Len(old) : (a \o more)[j] = a[j]
        /\ \A j \in Len(old) + 1 .. Len(old) + Len(refs) : (a \o more)[j] = more[j - Len(old)]
    <3>1. a \in Seq(S) /\ Len(a) = Len(old)
      BY <2>6, <2>8
    <3>2. PICK b : b = more
      OBVIOUS
    <3>3. b \in Seq(S) /\ Len(b) = Len(refs)
      BY <1>7, <2>7, <3>2
    <3>4. /\ Len(a \o b) = Len(a) + Len(b) /\ a \o b \in Seq(S)
          /\ \A j \in 1 .. Len(a) : (a \o b)[j] = a[j]
          /\ \A j \in Len(a) + 1 .. Len(a) + Len(b) : (a \o b)[j] = b[j - Len(a)]
      <4>1. /\ Len(a \o b) = Len(a) + Len(b) /\ a \o b \in Seq(S)
            /\ \A j \in 1 .. Len(a) + Len(b) : (a \o b)[j] = IF j <= Len(a) THEN a[j] ELSE b[j - Len(a)]
        BY <3>1, <3>3, ConcatProperties
      <4>2. Len(a) \in Nat /\ Len(b) \in Nat
        BY <3>1, <3>3, LenProperties
      <4>3. \A j \in 1 .. Len(a) : j \in 1 .. Len(a) + Len(b) /\ j <= Len(a)
        BY <4>2
      <4>4. \A j \in Len(a) + 1 .. Len(a) + Len(b) : j \in 1 .. Len(a) + Len(b) /\ ~ (j <= Len(a))
        BY <4>2
      <4> QED
        BY <4>1, <4>3, <4>4
    <3> QED
      BY <3>1, <3>2, <3>3, <3>4
  <2>10. \A j \in Len(old) + 1 .. Len(old) + Len(refs) : j - Len(old) \in 1 .. Len(refs)
    BY <1>6, <2>1
  <2>11. \A j \in 1 .. Len(old) + Len(refs) : j \in 1 .. Len(old) \/ j \in Len(old) + 1 .. Len(old) + Len(refs)
    BY <1>6, <2>1
  <2>12. \A j \in 1 .. Len(old) + Len(refs) : (a \o more)[j] = (old \o refs)[j].input
    BY SMTT(30), <1>7, <2>2, <2>5, <2>8, <2>9, <2>10, <2>11
  <2>13. a \o more = [j \in 1 .. Len(old) + Len(refs) |-> (a \o more)[j]]
    <3>1. PICK b : b = a \o more
      OBVIOUS
    <3>2. b \in Seq(S) /\ Len(b) = Len(old) + Len(refs)
      BY <2>9, <3>1
    <3>3. b = [j \in 1 .. Len(b) |-> b[j]]
      BY <3>2
    <3> QED
      BY <3>1, <3>2, <3>3
  <2>14. Inputs_of(old \o refs) = a \o more
    BY <2>2, <2>12, <2>13 DEF Inputs_of
  <2>15. GivenAt(k)' = Inputs_of(old \o refs)
    BY <1>0, <1>1, <1>15, <1>17 DEF old
  <2>16. GivenAt(k) = a
    BY <1>0, <1>1, <1>10, <2>8 DEF old
  <2> QED
    BY <2>9, <2>14, <2>15, <2>16 DEF old
<1>19. ASSUME NEW q \in Keys, q # k PROVE GivenAt(q)' = GivenAt(q)
  <2>1. CASE \E t \in DOMAIN slots : slots[t].key = q
    <3>1. PICK t \in DOMAIN slots : slots[t].key = q
      BY <2>1
    <3>2. t # s
      BY <1>0, <1>19, <3>1
    <3>3. GivenAt(q)' = Inputs_of(handed[t])
      BY <1>15, <1>17, <3>1, <3>2
    <3> QED
      BY <1>10, <3>1, <3>3
  <2>2. CASE ~ \E t \in DOMAIN slots : slots[t].key = q
    <3>1. GivenAt(q) = << >>
      BY <1>2, <1>5, <2>2 DEF GivenIs
    <3>2. GivenAt(q)' = << >>
      BY <1>1, <1>15, <1>16, <2>2 DEF GivenIs
    <3> QED
      BY <3>1, <3>2
  <2> QED
    BY <2>1, <2>2
<1>20. \A q : WantedAt(q)' = WantedAt(q)
  BY <1>1, SameInputs DEF inputs
<1>21. ins # << >>
  <2>1. W \subseteq N
    BY <1>2, WantedFacts
  <2> QED
    BY <1>1, <1>2, <2>1, InputFacts
<1>22. [q \in Keys |-> GivenAt(q)'] = [[q \in Keys |-> GivenAt(q)] EXCEPT ![k] = @ \o more]
  <2>1. k \in Keys
    BY <1>9
  <2>2. PICK given : given = [q \in Keys |-> GivenAt(q)]
    OBVIOUS
  <2>3. given[k] = GivenAt(k) /\ DOMAIN given = Keys
    BY <2>1, <2>2
  <2>4. [given EXCEPT ![k] = @ \o more] = [q \in Keys |-> IF q = k THEN GivenAt(k) \o more ELSE given[q]]
    BY <2>2, <2>3
  <2>5. \A q \in Keys : GivenAt(q)' = IF q = k THEN GivenAt(k) \o more ELSE given[q]
    BY <1>18, <1>19, <2>2
  <2> QED
    BY <2>2, <2>4, <2>5
<1>23. \/ {slots'[t].key : t \in emptied'} = {slots[t].key : t \in emptied}
       \/ /\ op = "Diff" /\ Len(GivenAt(k)') > 1
          /\ {slots'[t].key : t \in emptied'} = {slots[t].key : t \in emptied} \cup {k}
  <2>1. CASE emptied' = emptied
    BY <1>1, <2>1
  <2>2. CASE op = "Diff" /\ Len(handed[s]) + Len(refs) > 1 /\ emptied' = emptied \cup {s}
    <3>1. {slots[t].key : t \in emptied \cup {s}} = {slots[t].key : t \in emptied} \cup {k}
      BY <1>0
    <3> QED
      BY <1>1, <1>18, <2>2, <3>1
  <2> QED
    BY <1>1, <2>1, <2>2
<1> HIDE DEF W
<1>24. /\ k \in Keys \ {slots[t].key : t \in emptied}
       /\ more \in Stream!SetToAllKPermutations(WantedAt(k) \ Stream!Range(GivenAt(k)))
  BY <1>9, <1>11 DEF W
<1>25. phase # "done" /\ phase' # "done"
  BY <1>1
<1>26. (op = "Diff") = (op' = "Diff") /\ ins' # << >>
  BY <1>1, <1>21
<1> DEFINE given  == [q \in Keys |-> GivenAt(q)]
           wanted == [q \in Keys |-> WantedAt(q)]
           spent  == {slots[t].key : t \in emptied}
           lead   == IF op = "Diff" /\ ins # << >> THEN 1 ELSE 0
<1>27. /\ k \in Keys \ spent
       /\ \A q \in Keys : given[q] = GivenAt(q) /\ wanted[q] = WantedAt(q)
       /\ lead # 0 <=> op = "Diff"
       /\ op = "Diff" => lead = 1
  BY <1>21, <1>24
<1>28. more \in Stream!SetToAllKPermutations(wanted[k] \ Stream!Range(given[k]))
  BY <1>24, <1>27
<1>29. \A i \in Stream!Range(more), q \in Keys : i \in Stream!Range(given[q]) => q < k
  BY <1>13, <1>27
<1>30. lead # 0 /\ given[k] = << >> => more[1] = lead
  BY <1>14, <1>27
<1>31. given' = [given EXCEPT ![k] = @ \o more]
  BY <1>22
<1>32. given'[k] = GivenAt(k)'
  BY <1>24
<1>33. UNCHANGED spent \/ (lead # 0 /\ Len(given'[k]) > 1 /\ spent' = spent \cup {k})
  <2>1. spent' = {slots'[t].key : t \in emptied'}
    OBVIOUS
  <2>2. PICK n : n = Len(given'[k])
    OBVIOUS
  <2>3. n = Len(GivenAt(k)')
    BY <1>32, <2>2
  <2> HIDE DEF given, lead
  <2> QED
    BY <1>23, <1>27, <2>1, <2>2, <2>3
<1>34. wanted' = wanted
  BY <1>20
<1>35. lead' = lead
  BY <1>21, <1>26
<1>36. ~ (phase = "done") /\ (phase = "done")' = (phase = "done")
  BY <1>25
<1> HIDE DEF given, wanted, spent, lead
<1>37. \E q \in Keys \ spent : \E u \in Stream!SetToAllKPermutations(wanted[q] \ Stream!Range(given[q])) :
         /\ ~ (phase = "done") /\ u # << >>
         /\ \A i \in Stream!Range(u), o \in Keys : i \in Stream!Range(given[o]) => o < q
         /\ lead # 0 /\ given[q] = << >> => u[1] = lead
         /\ given' = [given EXCEPT ![q] = @ \o u]
         /\ UNCHANGED spent \/ (lead # 0 /\ Len(given'[q]) > 1 /\ spent' = spent \cup {q})
         /\ UNCHANGED << wanted, lead, phase = "done" >>
  BY <1>12, <1>27, <1>28, <1>29, <1>30, <1>31, <1>33, <1>34, <1>35, <1>36
<1> QED
  BY <1>37 DEF Stream!Deliver, given, wanted, spent, lead

\* When a fold is over nothing is missing, except where nothing was left to
\* subtract from.
LEMMA AllGiven ==
  ASSUME WalkInv, FoldDone, NEW s \in DOMAIN slots, s \notin emptied
  PROVE  Given(s) = WantedAt(slots[s].key)
<1> DEFINE k == slots[s].key
<1>1. phase = "fold" /\ DOMAIN handed = DOMAIN slots
  BY DEF FoldDone, WalkInv, ShapeOK
<1>2. /\ InputsOK /\ CursorsOK /\ Ready
      /\ \A i \in N : Rest(cur[i]) \subseteq held[i]
      /\ ins # << >> => order[1] \in N /\ (op = "Diff" => order[1] = 1)
      /\ ins # << >> => order # << >>
  BY <1>1, KeyMajorFacts
<1>3. /\ N = 1 .. Len(ins) /\ Len(ins) \in Nat /\ (ins = << >> <=> N = {})
  BY <1>2, InputFacts
<1>4. /\ WantedAt(k) \subseteq At(held, k) /\ At(held, k) \subseteq N
      /\ op = "Union" => WantedAt(k) = At(held, k)
      /\ op = "Intersect" => WantedAt(k) = IF At(held, k) = N THEN N ELSE {}
      /\ op = "Diff" => WantedAt(k) = IF 1 \in At(held, k) THEN At(held, k) ELSE {}
  BY <1>2, WantedFacts
<1>5. k \in Nat /\ pass \in 1 .. Len(ins) + 1 \cup {3} /\ op \in {"Intersect", "Union", "Diff"}
  <2>1. slots \in Seq([key : Keys, who : SUBSET N]) /\ pass \in 1 .. Len(ins) + 1 \cup {3}
    BY DEF WalkInv, ShapeOK
  <2> QED
    BY <1>2, <2>1, SlotTypes DEF InputsOK
<1>6. Given(s) \subseteq WantedAt(k)
  BY <1>1 DEF WalkInv, HandedOK
<1>7. ASSUME N = {} PROVE Given(s) = WantedAt(k)
  BY <1>4, <1>6, <1>7
<1>8. CASE major = "partner"
  <2>1. pass \notin N /\ op # "Intersect"
    BY <1>8 DEF FoldDone, WalkInv, ShapeOK
  <2>2. \A i \in N : i < pass
    BY <1>3, <1>5, <2>1
  <2>3. CASE op = "Union"
    <3>1. /\ \A i \in N : Rest(cur[i]) = {}
          /\ Given(s) = {i \in N : k \in held[i] \ Rest(cur[i])}
      BY <1>1, <1>8, <2>2, <2>3 DEF WalkInv, UnionPassInv
    <3> QED
      BY <1>4, <2>3, <3>1 DEF At
  <2>4. CASE op = "Diff" /\ pass = 1
    <3>1. N = {}
      BY <1>3, <2>1, <2>4
    <3> QED
      BY <1>7, <3>1
  <2>5. CASE op = "Diff" /\ pass # 1
    <3>1. Given(s) = {i \in WantedAt(k) : SubtractedTo(s, i)}
      BY <1>1, <1>8, <2>5 DEF WalkInv, DiffPassInv
    <3>2. \A i \in WantedAt(k) : SubtractedTo(s, i)
      BY <1>4, <2>2 DEF SubtractedTo
    <3> QED
      BY <3>1, <3>2
  <2> QED
    BY <1>5, <2>1, <2>3, <2>4, <2>5
<1>9. CASE major = "key"
  <2>1. PICK d \in 0 .. KeyCount : KeyMajorAt(d)
    BY <1>1, <1>9, KeyMajorFacts
  <2>2. Given(s) = IF k < d THEN WantedAt(k) ELSE {}
    BY <2>1 DEF KeyMajorAt
  <2> SUFFICES ASSUME ~ (k < d), N # {} PROVE WantedAt(k) = {}
    BY <1>7, <2>2
  <2>3. d \in Nat /\ k >= d
    BY <1>5
  <2>4. CASE op = "Union"
    <3>1. min_key(cur) = END
      BY <1>9, <2>4 DEF FoldDone
    <3>2. \A i \in N : Rest(cur[i]) = {}
      BY <1>2, <3>1, MergeIs
    <3>3. \A i \in N : Rest(cur[i]) = {n \in held[i] : n >= d}
      BY <2>1, <2>4 DEF KeyMajorAt, Level
    <3>4. \A i \in N : k \notin held[i]
      BY <2>3, <3>2, <3>3
    <3> QED
      BY <1>4, <2>4, <3>4 DEF At
  <2>5. CASE op \in {"Intersect", "Diff"}
    <3>1. slots # << >>
      OBVIOUS
    <3>2. driver_key = END
      BY <1>9, <2>5, <3>1 DEF FoldDone
    <3>3. peek_key(cur[order[1]]) = END /\ order[1] \in N /\ ins # << >>
      BY <1>2, <1>3, <3>2 DEF driver_key
    <3>4. CursorOK(cur[order[1]])
      BY <1>2, <3>3 DEF Ready
    <3>5. Rest(cur[order[1]]) = {}
      BY <3>3, <3>4, PeekIs
    <3>6. Rest(cur[order[1]]) = {n \in held[order[1]] : n >= d}
      BY <2>1, <2>5, <3>3 DEF KeyMajorAt, Driven
    <3>7. order[1] \notin At(held, k)
      BY <2>3, <3>5, <3>6 DEF At
    <3> QED
      BY <1>2, <1>4, <2>5, <3>3, <3>7
  <2> QED
    BY <1>5, <2>4, <2>5
<1> QED
  BY <1>8, <1>9 DEF WalkInv, ShapeOK

LEMMA DoneFinishes ==
  ASSUME WalkInv, FoldDone
  PROVE  Stream!Finish
<1>1. /\ phase = "fold" /\ phase' = "done"
      /\ UNCHANGED << inputs, slots, handed, emptied >>
  BY DEF FoldDone
<1>2. DOMAIN handed = DOMAIN slots /\ \A k \in Keys : WantedAt(k) # {} => k \in SlotKeys
  BY <1>1 DEF WalkInv, ShapeOK, LaidOut
<1>3. GivenIs
  BY GivenHolds
<1>4. ASSUME NEW k \in Keys \ {slots[s].key : s \in emptied} PROVE Stream!Range(GivenAt(k)) = WantedAt(k)
  <2>1. CASE k \in SlotKeys
    <3>1. PICK s \in DOMAIN slots : slots[s].key = k
      BY <2>1 DEF SlotKeys
    <3>2. Given(s) = WantedAt(k)
      BY <1>4, <3>1, AllGiven
    <3>3. GivenAt(k) = Inputs_of(handed[s]) /\ Range(Inputs_of(handed[s])) = Given(s)
      BY <1>2, <1>3, <3>1 DEF GivenIs
    <3> QED
      BY <3>2, <3>3 DEF Range, Stream!Range
  <2>2. CASE k \notin SlotKeys
    <3>1. WantedAt(k) = {}
      BY <1>2, <2>2
    <3>2. GivenAt(k) = << >>
      BY <1>2, <1>3, <2>2 DEF GivenIs, SlotKeys
    <3>3. Stream!Range(<< >>) = {}
      BY DEF Stream!Range
    <3> QED
      BY <3>1, <3>2, <3>3
  <2> QED
    BY <2>1, <2>2
<1>5. /\ \A k : WantedAt(k)' = WantedAt(k)
      /\ \A r : Whole(r)' = Whole(r)
      /\ op' = op /\ ins' = ins
  BY <1>1, SameInputs
<1>6. \A k : GivenAt(k)' = GivenAt(k)
  BY <1>1, <1>5 DEF GivenAt
<1> QED
  BY <1>1, <1>4, <1>5, <1>6 DEF Stream!Finish

LEMMA StartsStream ==
  ASSUME Init
  PROVE  Stream!StreamInit
<1>1. WalkInv /\ phase = "plan" /\ handed = << >> /\ emptied = {}
  BY StartsRight DEF Init
<1>2. \A k : GivenAt(k) = << >>
  BY <1>1, GivenHolds, NothingGiven
<1>3. InputsOK
  BY <1>1 DEF WalkInv
<1>4. Len(ins) \in Nat /\ Len(ins) <= MaxArity /\ MaxArity \in Nat /\ N = 1 .. Len(ins)
      /\ (ins # << >> <=> Len(ins) # 0)
  BY <1>3, InputFacts
<1>5. N \subseteq 1 .. MaxArity /\ (ins # << >> => 1 \in 1 .. MaxArity)
  BY <1>4
<1>6. \A k \in Keys : WantedAt(k) \subseteq 1 .. MaxArity
  BY <1>3, <1>5, WantedFacts
<1> QED
  BY <1>1, <1>2, <1>5, <1>6 DEF Stream!StreamInit

LEMMA StepStreams ==
  ASSUME WalkInv, [Next]_vars
  PROVE  [Stream!StreamNext]_(Stream!streamVars)
<1>1. WalkInv'
  BY StepKeeps
<1>2. ASSUME Handing PROVE Stream!Deliver
  BY <1>1, <1>2, HandingDelivers DEF Handing
<1>3. CASE PlanDriven \/ PlanMerge \/ PlanDone \/ PlanAgain \/ Observe \/ ObserveDone
  BY <1>1, <1>3, PlanningUnseen
<1>4. CASE IntersectKey \/ UnionKey \/ DiffKey \/ UnionPass \/ DiffSeed \/ DiffSlot \/ NextPass
  <2>1. UNCHANGED << inputs, phase, slots >>
    BY <1>4 DEF IntersectKey, UnionKey, DiffKey, UnionPass, DiffSeed, DiffSlot, NextPass, folding
  <2>2. Handing \/ UNCHANGED << handed, emptied >>
    <3>1. CASE IntersectKey
      BY <3>1, IntersectKeyKeeps DEF IntersectKey
    <3>2. CASE UnionKey
      BY <3>2, UnionKeyKeeps DEF UnionKey
    <3>3. CASE DiffKey
      BY <3>3, DiffKeyKeeps DEF DiffKey
    <3>4. CASE UnionPass
      BY <3>4, UnionPassKeeps DEF UnionPass
    <3>5. CASE DiffSeed
      BY <3>5, DiffSeedKeeps
    <3>6. CASE DiffSlot
      BY <3>6, DiffSlotKeeps
    <3>7. CASE NextPass
      BY <3>7, NextPassKeeps
    <3> QED
      BY <1>4, <3>1, <3>2, <3>3, <3>4, <3>5, <3>6, <3>7
  <2>3. CASE Handing
    BY <1>2, <2>3 DEF Stream!StreamNext
  <2>4. CASE UNCHANGED << handed, emptied >>
    BY <2>1, <2>4, FoldingUnseen
  <2> QED
    BY <2>2, <2>3, <2>4
<1>5. CASE FoldDone
  BY <1>5, DoneFinishes DEF Stream!StreamNext
<1>6. CASE UNCHANGED vars
  BY <1>6, FoldingUnseen DEF vars, inputs
<1> QED
  BY <1>3, <1>4, <1>5, <1>6 DEF Next

\* Whichever walk a fold takes, and through whatever mask, its kernels are handed
\* each container the result depends on once and whole, keys ascending within
\* each input and a minuend before what is subtracted from it; and it ends only
\* when none is missing (ops/kernels, cursor.rs).
THEOREM WalksStream == Spec => ImplementsStream
<1>1. Init => Stream!StreamInit
  BY StartsStream
<1>2. WalkInv /\ [Next]_vars => [Stream!StreamNext]_(Stream!streamVars)
  BY StepStreams
<1> QED
  BY <1>1, <1>2, WalksAgree, PTL DEF Spec, ImplementsStream, Stream!StreamSpec
=============================================================================
