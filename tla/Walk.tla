-------------------------------- MODULE Walk ---------------------------------
(***************************************************************************)
(* How one fold meets its inputs: the planner's walk over them makes the   *)
(* slots, and the fold's own walk, a different one, hands each container   *)
(* to a kernel at its slot (src/ops/analyze/plan.rs and shape.rs,          *)
(* src/ops/kernels).  The two agree on keys or the fold claims a slot that *)
(* is not there; they go over different things when the inputs are a       *)
(* tree's: predictions when planning, what is on the stack, and through a  *)
(* mask, when folding.                                                     *)
(***************************************************************************)
EXTENDS Cursor, FiniteSets, SequencesExt, Functions

CONSTANTS
  Operands,  \* what an input may be: [kind, at, predicted]
  Masks,     \* sets of live keys a tree's fold may be given
  MaxArity   \* most inputs

Kinds == {"standard", "inline", "arena", "empty"}

IsLeaf(o) == o.kind \in {"standard", "inline"}

ASSUME WalkAssumption ==
  /\ \A o \in Operands :
       /\ o.kind \in Kinds
       /\ o.at \in Seq(Keys) /\ o.predicted \in Seq(Keys)
       /\ IsSorted(o.at, <=)
       /\ o.kind # "inline" => IsInjective(o.at)
       /\ IsSorted(o.predicted, <=) /\ IsInjective(o.predicted)
       /\ Range(o.at) \subseteq Range(o.predicted)
       /\ IsLeaf(o) => Range(o.at) = Range(o.predicted)
       /\ o.kind = "empty" => o.at = << >>
  /\ Masks \subseteq SUBSET Keys
  /\ MaxArity \in Nat

VARIABLES
  op,       \* Intersect, Union, Diff
  route,    \* flat, trivial (the gate for tiny inputs), tree
  ins,      \* the inputs
  live,     \* the mask; Keys when there is none
  phase,    \* plan, observe, fold, done
  order,    \* the inputs in the order the walk visits them
  major,    \* key or partner: the order of the fold
  cur,      \* a cursor per input
  slots,    \* the plan: [key, who], who being the inputs it was sized for
  pass,     \* the input a pass goes over
  next_slot,  \* the slot it has come to; key-major: the next one to claim
  handed,   \* per slot, the containers handed to the kernel: [input, key, from, upto]
  emptied   \* slots whose accumulator holds nothing any more

vars == << op, route, ins, live, phase, order, major, cur, slots, pass, next_slot, handed, emptied >>

inputs == << op, route, ins, live >>

----------------------------------------------------------------------------
N == DOMAIN ins

cursor(i) == skip_dead(cursor_over(ins[i].kind, ins[i].at, live))

\* What the planner walks: the inputs themselves, or in a tree their shapes.
plan_cursor(i) ==
  IF route = "tree" THEN cursor_over("shape", ins[i].predicted, Keys) ELSE cursor(i)

\* How many containers an input has: the blocks of an inline bitmap are counted,
\* its index holds none, its cursor counts values.
container_count(o) == Cardinality(Range(o.at))
num_containers(o)  == IF o.kind = "inline" THEN 0 ELSE Len(o.at)

\* The first input with the fewest, by a measure of an operand.
fewest(Measure(_)) ==
  CHOOSE i \in N : \A j \in N : \/ Measure(ins[i]) < Measure(ins[j])
                                \/ Measure(ins[i]) = Measure(ins[j]) /\ i <= j

others(i) == [j \in 1 .. Len(ins) - 1 |-> IF j < i THEN j ELSE j + 1]

\* A stable sort by the length the cursors report.
shorter(i, j) ==
  \/ Len(ins[i].at) < Len(ins[j].at)
  \/ Len(ins[i].at) = Len(ins[j].at) /\ i < j

by_length(I) ==
  CHOOSE s \in SetToSeqs(I) : \A j, k \in DOMAIN s : j < k => shorter(s[j], s[k])

\* Whether the flat planner of an intersection is driven by its narrowest input
\* or merges all of them.
drives ==
  LET counts == {container_count(ins[i]) : i \in N}
  IN  Len(ins) = 2 \/ Cardinality(counts) > 1

----------------------------------------------------------------------------
\* What is left of s when only the elements of I are kept.
kept(s, I) ==
  LET upto[k \in 0 .. Len(s)] ==
        IF k = 0 THEN << >>
        ELSE IF s[k] \in I THEN Append(upto[k - 1], s[k]) ELSE upto[k - 1]
  IN  upto[Len(s)]

\* One turn of a driven walk: the cursors after the driver's are brought to its
\* key in order, up to one whose answer is in stops.
Probe(key, stops) ==
  LET answer == [i \in N |-> advance_to(cur[i], key)]
      asked  == {order[j] : j \in {j \in 2 .. Len(order) :
                   \A h \in 2 .. j - 1 : answer[order[h]].hit \notin stops}}
  IN  [ hits |-> kept(order, {i \in asked : answer[i].hit}),
        cur  |-> [i \in N |-> CASE i = order[1]  -> advance(cur[i])
                              [] i \in asked     -> answer[i].c
                              [] OTHER           -> cur[i]],
        all  |-> \A i \in asked : answer[i].hit ]

driver_key == IF order = << >> THEN END ELSE peek_key(cur[order[1]])

\* One turn of a merge: the cursors resting on the least key, all moved on.
holders == {i \in N : peek_key(cur[i]) = min_key(cur)}

merged_cursors == [i \in N |-> IF i \in holders THEN advance(cur[i]) ELSE cur[i]]

\* The container under a cursor, as a kernel is handed it.
Ref(i, c) ==
  LET r == get(c) IN [input |-> i, key |-> r.key, from |-> r.from, upto |-> r.upto]

----------------------------------------------------------------------------
\* Planning.
PlannedByMerge == CASE op = "Union"     -> TRUE
                    [] op = "Intersect" -> route = "tree" \/ (route = "flat" /\ ~drives)
                    [] op = "Diff"      -> ins = << >>

plan_order ==
  IF route = "trivial"
  THEN << IF op = "Diff" THEN 1 ELSE fewest(num_containers) >>
  ELSE IF op = "Intersect" /\ ~PlannedByMerge
  THEN << fewest(container_count) >> \o others(fewest(container_count))
  ELSE [j \in N |-> j]

Init ==
  /\ op \in {"Intersect", "Union", "Diff"}
  /\ route \in {"flat", "trivial", "tree"}
  /\ ins \in BoundedSeq(Operands, MaxArity)
  /\ live \in IF route = "tree" THEN Masks ELSE {Keys}
  /\ route # "tree" => \A i \in N : IsLeaf(ins[i])
  /\ route = "trivial" => op # "Union" /\ ins # << >>
  /\ route = "tree" => op # "Diff" \/ Len(ins) >= 2
  /\ phase = "plan"
  /\ order = plan_order
  /\ cur = [i \in N |-> plan_cursor(i)]
  /\ major = "key" /\ slots = << >> /\ pass = 1 /\ next_slot = 1
  /\ handed = << >> /\ emptied = {}

\* Which answer ends the search at a key: an intersection's planner stops at the
\* first input without it, a difference's at the first subtrahend that has it.
\* Mutant: a difference's planner stops at the first subtrahend without the key.
planning_stops_all == IF op = "Intersect" \/ (op = "Diff" /\ route = "flat") THEN {FALSE} ELSE {}
planning_stops ==
  CASE op = "Intersect"               -> {FALSE}
    [] op = "Diff" /\ route = "flat"  -> {TRUE}
    [] OTHER                          -> {}

\* plan_intersect and plan_diff, plan_trivial and diff_shape.
PlanDriven ==
  LET p == Probe(driver_key, planning_stops)
      who == IF route = "trivial" THEN N ELSE {order[1]} \cup Range(p.hits)
  IN  /\ phase = "plan" /\ ~PlannedByMerge /\ driver_key # END
      /\ cur' = p.cur
      /\ slots' = IF op = "Intersect" /\ ~p.all THEN slots
                  ELSE Append(slots, [key |-> driver_key, who |-> who])
      /\ UNCHANGED << inputs, phase, order, major, pass, next_slot, handed, emptied >>

\* plan_union, plan_intersect over inputs of one width, intersect_shape and
\* union_shape_agg.
PlanMerge ==
  /\ phase = "plan" /\ PlannedByMerge /\ min_key(cur) # END
  /\ cur' = merged_cursors
  /\ slots' = IF op = "Intersect" /\ holders # N THEN slots
              ELSE Append(slots, [key |-> min_key(cur), who |-> holders])
  /\ UNCHANGED << inputs, phase, order, major, pass, next_slot, handed, emptied >>

\* The order of the fold: an intersection's driver is its narrowest input, its
\* partners sorted by what their cursors report.
fold_order ==
  IF op = "Intersect"
  THEN << fewest(container_count) >> \o by_length(N \ {fewest(container_count)})
  ELSE [j \in N |-> j]

\* An arena is laid out from the plan, and the fold begins.
StartFold ==
  /\ phase' = "fold"
  /\ cur' = [i \in N |-> cursor(i)]
  /\ order' = IF ins = << >> THEN << >> ELSE fold_order
  /\ major' \in IF op = "Intersect" \/ route = "trivial" THEN {"key"} ELSE {"key", "partner"}
  /\ handed' = [s \in DOMAIN slots |-> << >>]
  /\ pass' = 1 /\ next_slot' = 1
  /\ UNCHANGED << inputs, slots, emptied >>

Planned ==
  /\ phase = "plan"
  /\ IF PlannedByMerge THEN min_key(cur) = END ELSE driver_key = END

PlanDone ==
  /\ Planned
  /\ StartFold

\* plan_union_observed: what was predicted of the operands that are folds is
\* forgotten, and what they really produced is counted instead.
PlanAgain ==
  /\ Planned
  /\ route = "tree" /\ op = "Union" /\ slots # << >>
  /\ \E i \in N : ins[i].kind = "arena"
  /\ phase' = "observe"
  /\ slots' = [s \in DOMAIN slots |-> [slots[s] EXCEPT !.who = {i \in @ : IsLeaf(ins[i])}]]
  /\ cur' = [i \in N |-> cursor(i)]
  /\ pass' = 1 /\ next_slot' = 1
  /\ UNCHANGED << inputs, order, major, handed, emptied >>

\* The first slot from s on whose key is not below k.
slot_for(s, k) == Min({t \in s .. Len(slots) + 1 : t > Len(slots) \/ slots[t].key >= k})

\* Mutant: the search goes on where the operand before left it.
Observe_resumed ==
  LET key == peek_key(cur[pass])
      j   == slot_for(next_slot, key)
  IN  /\ phase = "observe" /\ pass \in N
      /\ IF ins[pass].kind # "arena" \/ key = END \/ j > Len(slots)
         THEN pass' = pass + 1 /\ UNCHANGED << cur, slots, next_slot >>
         ELSE /\ slots' = IF slots[j].key = key
                          THEN [slots EXCEPT ![j].who = @ \cup {pass}] ELSE slots
              /\ cur' = [cur EXCEPT ![pass] = advance(@)]
              /\ next_slot' = j
              /\ UNCHANGED pass
      /\ UNCHANGED << inputs, phase, order, major, handed, emptied >>
Observe ==
  LET key == peek_key(cur[pass])
      j   == slot_for(next_slot, key)
  IN  /\ phase = "observe" /\ pass \in N
      /\ IF ins[pass].kind # "arena" \/ key = END \/ j > Len(slots)
         THEN pass' = pass + 1 /\ next_slot' = 1 /\ UNCHANGED << cur, slots >>
         ELSE /\ slots' = IF slots[j].key = key
                          THEN [slots EXCEPT ![j].who = @ \cup {pass}] ELSE slots
              /\ cur' = [cur EXCEPT ![pass] = advance(@)]
              /\ next_slot' = j
              /\ UNCHANGED pass
      /\ UNCHANGED << inputs, phase, order, major, handed, emptied >>

ObserveDone ==
  /\ phase = "observe" /\ pass \notin N
  /\ StartFold

----------------------------------------------------------------------------
\* Folding.  A slot past the plan is out of bounds: nothing is handed over, and
\* `at` shows it.
Hand(s, refs) ==
  handed' = IF s \in DOMAIN slots THEN [handed EXCEPT ![s] = @ \o refs] ELSE handed

\* claim_key: slots no container reached are passed over.
claim_key(key) == slot_for(next_slot, key)

folding == << inputs, phase, order, major, slots >>

IntersectKey ==
  LET p == Probe(driver_key, {FALSE})
      s == claim_key(driver_key)
      refs == << Ref(order[1], cur[order[1]]) >>
                \o [j \in DOMAIN p.hits |-> Ref(p.hits[j], p.cur[p.hits[j]])]
  IN  /\ phase = "fold" /\ op = "Intersect" /\ slots # << >> /\ driver_key # END
      /\ cur' = p.cur
      /\ IF p.all THEN next_slot' = s + 1 /\ Hand(s, refs) ELSE UNCHANGED << next_slot, handed >>
      /\ UNCHANGED << folding, pass, emptied >>

\* union_fold_keys, which is fold_keys.
UnionKey ==
  LET s == claim_key(min_key(cur))
      present == kept(order, holders)
  IN  /\ phase = "fold" /\ op = "Union" /\ major = "key" /\ min_key(cur) # END
      /\ cur' = merged_cursors
      /\ next_slot' = s + 1
      /\ Hand(s, [j \in DOMAIN present |-> Ref(present[j], cur[present[j]])])
      /\ UNCHANGED << folding, pass, emptied >>

\* diff_fold_keys.
DiffKey ==
  LET p == Probe(driver_key, {})
      s == claim_key(driver_key)
      refs == << Ref(1, cur[1]) >>
                \o [j \in DOMAIN p.hits |-> Ref(p.hits[j], p.cur[p.hits[j]])]
  IN  /\ phase = "fold" /\ op = "Diff" /\ major = "key" /\ driver_key # END
      /\ cur' = p.cur
      /\ next_slot' = s + 1
      /\ Hand(s, refs)
      /\ UNCHANGED << folding, pass, emptied >>

\* union_fold_passes: one input streamed past the slots.
UnionPass ==
  LET key == peek_key(cur[pass])
      s   == slot_for(next_slot, key)
  IN  /\ phase = "fold" /\ op = "Union" /\ major = "partner" /\ pass \in N /\ key # END
      /\ cur' = [cur EXCEPT ![pass] = advance(@)]
      /\ next_slot' = s + 1
      /\ Hand(s, << Ref(pass, cur[pass]) >>)
      /\ UNCHANGED << folding, pass, emptied >>

\* What a subtrahend may leave of the accumulator in slot s.
Subtract(s) == emptied' \in {emptied, emptied \cup {s}}

\* diff_fold_passes, pass 1: every minuend container is seeded, fused with the
\* first subtrahend's.
DiffSeed ==
  LET key == driver_key
      s   == claim_key(key)
      p1  == IF Len(ins) > 1 THEN advance_to(cur[2], key) ELSE [hit |-> FALSE]
  IN  /\ phase = "fold" /\ op = "Diff" /\ major = "partner" /\ pass = 1 /\ key # END
      /\ cur' = [i \in N |-> CASE i = 1 -> advance(cur[1]) [] i = 2 -> p1.c [] OTHER -> cur[i]]
      /\ next_slot' = s + 1
      /\ IF p1.hit
         THEN Hand(s, << Ref(1, cur[1]), Ref(2, p1.c) >>) /\ Subtract(s)
         ELSE Hand(s, << Ref(1, cur[1]) >>) /\ UNCHANGED emptied
      /\ UNCHANGED << folding, pass >>

\* A slot with something left in it to subtract from (seeded, and not empty).
\* Mutant: only an emptied slot is passed over, not one nothing was seeded in.
Foldable_unseeded(s) == s \in DOMAIN handed /\ s \notin emptied
Foldable(s) == s \in DOMAIN handed /\ handed[s] # << >> /\ s \notin emptied

\* diff_fold_passes, later passes: one subtrahend, slot by slot.
DiffSlot ==
  LET p == advance_to(cur[pass], slots[next_slot].key)
  IN  /\ phase = "fold" /\ op = "Diff" /\ major = "partner" /\ pass \in N \ {1}
      /\ next_slot <= Len(slots)
      /\ next_slot' = next_slot + 1
      /\ IF Foldable(next_slot)
         THEN /\ peek_key(cur[pass]) # END
              /\ cur' = [cur EXCEPT ![pass] = p.c]
              /\ IF p.hit
                 THEN Hand(next_slot, << Ref(pass, p.c) >>) /\ Subtract(next_slot)
                 ELSE UNCHANGED << handed, emptied >>
         ELSE UNCHANGED << cur, handed, emptied >>
      /\ UNCHANGED << folding, pass >>

\* The end of a pass: the input is exhausted, or no slot is left.
\* Mutant: a pass over the slots ends only when its input does.
PassOver_input == IF pass = 1 THEN driver_key = END ELSE peek_key(cur[pass]) = END
PassOver ==
  CASE op = "Union"            -> peek_key(cur[pass]) = END
    [] op = "Diff" /\ pass = 1 -> driver_key = END
    [] OTHER                   -> \/ next_slot > Len(slots)
                                  \/ Foldable(next_slot) /\ peek_key(cur[pass]) = END

\* Pass 1 of a difference takes the first subtrahend with it.
\* Mutant: every pass of a difference takes two.
next_pass_two == IF op = "Diff" THEN pass + 2 ELSE pass + 1
next_pass == IF op = "Diff" /\ pass = 1 THEN 3 ELSE pass + 1

NextPass ==
  /\ phase = "fold" /\ major = "partner" /\ pass \in N
  /\ PassOver
  /\ pass' = next_pass
  /\ next_slot' = 1
  /\ UNCHANGED << folding, cur, handed, emptied >>

FoldDone ==
  /\ phase = "fold"
  /\ IF major = "partner" THEN pass \notin N
     ELSE CASE op = "Intersect" -> slots = << >> \/ driver_key = END
            [] op = "Union"     -> min_key(cur) = END
            [] op = "Diff"      -> driver_key = END
  /\ phase' = "done"
  /\ UNCHANGED << inputs, order, major, cur, slots, pass, next_slot, handed, emptied >>

Next ==
  \/ PlanDriven \/ PlanMerge \/ PlanDone \/ PlanAgain \/ Observe \/ ObserveDone
  \/ IntersectKey \/ UnionKey \/ DiffKey
  \/ UnionPass \/ DiffSeed \/ DiffSlot \/ NextPass \/ FoldDone

\* A fold is one call on one thread: it takes its next step until it returns.
Spec == Init /\ [][Next]_vars /\ WF_vars(Next)

----------------------------------------------------------------------------
RefType == [input : 1 .. MaxArity, key : 0 .. KeyCount, from : Nat, upto : Nat]

TypeOK ==
  /\ op \in {"Intersect", "Union", "Diff"} /\ route \in {"flat", "trivial", "tree"}
  /\ ins \in Seq(Operands) /\ live \in SUBSET Keys
  /\ phase \in {"plan", "observe", "fold", "done"}
  /\ Range(order) \subseteq N /\ major \in {"key", "partner"}
  /\ DOMAIN cur = N
  /\ \A i \in N : cur[i].pos \in 1 .. Len(cur[i].at) + 1
  /\ slots \in Seq([key : Keys, who : SUBSET N])
  /\ pass \in 1 .. Len(ins) + 1 \cup {3} /\ next_slot \in 1 .. Len(slots) + 2
  /\ handed \in Seq(Seq(RefType))
  /\ emptied \subseteq DOMAIN slots

\* Every container is folded into the slot planned for its key, and no walk asks
\* for a slot past the plan: not through a mask, not when an operand produced
\* fewer keys than predicted (arena.rs:217, union.rs:70, cursor.rs:215, and the
\* "superset" the comment at expr.rs:240 rests the masks on).
AtItsSlot ==
  /\ TypeOK
  /\ phase # "plan" => next_slot <= Len(slots) + 1
  /\ \A s \in DOMAIN handed : \A j \in DOMAIN handed[s] : handed[s][j].key = slots[s].key

\* What a slot is handed was counted when it was sized: each container of a union,
\* a difference's subtrahend when there is one, all of an intersection's.
Foreseen ==
  \A s \in DOMAIN handed :
    LET seen == {handed[s][j].input : j \in DOMAIN handed[s]}
    IN  CASE op = "Union"     -> seen \subseteq slots[s].who
          [] op = "Intersect" -> seen # {} => seen = N /\ slots[s].who = N
          [] op = "Diff"      -> /\ seen # {} => 1 \in seen
                                 /\ seen \ {1} # {} => slots[s].who \ {1} # {}

\* A flat plan has exactly the slots the operation needs, whichever of the two
\* walks made it: every key an intersection or union can have, and whether any
\* subtrahend reaches a key even though the search for one stops at the first.
FlatExact ==
  phase \in {"fold", "done"} /\ route = "flat" =>
    LET at_key(k) == {i \in N : k \in Range(ins[i].at)}
        needed == CASE op = "Intersect" -> {k \in Keys : N # {} /\ at_key(k) = N}
                    [] op = "Union"     -> {k \in Keys : at_key(k) # {}}
                    [] op = "Diff"      -> {k \in Keys : 1 \in at_key(k)}
    IN  /\ {slots[s].key : s \in DOMAIN slots} = needed
        /\ \A s, t \in DOMAIN slots : s < t => slots[s].key < slots[t].key
        /\ op = "Diff" => \A s \in DOMAIN slots :
             (slots[s].who = {1}) = (at_key(slots[s].key) = {1})

\* A plan is what the folds rely on: slots for just the keys the operation has,
\* and room for every container a slot is handed, on every route to a plan.  A
\* slot the observed re-plan gave no room is never reached.
PlanExact == Foreseen /\ FlatExact

\* The walk ends: every turn of every loop moves a cursor, a slot or a pass on.
Terminates == <>(phase = "done")

----------------------------------------------------------------------------
\* The walks implement KeyStream: a container counts as given to a key when it
\* was handed over whole, under its own key.
Whole(r) ==
  LET o == ins[r.input]
  IN  r.key \in Keys /\ r.from .. r.upto = {p \in DOMAIN o.at : o.at[p] = r.key}

GivenAt(k) ==
  LET s == {t \in DOMAIN handed : slots[t].key = k}
  IN  IF s = {} THEN << >>
      ELSE LET refs == handed[CHOOSE t \in s : TRUE]
           IN  [j \in DOMAIN refs |-> IF refs[j].key = k /\ Whole(refs[j])
                                      THEN refs[j].input ELSE 0]

WantedAt(k) ==
  LET present == {i \in N : k \in live \cap Range(ins[i].at)}
  IN  CASE op = "Intersect" -> IF present = N THEN N ELSE {}
        [] op = "Union"     -> present
        [] op = "Diff"      -> IF 1 \in present THEN present ELSE {}

Stream == INSTANCE KeyStream WITH
  Inputs   <- 1 .. MaxArity,
  wanted   <- [k \in Keys |-> WantedAt(k)],
  lead     <- IF op = "Diff" /\ ins # << >> THEN 1 ELSE 0,
  given    <- [k \in Keys |-> GivenAt(k)],
  spent    <- {slots[s].key : s \in emptied},
  finished <- phase = "done"

ImplementsStream == Stream!StreamSpec
=============================================================================
