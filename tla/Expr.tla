-------------------------------- MODULE Expr --------------------------------
(***************************************************************************)
(* Boolean expression trees (src/api/expr.rs).  Every constructor splices  *)
(* its children's step lists into one flat manifest, flattening where the  *)
(* operations allow it, placing short-circuit guards and pushing down the  *)
(* key mask of a narrowing AND; `execute` runs the manifest on an operand  *)
(* stack.                                                                  *)
(*                                                                         *)
(* A bitmap is a set of << key, value >> pairs: a container is the pairs   *)
(* of one key, and an intermediate's shape is the set of its keys.  Slot   *)
(* capacities are left to the plan and arena modules; they do not change   *)
(* which keys a plan has.                                                  *)
(***************************************************************************)
EXTENDS Integers, Sequences, FiniteSets, SequencesExt

CONSTANTS
  Leaves,      \* the bitmaps at hand, a sequence
  MaxExprs,    \* bound: expressions, leaves included
  AndArities,  \* bound: numbers of children of an AND
  OrArities    \* bound: numbers of children of an OR

ASSUME ExprAssumption ==
  /\ Leaves \in Seq(SUBSET (Nat \X Nat))
  /\ \A i \in DOMAIN Leaves : IsFiniteSet(Leaves[i])
  /\ MaxExprs \in Nat /\ Len(Leaves) <= MaxExprs /\ AndArities \subseteq Nat /\ OrArities \subseteq Nat

VARIABLES
  exprs,    \* the expressions at hand: leaves, then what was built of them
  meaning,  \* history: the set each denotes
  run,      \* the manifest being executed, or 0
  pc,       \* the step about to run
  stack,    \* operand stack
  answer    \* << >>, or << the materialized bitmap >>

built == << exprs, meaning >>
vars  == << exprs, meaning, run, pc, stack, answer >>

KeysOf(bitmap) == { p[1] : p \in bitmap }

Intersection(sets) == { p \in UNION sets : \A s \in sets : p \in s }

\* What an expression over operands with these meanings denotes.
Denotes(op, sets) ==
  CASE op = "and"  -> Intersection(ToSet(sets))
    [] op = "or"   -> UNION ToSet(sets)
    [] op = "diff" -> sets[1] \ UNION ToSet(Tail(sets))

----------------------------------------------------------------------------
\* Steps and nodes.

UNRESOLVED == -1   \* a guard whose fold has no index yet (u32::MAX)

LeafStep(bitmap) == [op |-> "leaf", set |-> bitmap]

GuardStep(pop) == [op |-> "guard", skip |-> UNRESOLVED, pop |-> pop]

\* keys: the slots of the plan.  mask: << >>, or << the keys that are live >>.
CombineStep(arity, fold, keys) ==
  [op |-> "combine", arity |-> arity, fold |-> fold, keys |-> keys, mask |-> << >>]

IsGuard(s) == s.op = "guard"

LeafNode(bitmap) == [node |-> "leaf", set |-> bitmap]

----------------------------------------------------------------------------
\* Shapes: the keys of shape.rs.

intersect_shape(shapes) == Intersection(ToSet(shapes))

union_shape(shapes) == UNION ToSet(shapes)

\* Mutant: a key the right side has is taken to be gone.
diff_shape_minus(shapes) == shapes[1] \ UNION ToSet(Tail(shapes))

diff_shape(shapes) == shapes[1]

----------------------------------------------------------------------------
\* splice.

root(fp) == Last(fp.steps).fold

\* Mutant: a subtrahend DIFF flattens as well.
flattens_rhs(parent, fold, guarded) ==
  \/ parent = "and" /\ fold = "and"
  \/ parent = "or" /\ fold = "or"
  \/ parent \in {"diff", "diff_lhs"} /\ fold = "diff" /\ ~ guarded

\* Which sub-plans are inlined; "diff_lhs" is the minuend position of a DIFF.
flattens(parent, fold, guarded) ==
  \/ parent = "and" /\ fold = "and"
  \/ parent = "or" /\ fold = "or"
  \/ parent = "diff_lhs" /\ fold = "diff" /\ ~ guarded

\* The source's test for a guard of the node's own: a guard aimed at the index
\* of the Combine about to be popped.
chain_guarded(fp) ==
  \E i \in 1 .. Len(fp.steps) :
    IsGuard(fp.steps[i]) /\ i + fp.steps[i].skip = Len(fp.steps)

\* The steps of an inlined sub-plan: its guards are dropped, wherever they aim.
unguarded(steps) ==
  LET upto[k \in 0 .. Len(steps)] ==
        IF k = 0 THEN << >>
        ELSE IF IsGuard(steps[k]) THEN upto[k - 1] ELSE Append(upto[k - 1], steps[k])
  IN  upto[Len(steps)]

\* What a child contributes: its steps, the shapes of its operands, how many
\* operands it leaves on the stack, the depth it needs, whether to guard it.
splice(child, parent) ==
  IF child.node = "leaf"
    THEN [steps |-> << LeafStep(child.set) >>, shapes |-> << KeysOf(child.set) >>,
          net |-> 1, depth |-> 1, guardable |-> FALSE]
  ELSE IF flattens(parent, root(child), chain_guarded(child))
    THEN [steps |-> unguarded(Front(child.steps)),
          shapes |-> child.operands,
          net |-> Last(child.steps).arity, depth |-> child.max_depth, guardable |-> FALSE]
    ELSE [steps |-> child.steps, shapes |-> << child.shape >>,
          net |-> 1, depth |-> child.max_depth, guardable |-> TRUE]

\* Mutant: guards aim at the fold instead of past it.
patch_target_fold(steps) == Len(steps) + 1

\* Where a fold's guards jump: past the fold that is about to be pushed.
patch_target(steps) == Len(steps) + 2

\* Mutant: only the guard after the first operand is resolved.
patch_guards_first(steps, target) ==
  [i \in 1 .. Len(steps) |->
     IF IsGuard(steps[i]) /\ steps[i].skip = UNRESOLVED /\ steps[i].pop = 1
       THEN [steps[i] EXCEPT !.skip = target - i] ELSE steps[i]]

patch_guards(steps, target) ==
  [i \in 1 .. Len(steps) |->
     IF IsGuard(steps[i]) /\ steps[i].skip = UNRESOLVED
       THEN [steps[i] EXCEPT !.skip = target - i] ELSE steps[i]]

\* A narrowing AND's surviving keys go to every fold beneath it, itself
\* included, that has no mask yet.
mask_folds(steps, keys) ==
  [i \in 1 .. Len(steps) |->
     IF steps[i].op = "combine" /\ steps[i].mask = << >>
       THEN [steps[i] EXCEPT !.mask = << keys >>] ELSE steps[i]]

----------------------------------------------------------------------------
\* FoldPlan::combine and FoldPlan::diff.

larger(m, n) == IF m > n THEN m ELSE n

\* Mutant: the operands already on the stack are not counted.
peak_alone(depth, base, child_depth) == larger(depth, child_depth)

\* The depth needed so far, with `base` operands below the next child's.
peak(depth, base, child_depth) == larger(depth, base + child_depth)

SpliceChild(op, acc, child) ==
  LET part == splice(child, op)
      base == acc.base + part.net
      guard == op = "and" /\ part.guardable
  IN  [steps |-> acc.steps \o part.steps \o (IF guard THEN << GuardStep(base) >> ELSE << >>),
       shapes |-> acc.shapes \o part.shapes,
       base |-> base,
       depth |-> peak(acc.depth, acc.base, part.depth)]

\* What the children of a combination contribute, one after another.
spliced(op, children) ==
  LET acc[n \in 0 .. Len(children)] ==
        IF n = 0 THEN [steps |-> << >>, shapes |-> << >>, base |-> 0, depth |-> 0]
        ELSE SpliceChild(op, acc[n - 1], children[n])
  IN  acc[Len(children)]

combined_shape(op, shapes) ==
  IF op = "and" THEN intersect_shape(shapes) ELSE union_shape(shapes)

\* Whether an AND keeps fewer keys than some operand has.
narrows(op, all, shape) ==
  /\ op = "and" /\ all.base >= 2
  /\ \E k \in DOMAIN all.shapes : Cardinality(shape) < Cardinality(all.shapes[k])

combine(op, children) ==
  LET all   == spliced(op, children)
      shape == combined_shape(op, all.shapes)
      steps == patch_guards(Append(all.steps, CombineStep(all.base, op, shape)),
                            patch_target(all.steps))
  IN  [node |-> "combined",
       steps |-> IF narrows(op, all, shape) THEN mask_folds(steps, shape) ELSE steps,
       shape |-> shape, operands |-> all.shapes,
       max_depth |-> larger(larger(all.depth, all.base), 1)]

diff(lhs, rhs) ==
  LET l == splice(lhs, "diff_lhs")
      r == splice(rhs, "diff")
      shapes == l.shapes \o r.shapes
      before == l.steps \o (IF l.guardable THEN << GuardStep(1) >> ELSE << >>) \o r.steps
  IN  [node |-> "combined",
       steps |-> patch_guards(Append(before, CombineStep(l.net + 1, "diff", diff_shape(shapes))),
                              patch_target(before)),
       shape |-> diff_shape(shapes), operands |-> shapes,
       max_depth |-> larger(larger(l.depth, l.net + r.depth), l.net + 1)]

----------------------------------------------------------------------------
\* Building.

Init ==
  /\ exprs = [i \in DOMAIN Leaves |-> LeafNode(Leaves[i])]
  /\ meaning = Leaves
  /\ run = 0 /\ pc = 1 /\ stack = << >> /\ answer = << >>

Build(expr, denoted) ==
  /\ run = 0
  /\ Len(exprs) < MaxExprs
  /\ exprs' = Append(exprs, expr)
  /\ meaning' = Append(meaning, denoted)
  /\ UNCHANGED << run, pc, stack, answer >>

\* Children are (clones of) expressions at hand, by their indices.
BuildCombine(op, c) ==
  Build(combine(op, [k \in DOMAIN c |-> exprs[c[k]]]),
        Denotes(op, [k \in DOMAIN c |-> meaning[c[k]]]))

BuildDifference(lhs, rhs) ==
  Build(diff(exprs[lhs], exprs[rhs]), Denotes("diff", << meaning[lhs], meaning[rhs] >>))

----------------------------------------------------------------------------
\* execute.

plan == exprs[run]
step == plan.steps[pc]

Executing == run # 0 /\ plan.node = "combined"

Running == Executing /\ pc <= Len(plan.steps)

\* An expression does not change once built, so only the newest is evaluated,
\* and the leaves while they are all there is.
Evaluated(i) == i = Len(exprs) \/ Len(exprs) = Len(Leaves)

MaterializeLeaf(i) ==
  /\ run = 0
  /\ Evaluated(i)
  /\ exprs[i].node = "leaf"
  /\ run' = i
  /\ answer' = << exprs[i].set >>
  /\ UNCHANGED << built, pc, stack >>

Materialize(i) ==
  /\ run = 0
  /\ Evaluated(i)
  /\ exprs[i].node = "combined"
  /\ run' = i
  /\ UNCHANGED << built, pc, stack, answer >>

PushLeaf ==
  /\ Running
  /\ step.op = "leaf"
  /\ stack' = Append(stack, step.set)
  /\ pc' = pc + 1
  /\ UNCHANGED << built, run, answer >>

top_empty == stack # << >> /\ Last(stack) = {}

Drop(n) == SubSeq(stack, 1, Len(stack) - n)

GuardFires ==
  /\ Running
  /\ step.op = "guard"
  /\ top_empty
  /\ stack' = Append(Drop(step.pop), {})
  /\ pc' = pc + step.skip
  /\ UNCHANGED << built, run, answer >>

GuardPasses ==
  /\ Running
  /\ step.op = "guard"
  /\ ~ top_empty
  /\ pc' = pc + 1
  /\ UNCHANGED << built, run, stack, answer >>

\* The operands a fold sees through its mask.
live(bitmap, mask) ==
  IF mask = << >> THEN bitmap ELSE { p \in bitmap : p[1] \in mask[1] }

inputs ==
  [i \in 1 .. step.arity |-> live(stack[Len(stack) - step.arity + i], step.mask)]

\* The keys a fold claims a slot for.
claims ==
  CASE step.fold = "and" ->
         IF step.keys = {} THEN {} ELSE Intersection({ KeysOf(inputs[i]) : i \in DOMAIN inputs })
    [] step.fold = "or" -> UNION { KeysOf(inputs[i]) : i \in DOMAIN inputs }
    [] step.fold = "diff" -> KeysOf(inputs[1])

\* A fold claims its keys and combines the containers found there.
Combine ==
  /\ Running
  /\ step.op = "combine"
  /\ stack' = Append(Drop(step.arity),
                     { p \in Denotes(step.fold, inputs) : p[1] \in claims })
  /\ pc' = pc + 1
  /\ UNCHANGED << built, run, answer >>

Return ==
  /\ Executing /\ ~ Running
  /\ answer = << >>
  /\ answer' = << Last(stack) >>
  /\ stack' = Front(stack)
  /\ UNCHANGED << built, run, pc >>

\* The caller has its bitmap.
Consume ==
  /\ answer # << >>
  /\ answer' = << >>
  /\ run' = 0 /\ pc' = 1
  /\ UNCHANGED << built, stack >>

Next ==
  \/ \E n \in AndArities : \E c \in [1 .. n -> DOMAIN exprs] : BuildCombine("and", c)
  \/ \E n \in OrArities : \E c \in [1 .. n -> DOMAIN exprs] : BuildCombine("or", c)
  \/ \E lhs, rhs \in DOMAIN exprs : BuildDifference(lhs, rhs)
  \/ \E i \in DOMAIN exprs : MaterializeLeaf(i) \/ Materialize(i)
  \/ PushLeaf
  \/ GuardFires
  \/ GuardPasses
  \/ Combine
  \/ Return
  \/ Consume

Spec == Init /\ [][Next]_vars

----------------------------------------------------------------------------
\* Properties.

\* Every variable has its type.
TypeOK ==
  /\ Len(exprs) <= MaxExprs /\ Len(meaning) = Len(exprs)
  /\ \A i \in DOMAIN exprs : exprs[i].node = "combined" =>
       \A k \in DOMAIN exprs[i].steps :
         IsGuard(exprs[i].steps[k]) => exprs[i].steps[k].skip \in Nat \ {0}
  /\ \A i \in DOMAIN meaning : meaning[i] \subseteq UNION ToSet(Leaves)
  /\ run \in 0 .. Len(exprs)
  /\ pc \in Nat \ {0}
  /\ \A i \in DOMAIN stack : stack[i] \subseteq UNION ToSet(Leaves)
  /\ Len(answer) <= 1

\* Whatever was flattened, guarded and masked, a materialized tree is the set
\* its expression denotes.
ResultCorrect ==
  answer # << >> => answer[1] = meaning[run]

\* Every key a fold claims has a slot in the plan made for it at construction,
\* masks, short-circuits and emptied containers notwithstanding (claim_key
\* would walk off the slots, or land on another key's).
ClaimsPlanned ==
  Running /\ step.op = "combine" => claims \subseteq step.keys

\* The operand stack never outgrows the depth reserved for it, no step takes
\* operands that are not there, and one is left at the end: every guard resumes
\* exactly where its fold would have left the stack.
OperandsPresent ==
  /\ TypeOK
  /\ Executing => Len(stack) <= plan.max_depth
  /\ Running =>
       /\ step.op = "guard" => step.pop <= Len(stack) /\ step.skip > 0
       /\ step.op = "combine" => step.arity <= Len(stack)
  /\ Executing /\ ~ Running =>
       pc = Len(plan.steps) + 1 /\ Len(stack) = 1 - Len(answer)

----------------------------------------------------------------------------
\* What the documentation says of trees and the code does not do.

\* A guard aimed past the last fold of a manifest: the node's own.
OwnGuard(fp) ==
  fp.node = "combined" /\
  \E i \in 1 .. Len(fp.steps) : IsGuard(fp.steps[i]) /\ i + fp.steps[i].skip = Len(fp.steps) + 1

\* splice: a DIFF chain flattens only if it has no guard of its own; a guarded
\* chain stays nested and keeps its short-circuit.
GuardedChainsStayNested ==
  [][\A l, r \in DOMAIN exprs :
       BuildDifference(l, r) /\ OwnGuard(exprs[l]) /\ root(exprs[l]) = "diff" =>
         splice(exprs[l], "diff_lhs").guardable]_vars
=============================================================================
