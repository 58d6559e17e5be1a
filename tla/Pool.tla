-------------------------------- MODULE Pool --------------------------------
(***************************************************************************)
(* The per-thread working-memory pools of frostbit (src/api/pool.rs) and   *)
(* the calls that take from them and put back: flat set operations, tree   *)
(* evaluations, copies and rejected parses (src/api/bitmap.rs, expr.rs,    *)
(* src/ops).  A call is the sequence of pool steps its functions make;     *)
(* a panicking call unwinds instead.  Threads share nothing but the        *)
(* bitmaps they send each other, each of which carries the buffer of the   *)
(* thread that built it.                                                   *)
(*                                                                         *)
(* A buffer is its capacity, in units that the calls ask for; 0 is a       *)
(* buffer nothing was allocated for.                                       *)
(***************************************************************************)
EXTENDS Integers, Sequences, FiniteSets, SequencesExt, FiniteSetsExt

CONSTANTS
  Threads,     \* worker threads
  MaxOverflows, \* the largest value of an `overflows` counter, which saturates
  Uses         \* what programs use the pools for, one of which is followed:
               \*   threads     those that make calls
               \*   calls       the calls made, of AllCalls
               \*   sizes       bytes a call asks for
               \*   budgets     values PoolConfig::buffers is set to
               \*   policies    the OnOverflow policies configured
               \*   sizeLists   the pre-sizing lists configured
               \*   buffers     the default budget
               \*   warmup      calls after which a repeated call is warm
               \*   maxArenas   bound: arenas on one operand stack
               \*   maxBitmaps  bound: bitmaps a thread holds
               \*   maxLive     bound: no call starts with a `live` count past it

AllCalls == {"flat", "tree", "copy", "reject", "send", "configure", "prewarm", "clear"}

ASSUME PoolAssumption ==
  /\ IsFiniteSet(Threads)
  /\ MaxOverflows \in Nat
  /\ \A u \in Uses :
       /\ u.threads \subseteq Threads /\ u.calls \subseteq AllCalls
       /\ u.sizes \subseteq Nat \ {0} /\ u.sizeLists \subseteq Seq(u.sizes)
       /\ u.budgets \subseteq Nat /\ u.policies \subseteq {"Allocate", "Fail"}
       /\ u.buffers \in Nat /\ u.warmup \in Nat \ {0}
       /\ u.maxArenas \in Nat /\ u.maxBitmaps \in Nat /\ u.maxLive \in Nat

VARIABLES
  use,        \* the use followed, which does not change
  budget,     \* [buffers, on_overflow] of each thread
  sizes,      \* the configured pre-sizing list of each thread
  overflows,  \* over-budget requests of each thread since its last configure
  free,       \* idle buffers of each thread's pools
  live,       \* each pool's count of buffers handed out
  held,       \* the buffers a thread's running call really holds
  owned,      \* the buffers behind the bitmaps each thread holds
  call,       \* what each thread is executing
  todo,       \* the pool steps left in that call
  grown,      \* history: this call has allocated
  last,       \* history: the pool steps of the latest call
  calm,       \* history: undisturbed repetitions of that call
  panicked    \* history: a call of this thread has panicked

configVars  == << use, budget, sizes >>
poolVars    == << overflows, free, live >>
vars == << configVars, poolVars, held, owned, call, todo, grown, calm, last, panicked >>

----------------------------------------------------------------------------
\* The pools.  All but the result pool hold working memory, which OnOverflow
\* judges; the result pool is a recycling cache.
Working == {"arena", "slot-plan", "union-agg", "fold-scratch", "operand-stack"}
Pools   == Working \cup {"result"}

\* What a guard object returns to its pool when a panic unwinds it.  The
\* buffers of the other pools are plain vectors: an unwind frees them.
Guarded == {"arena", "fold-scratch", "operand-stack"}

\* Pool steps.
take(p, bytes) == [op |-> "take", pool |-> p, n |-> bytes]
put(p, depth)  == [op |-> "put", pool |-> p, n |-> depth]
swap           == [op |-> "swap", pool |-> "arena", n |-> 0]
own            == [op |-> "own", pool |-> "result", n |-> 0]
lose           == [op |-> "lose", pool |-> "result", n |-> 0]

Instruction ==
  [op : {"take", "put", "swap", "own", "lose"}, pool : Pools, n : Nat]

----------------------------------------------------------------------------
\* The calls, as the pool steps they make.

When(condition, steps) == IF condition THEN steps ELSE << >>

\* FoldScratch::take, then its drop at the end of the walk.
scratch_loan == << take("fold-scratch", 1), put("fold-scratch", 0) >>

\* plan_trivial and the early returns take only a slot vector; the analyzing
\* planners also walk the inputs with a FoldScratch.
plan_steps(analyzed) == << take("slot-plan", 1) >> \o When(analyzed, scratch_loan)

\* serialize_inner: a result buffer is swapped with the arena's; the result keeps
\* the arena's and the arena goes back to its pool with the other.
serialize_steps == << take("result", 0), swap, own, put("arena", 0) >>

\* intersect / union / diff and their compact forms.  A key-major fold loans a
\* FoldScratch; a partner-major one does not.
flat_steps(bytes, analyzed, key_major) ==
  plan_steps(analyzed) \o << take("arena", bytes), put("slot-plan", 0) >>
    \o When(key_major, scratch_loan) \o serialize_steps

\* clone, from_bytes, from_bytes_trusted, the builder: a result buffer, owned.
copy_steps(bytes) == << take("result", bytes), own >>

\* from_bytes of bytes that do not parse drops the buffer it took.
reject_steps(bytes) == << take("result", bytes), lose >>

\* Mutant: the newest operand is left on the stack.
truncate_steps_short(n, above) == [d \in 1 .. n - 1 |-> put("arena", n - d + above)]

\* Vec::truncate drops the n topmost arenas, oldest first, `above` the top.
truncate_steps(n, above) == [d \in 1 .. n |-> put("arena", n - d + above)]

\* One Combine of FoldPlan::execute over n intermediate operands.
combine_steps(bytes, n, observed, key_major) ==
  When(observed, << take("union-agg", 1), take("slot-plan", 1), put("union-agg", 0) >>)
    \o << take("arena", bytes) >> \o When(observed, << put("slot-plan", 0) >>)
    \o When(key_major, scratch_loan) \o truncate_steps(n, 1)

\* The end of execute: the last operand is an arena, or it is a leaf or Empty.
finish_steps(bytes, folded) ==
  (IF folded THEN serialize_steps ELSE copy_steps(bytes)) \o << put("operand-stack", 0) >>

----------------------------------------------------------------------------
\* Per-thread quantities.

HeldCount(t, p) == Len(held[t][p])

OwnedCount(t) == Len(owned[t])

Init ==
  /\ use \in Uses
  /\ budget = [t \in Threads |-> [buffers |-> use.buffers, on_overflow |-> "Allocate"]]
  /\ sizes = [t \in Threads |-> << >>]
  /\ overflows = [t \in Threads |-> 0]
  /\ free = [t \in Threads |-> [p \in Pools |-> << >>]]
  /\ live = [t \in Threads |-> [p \in Pools |-> 0]]
  /\ held = [t \in Threads |-> [p \in Pools |-> << >>]]
  /\ owned = [t \in Threads |-> << >>]
  /\ call = [t \in Threads |-> "none"]
  /\ todo = [t \in Threads |-> << >>]
  /\ grown = [t \in Threads |-> FALSE]
  /\ last = [t \in Threads |-> << >>]
  /\ calm = [t \in Threads |-> 0]
  /\ panicked = [t \in Threads |-> FALSE]

----------------------------------------------------------------------------
\* Starting a call.

MayStart(t) ==
  /\ call[t] = "none"
  /\ OwnedCount(t) < use.maxBitmaps
  /\ \A p \in Pools : live[t][p] <= use.maxLive

Start(t, steps) ==
  /\ MayStart(t)
  /\ call' = [call EXCEPT ![t] = "running"]
  /\ todo' = [todo EXCEPT ![t] = steps]
  /\ grown' = [grown EXCEPT ![t] = FALSE]
  /\ last' = [last EXCEPT ![t] = steps]
  /\ calm' = [calm EXCEPT ![t] = IF last[t] = steps /\ OwnedCount(t) = 0 THEN @ ELSE 0]
  /\ UNCHANGED << configVars, poolVars, held, owned, panicked >>

StartFlat(t) ==
  /\ "flat" \in use.calls
  /\ \E bytes \in use.sizes, analyzed, key_major \in BOOLEAN :
       Start(t, flat_steps(bytes, analyzed, key_major))

StartCopy(t) ==
  /\ "copy" \in use.calls
  /\ \E bytes \in use.sizes : Start(t, copy_steps(bytes))

StartReject(t) ==
  /\ "reject" \in use.calls
  /\ \E bytes \in use.sizes : Start(t, reject_steps(bytes))

\* ExecStack::take, then the steps of the tree, one instruction at a time.
StartTree(t) ==
  /\ "tree" \in use.calls
  /\ MayStart(t)
  /\ call' = [call EXCEPT ![t] = "tree"]
  /\ todo' = [todo EXCEPT ![t] = << take("operand-stack", 1) >>]
  /\ grown' = [grown EXCEPT ![t] = FALSE]
  /\ last' = [last EXCEPT ![t] = << >>]
  /\ calm' = [calm EXCEPT ![t] = 0]
  /\ UNCHANGED << configVars, poolVars, held, owned, panicked >>

AtInstruction(t) == call[t] = "tree" /\ todo[t] = << >>

Continue(t, steps) ==
  /\ todo' = [todo EXCEPT ![t] = steps]
  /\ UNCHANGED << configVars, poolVars, held, owned, grown, calm, last, panicked >>

\* Step::Combine over n operands that are arenas (leaves hold no buffer).
TreeCombine(t) ==
  /\ AtInstruction(t)
  /\ \E bytes \in use.sizes, n \in 0 .. HeldCount(t, "arena"), observed, key_major \in BOOLEAN :
       /\ HeldCount(t, "arena") - n < use.maxArenas
       /\ observed => n > 0
       /\ Continue(t, combine_steps(bytes, n, observed, key_major))
  /\ UNCHANGED call

\* Step::Guard finding an empty operand drops the fold's operands so far.
TreeGuard(t) ==
  /\ AtInstruction(t)
  /\ \E n \in 1 .. HeldCount(t, "arena") : Continue(t, truncate_steps(n, 0))
  /\ UNCHANGED call

TreeFinish(t) ==
  /\ AtInstruction(t)
  /\ HeldCount(t, "arena") <= 1
  /\ \E bytes \in use.sizes :
       Continue(t, finish_steps(bytes, HeldCount(t, "arena") = 1))
  /\ call' = [call EXCEPT ![t] = "running"]

\* The call returns: a repetition, unless something disturbed it.
Return(t) ==
  /\ call[t] \in {"running", "unwinding"}
  /\ todo[t] = << >>
  /\ call' = [call EXCEPT ![t] = "none"]
  /\ calm' = [calm EXCEPT ![t] = Min({@ + 1, use.warmup})]
  /\ UNCHANGED << configVars, poolVars, held, owned, todo, grown, last, panicked >>

----------------------------------------------------------------------------
\* The steps of a running call.

step(t) == Head(todo[t])

\* The next step of t's call is this operation.
At(t, op) == todo[t] # << >> /\ step(t).op = op

\* Pool::take pops an idle buffer, or makes an empty one; the caller reserves
\* what it needs in it.
idle_or_new(t, p) == IF free[t][p] = << >> THEN 0 ELSE Last(free[t][p])

\* Mutant: only buffers the pool had to make are counted.
handed_out_made(t, p) == live[t][p] + (IF free[t][p] = << >> THEN 1 ELSE 0)

\* The pool's count of buffers handed out, this request included.
handed_out(t, p) == live[t][p] + 1

\* A request is over budget when no buffer is idle and the pool's count is
\* already at the budget.
over_budget(t, p) ==
  /\ free[t][p] = << >>
  /\ p \in Working
  /\ handed_out(t, p) > budget[t].buffers

overflowed(t) == [overflows EXCEPT ![t] = Min({@ + 1, MaxOverflows})]

Take(t) ==
  /\ At(t, "take")
  /\ LET p     == step(t).pool
         bytes == step(t).n
         over  == over_budget(t, p)
     IN  /\ over => budget[t].on_overflow = "Allocate"
         /\ live' = [live EXCEPT ![t][p] = handed_out(t, p)]
         /\ free' = [free EXCEPT ![t][p] = IF @ = << >> THEN @ ELSE Front(@)]
         /\ held' = [held EXCEPT ![t][p] = Append(@, Max({idle_or_new(t, p), bytes}))]
         /\ grown' = [grown EXCEPT ![t] = @ \/ idle_or_new(t, p) < bytes]
         /\ overflows' = IF over THEN overflowed(t) ELSE overflows
         /\ calm' = [calm EXCEPT ![t] = IF over THEN 0 ELSE @]
  /\ todo' = [todo EXCEPT ![t] = Tail(@)]
  /\ UNCHANGED << configVars, owned, call, last, panicked >>

\* A panic in a take of pool p drops the guards on the way out: the fold's own
\* arena first, then the operand stack.
unwind_steps(t, p) ==
  LET arenas == HeldCount(t, "arena")
      local  == IF p = "fold-scratch" /\ arenas > 0 THEN 1 ELSE 0
  IN  When(local = 1, << put("arena", 0) >>)
        \o truncate_steps(arenas - local, 0)
        \o When(HeldCount(t, "operand-stack") > 0, << put("operand-stack", 0) >>)

\* Under OnOverflow::Fail an over-budget request panics, having counted itself.
TakePanics(t) ==
  /\ At(t, "take")
  /\ budget[t].on_overflow = "Fail"
  /\ LET p == step(t).pool
     IN  /\ over_budget(t, p)
         /\ live' = [live EXCEPT ![t][p] = handed_out(t, p)]
         /\ todo' = [todo EXCEPT ![t] = unwind_steps(t, p)]
  /\ held' = [held EXCEPT ![t] = [p \in Pools |-> IF p \in Guarded THEN @[p] ELSE << >>]]
  /\ overflows' = overflowed(t)
  /\ call' = [call EXCEPT ![t] = "unwinding"]
  /\ calm' = [calm EXCEPT ![t] = 0]
  /\ panicked' = [panicked EXCEPT ![t] = TRUE]
  /\ UNCHANGED << configVars, free, owned, grown, last >>

\* Mutant: one buffer too few is kept.
retained_fewer(t, idle, item) ==
  IF Len(idle) + 1 < budget[t].buffers THEN Append(idle, item) ELSE idle

\* Pool::put on a pool with `idle` buffers.
retained(t, idle, item) ==
  IF Len(idle) < budget[t].buffers THEN Append(idle, item) ELSE idle

\* Mutant: an unchecked subtraction.
plain_dec(n) == n - 1

saturating_dec(n) == IF n = 0 THEN 0 ELSE n - 1

Put(t) ==
  /\ At(t, "put")
  /\ LET p == step(t).pool
         k == HeldCount(t, p) - step(t).n
     IN  /\ live' = [live EXCEPT ![t][p] = saturating_dec(@)]
         /\ free' = [free EXCEPT ![t][p] = retained(t, @, held[t][p][k])]
         /\ held' = [held EXCEPT ![t][p] = RemoveAt(@, k)]
  /\ todo' = [todo EXCEPT ![t] = Tail(@)]
  /\ UNCHANGED << configVars, overflows, owned, call, grown, calm, last, panicked >>

\* The finished arena's buffer becomes the result's, and the reverse.
Swap(t) ==
  /\ At(t, "swap")
  /\ LET a == HeldCount(t, "arena")
         r == HeldCount(t, "result")
     IN  held' = [held EXCEPT ![t]["arena"][a] = held[t]["result"][r],
                              ![t]["result"][r] = held[t]["arena"][a]]
  /\ todo' = [todo EXCEPT ![t] = Tail(@)]
  /\ UNCHANGED << configVars, poolVars, owned, call, grown, calm, last, panicked >>

\* The result buffer moves into the FrozenBitmap the call returns ...
Own(t) ==
  /\ At(t, "own")
  /\ owned' = [owned EXCEPT ![t] = Append(@, Last(held[t]["result"]))]
  /\ held' = [held EXCEPT ![t]["result"] = Front(@)]
  /\ todo' = [todo EXCEPT ![t] = Tail(@)]
  /\ UNCHANGED << configVars, poolVars, call, grown, calm, last, panicked >>

\* ... or, from_bytes having rejected the bytes, is freed.
Lose(t) ==
  /\ At(t, "lose")
  /\ held' = [held EXCEPT ![t]["result"] = Front(@)]
  /\ todo' = [todo EXCEPT ![t] = Tail(@)]
  /\ calm' = [calm EXCEPT ![t] = 0]
  /\ UNCHANGED << configVars, poolVars, owned, call, grown, last, panicked >>

----------------------------------------------------------------------------
\* Between calls.

\* FrozenBitmap::drop.
DropBitmap(t, k) ==
  /\ call[t] = "none"
  /\ live' = [live EXCEPT ![t]["result"] = saturating_dec(@)]
  /\ free' = [free EXCEPT ![t]["result"] = retained(t, @, owned[t][k])]
  /\ owned' = [owned EXCEPT ![t] = RemoveAt(@, k)]
  /\ UNCHANGED << configVars, overflows, held, call, todo, grown, calm, last, panicked >>

\* A bitmap is sent to another thread, which drops it there.
SendBitmap(t, u, k) ==
  /\ "send" \in use.calls
  /\ t # u
  /\ call[t] = "none"
  /\ OwnedCount(u) < use.maxBitmaps
  /\ owned' = [owned EXCEPT ![t] = RemoveAt(@, k), ![u] = Append(@, owned[t][k])]
  /\ calm' = [calm EXCEPT ![t] = 0, ![u] = 0]
  /\ UNCHANGED << configVars, poolVars, held, call, todo, grown, last, panicked >>

\* The setters of PoolConfig leave at most one size per buffer.
Configure(t) ==
  /\ "configure" \in use.calls
  /\ call[t] = "none"
  /\ \E n \in use.budgets, policy \in use.policies, list \in use.sizeLists :
       /\ Len(list) <= n
       /\ budget' = [budget EXCEPT ![t] = [buffers |-> n, on_overflow |-> policy]]
       /\ sizes' = [sizes EXCEPT ![t] = list]
  /\ overflows' = [overflows EXCEPT ![t] = 0]
  /\ calm' = [calm EXCEPT ![t] = 0]
  /\ UNCHANGED << use, free, live, held, owned, call, todo, grown, last, panicked >>

\* Mutant: the list is not cut to the budget.
prewarmed_all(t, idle) == idle \o sizes[t]

\* Pool::prewarm on a pool with these idle buffers.
prewarmed(t, idle) ==
  LET room == Max({0, budget[t].buffers - Len(idle)})
  IN  idle \o SubSeq(sizes[t], 1, Min({room, Len(sizes[t])}))

Prewarm(t) ==
  /\ "prewarm" \in use.calls
  /\ call[t] = "none"
  /\ free' = [free EXCEPT ![t]["result"] = prewarmed(t, @), ![t]["arena"] = prewarmed(t, @)]
  /\ calm' = [calm EXCEPT ![t] = 0]
  /\ UNCHANGED << configVars, overflows, live, held, owned, call, todo, grown, last, panicked >>

\* pool::clear lists every pool but union-agg.
Cleared == Pools \ {"union-agg"}

Clear(t) ==
  /\ "clear" \in use.calls
  /\ call[t] = "none"
  /\ free' = [free EXCEPT ![t] = [p \in Pools |-> IF p \in Cleared THEN << >> ELSE @[p]]]
  /\ calm' = [calm EXCEPT ![t] = 0]
  /\ UNCHANGED << configVars, overflows, live, held, owned, call, todo, grown, last, panicked >>

StartCall(t) == StartFlat(t) \/ StartTree(t) \/ StartCopy(t) \/ StartReject(t)

TreeStep(t) == TreeCombine(t) \/ TreeGuard(t) \/ TreeFinish(t)

Run(t) == Take(t) \/ TakePanics(t) \/ Put(t) \/ Swap(t) \/ Own(t) \/ Lose(t) \/ Return(t)

Manage(t) ==
  \/ \E k \in 1 .. OwnedCount(t) : DropBitmap(t, k)
  \/ \E u \in use.threads, k \in 1 .. OwnedCount(t) : SendBitmap(t, u, k)
  \/ Configure(t)
  \/ Prewarm(t)
  \/ Clear(t)

Next == \E t \in use.threads : StartCall(t) \/ TreeStep(t) \/ Run(t) \/ Manage(t)

Spec == Init /\ [][Next]_vars

----------------------------------------------------------------------------
\* Properties.

\* Every variable has its type.
TypeOK ==
  /\ use \in Uses
  /\ budget \in [Threads -> [buffers : Nat, on_overflow : {"Allocate", "Fail"}]]
  /\ sizes \in [Threads -> Seq(Nat)]
  /\ overflows \in [Threads -> Nat]
  /\ free \in [Threads -> [Pools -> Seq(Nat)]]
  /\ live \in [Threads -> [Pools -> Nat]]
  /\ held \in [Threads -> [Pools -> Seq(Nat)]]
  /\ owned \in [Threads -> Seq(Nat)]
  /\ call \in [Threads -> {"none", "running", "tree", "unwinding"}]
  /\ todo \in [Threads -> Seq(Instruction)]
  /\ grown \in [Threads -> BOOLEAN]
  /\ last \in [Threads -> Seq(Instruction)]
  /\ calm \in [Threads -> Nat]
  /\ panicked \in [Threads -> BOOLEAN]

\* Retention never grows past the budget: whatever a thread does, a pool that
\* ends a step with more idle buffers than before has at most its budget
\* (Pool::put, Pool::prewarm).
RetentionWithinBudget ==
  [][\A t \in Threads, p \in Pools :
       Len(free'[t][p]) > Len(free[t][p]) => Len(free'[t][p]) <= budget'[t].buffers]_vars

\* A working-memory pool never counts less than is really handed out, and on a
\* thread that has not panicked counts exactly that: every path through a flat
\* operation or a tree, short-circuits included, returns what it took.
WorkingLiveExact ==
  \A t \in Threads, p \in Working :
    /\ live[t][p] >= HeldCount(t, p)
    /\ panicked[t] \/ live[t][p] = HeldCount(t, p)

\* A call that has returned left no working memory behind, panicking or not.
NothingHeldBetweenCalls ==
  \A t \in Threads, p \in Pools : call[t] = "none" => held[t][p] = << >>

\* No counter goes below zero, and over all threads the result pools count at
\* least the bitmaps there are, however they were sent around before being
\* dropped.
ResultLiveCovers ==
  LET counted(t) == live[t]["result"]
      real(t)    == OwnedCount(t) + HeldCount(t, "result")
  IN  /\ TypeOK
      /\ MapThenSumSet(counted, Threads) >= MapThenSumSet(real, Threads)

\* A warm operation performs no allocation: once a call has been repeated,
\* undisturbed, each time dropping its result, it allocates nothing.  A call
\* that loses its buffer never gets warm.
WarmCallsAllocateNothing ==
  \A t \in Threads :
    calm[t] = use.warmup /\ budget[t].buffers > 0 /\ call[t] # "none" => ~ grown[t]

----------------------------------------------------------------------------
\* What the documentation says of the pools and the code does not do.

\* PoolStats::live: buffers handed out right now.
LiveIsHandedOut ==
  \A t \in Threads : live[t]["result"] = OwnedCount(t) + HeldCount(t, "result")

\* OnOverflow::Fail: a panic names a budget that was exceeded.
OverflowMeansExceeded ==
  [][\A t \in Threads :
       overflows'[t] > overflows[t] =>
         HeldCount(t, step(t).pool) >= budget[t].buffers]_vars
=============================================================================
