# frostbit: specification, model checking and proofs

This directory specifies the core of **frostbit**, a Rust library of frozen
(serialized, memory-mappable) roaring bitmaps. Paths below are relative to the
repository; line numbers refer to the commit the specifications were written
against.

The library's claims are unusual for a set library: every operation plans its
memory *before* it runs, from a proof sketch in comments; folds in that memory
without growing it; serializes the result *in place* in the same buffer; keeps
those buffers in per-thread pools so that a warm operation allocates nothing;
and evaluates whole expression trees from one precomputed list of steps. These
claims are what is modelled, checked and (in part) proved here.

## 1. The system

A bitmap is a set of `u32`. It is stored per 64K block: the upper 16 bits are a
*key*, the block's values a *container*: a sorted array (2 bytes per value, at
most 4096), a bitmap (8192 bytes) or a list of runs (2 + 4 bytes per run, at
most 2047). Small scattered sets use the inline form, a flat list of values.

| component | source | state | operations |
|---|---|---|---|
| wire format | `src/format.rs` | none | sizes, alignments, offsets, header and index access |
| op arena | `src/ops/arena.rs` | one buffer: reserved front, slots, mirror slots, scratch; recorded containers; per-slot accumulator | lay out from a plan, claim, write, flip, record, serialize in place |
| per-key decisions | `src/ops/analyze/decide.rs`, promotion rules of `plan.rs` | none | capacity, type and run count of one output key |
| analyzer | `src/ops/analyze/plan.rs`, `shape.rs` | none | three flat planners, tree shapes, the observed re-plan of a union |
| fold kernels | `src/ops/kernels/*.rs` | the accumulators, in the arena | AND, OR, DIFF over a sequence of inputs, partner-major or key-major |
| run kernels | `src/ops/kernels/run.rs` | none | AND, OR, DIFF of run lists |
| expression trees | `src/api/expr.rs` | a list of steps; at execution an operand stack | and, or, difference, materialize |
| buffer pools | `src/api/pool.rs`, `bitmap.rs`, the `*_pool` modules | per thread: six pools, a budget, a policy, counters | configure, prewarm, clear, stats; take and put from every operation; drop of a bitmap on any thread |
| cursors, masks | `src/ops/cursor.rs`, `source.rs`, `keymask.rs` | a position | walk containers, skip dead keys |
| builder | `src/api/builder.rs` | blocks finished so far, the block being built | push, finish |
| views, parser | `src/api/view.rs` | none | from_bytes, contains, iterate |
| containers | `src/container.rs` | none | typed views of payload bytes |
| SIMD kernels | `src/ops/simd/` | none | vectorised merges and bit operations |
| roaring interop | `src/api/convert.rs` | none | conversions |

**How they interact.** A flat operation plans (analyzer, decisions), takes an
arena from its pool and lays it out, folds its inputs into the slots (kernels,
through cursors), records what is left of each key and serializes; the arena's
buffer becomes the result's and a buffer from the result pool takes its place. A
tree does this once per node, the operands being leaves or the arenas of earlier
nodes, and only the root is serialized. A bitmap returns its buffer to the
result pool of *the thread that drops it*. Everything is single-threaded except
that: pools are thread-local and bitmaps can be sent.

**What is hard.** (1) Capacities are proved once, in comments, and trusted by
every kernel: the plan and the kernel choose forms independently, and in a tree
the plan is made from predictions of predictions. (2) Compaction moves payloads
inside the buffer that holds them, while the index is written into its front;
the buffer holds another operation's bytes. (3) A step list with relative jumps
is spliced, flattened and masked while it is built. (4) Pool counters are
incremented and decremented on paths that panic, fail to parse, short-circuit,
or happen on another thread.

There is no waiting anywhere: no locks, channels, retries or timeouts, and no
persistence. So there is no deadlock between actors and no crash recovery. What
must *eventually* happen is that a call which runs ends and that an iterator runs
out. Loops are ended by cursors, slots, blocks and passes that different branches
move on, and a branch that moves none spins forever: `Walk`, `ArrayKernels` and
`View` assume weak fairness of their next step (one call on one thread takes its
next step until it returns; the caller of `next` calls until it has what it wants)
and state that they end.

### What makes each component correct

- arena: no region overlaps another; compaction only moves left and never
  overwrites what it has yet to read; a result contains exactly what was recorded,
  no stale bytes, and parses.
- decisions, analyzer, kernels: every form a fold passes through fits its slot; a
  prediction covers what its node produces; recorded counts are the real ones.
- accumulators: whatever a slot, its mirror or the scratch held before, the
  accumulator holds exactly what the inputs so far give, in each of its forms and
  on either side; a deferred count is resolved before anything relies on it.
- walks: every container reaches the slot planned for its key, once, in order, and
  no dead or missing key is asked for; walks end.
- run and array kernels: exact at the last value of the key space, in bounds, no
  repeats across blocks.
- trees: the result is the set the expression denotes; no key is claimed that was
  not planned; jumps land where the operands are.
- pools: retention is bounded by the budget; counters are never below what is
  really handed out; a warm call allocates nothing; panics return what they hold.
- builder, parser, views: what is built is accepted and read back as what was
  pushed; what is accepted, from anyone, answers every query for one set.

## 2. The modules

| module | models | used by |
|---|---|---|
| `FrozenFormat` | sizes, alignments and offsets of `format.rs` | `Arena`, `Decide`, `KeyFold`, proofs |
| `ContainerStore` | *abstract*: containers recorded in ascending key order, handed out once, exactly | `Arena` |
| `Arena` | `arena.rs` with the arena side of the kernels | `MCArena`, `ArenaProofs` |
| `Decide` | `decide.rs` and the promotion rules | `KeyFold`, `KeyFoldProofs` |
| `KeyFold` | planning and folding of one output key, by size, and trees of such folds | `MCKeyFold`, `KeyFoldProofs` |
| `Accum` | the fold of one output key, by value: accumulator forms, sides, stale buffers | `MCAccum` |
| `KeyStream` | *abstract*: each key is given the inputs that have it, once, in order | `Walk` |
| `Cursor` | `cursor.rs`, `source.rs`, `keymask.rs` | `Walk` |
| `Walk` | the walks of planners and folds over all keys | `MCWalk`, `WalkProofs` |
| `RunKernels` | `run.rs` and the folds that string run kernels together | `MCRunKernels` |
| `ArrayKernels` | the array kernels of `simd/`, block by block | `MCArrayKernels` |
| `Wire` | what is written where: containers, index, header, inline form | `Builder`, `View`, `Accum`, `WireProofs` |
| `Builder` | `builder.rs` | `Storage` |
| `View` | `view.rs`: examination, queries, iteration | `Storage`, `MCView` |
| `ValueSet` | *abstract*: a set that grows upwards, is frozen, and is read once through | `View`, `Storage` |
| `Storage` | `Builder` composed with `View` | `MCStorage` |
| `Expr` | construction and execution of expression trees | `MCExpr`, `ExprProofs` |
| `Pool` | the pools, and every call as the pool steps it makes | `MCPool` |
| `WireProofs` | lemmas and theorems about the operators | |
| `ArenaProofs`, `PoolProofs`, `RunProofs`, `ArrayProofs`, `KeyFoldProofs`, `WalkProofs`, `ExprProofs` | lemmas and theorems about the state machines | |

The state machines cut the system along its interfaces. `Expr` shows which keys a
plan has and a fold claims. `Walk` shows that the containers of a key arrive at
its slot. `KeyFold` shows that what a fold of those writes fits the slot, with the
real sizes and counts in place of values; `Accum` shows that it is the right set,
with the real cells and small sizes; `RunKernels` and `ArrayKernels` are the merges
`Accum` takes for granted. `Arena` takes *any* plan and *any* well-formed container
a kernel may leave in a slot to the bytes of a result. `Storage` makes bytes out of
pushed values and values out of bytes. `Pool` shows where the buffers come from
and go.

### Arena

`from_plan` is `Init`, `LayoutSlot` (one per slot) and `LayoutDone`. A key-major
fold is `FoldKey` (claim_key, the kernel's write, record); a partner-major one
is `SeedSlot`, `ApplySlot` (which may flip sides), `FoldDone` and then
`FinalizeSlot` in slot order. `Serialize` is the front of `serialize_inner`
(sort, transcode if compact, flags and the start of the data section),
`CompactNext` one turn of its loop, `Finish` the header and the hand-over.
Offsets and sizes are the real numbers. Memory is the set of *live segments*: a
write destroys every segment it overlaps, which is what makes an overlap visible
as a lost payload. `written` collects the ranges the serializer wrote.

`Arena` implements `ContainerStore` under the mapping at the end of the module:
`handed` is what a reader decodes, that is, the index entries whose payload is
really where they point.

### Decide and KeyFold

`KeyFold` follows one key through one fold at a time. A container is
`[typ, card, runs]`; the values are abstracted to how many there are and how
many runs they form. A set operation on two containers may give any count set
algebra allows; the model takes the two extreme counts and those of `Cards`
between them, and one run, or the most runs possible. Sizes are exact: each
step leaves in `wrote` the regions it wrote, with the room each had.

`PlanFlat` is a one-shot operation: `plan_intersect`, `plan_union`, `plan_diff`,
or `plan_trivial`. `PlanTree` is a node of a tree, planned from the shapes of its
operands; any of them may be the result of the fold before, so `MaxHeight` folds
stack up (two intermediates of a node are then equal), and a union over an intermediate may be planned again from what is on
the stack (`plan_union_observed`). `StartFold` picks the order and the accumulator
form; `UnionPass` and `DiffPass` are partner-major partners; `ArrayFold`,
`NativeFold` and `BitmapFold` the key-major accumulators; `FoldDone` finalizes and
records. Whether a fold is partner-major depends in the code on the total size of
all slots; for one key both are possible, so both are tried.

### Accum

The same folds on the cells of their buffers. `buf` has the slot, its mirror and
the two halves of the scratch, which start out holding what an earlier operation
left (`Stale`). A write replaces a prefix and leaves the rest, a run or array read
takes the count it is given, so a wrong side, count or length shows as stale
values. `StartPass`, `Pass` and `Finish` are the partner-major passes of one slot
(`union_seed`, `union_apply`, `diff_seed`, `diff_apply`, `finalize`), `StartKey`,
`ArrayFold` and `BitmapFold` the key-major accumulators (`ArrayAcc`,
`or_into_count`, `clear_into_count`, `bitmap_and_count`). The word operations of
`simd/common/words.rs` are there bit by bit, and `popcount` adds in lanes as wide
as NEON's where the processor is one. Array and run merges are their results; the
key-major fold over runs is `RunKernels`'.

### Cursor, Walk and KeyStream

An operand is the key at each of its positions (repeated, in an inline bitmap,
where a position is a value) and the keys a prediction gave it. `Walk` makes a
plan on one of three routes, analyzed (`PlanDriven`, `PlanMerge`), trivial
(`Planned`) or from shapes, and for unions of a tree again from what is there
(`PlanAgain`, `Observe`, `ObserveDone`). Then it folds along the plan: a key a step
(`IntersectKey`, `UnionKey`, `DiffKey`), or pass by pass over the slots
(`UnionPass`, `DiffSeed`, `DiffSlot`, `NextPass`). `handed` records what each slot
was given. `KeyStream` says what that should be, and `Walk` implements it.

### RunKernels

`Call` picks the next partner and where the accumulator is (the seed in place, or
the half written last); `Intersect`, `Union`, `Diff`, `Cut` are turns of the
kernels' loops, `Return` writes over the start of the other half. Starts and
lengths are u16, arithmetic is in u32 as in the code, both scaled to `LAST`.

### ArrayKernels

`Call` is the dispatch on lengths and processor; `IntersectBlock`, `DiffBlock`,
`UnionFirst`, `UnionBlock` are turns of the block merges, with the all-pairs
comparison by rotations, the compaction by mask and the merge network of the code
over registers of `W` lanes; `Scan` and `Gallop` the kernels for lopsided lengths;
`Scalar`, `DiffTail` and `UnionTail` what finishes them. `top` is how far a store
reached, whole blocks included.

### Wire, Builder, View and Storage

Stored bytes are a record: the header's fields, the index columns, the data
section as u16 cells, and how many bytes there are. `Wire` writes it
(`build_container`, `finish`, `serialize_standard`) and reads fields out of it.
`Builder` is `PushFirst`, `PushSameKey`, `PushNextKey`, `Finish`. `View` is `Parse`
(`from_bytes`: everything it looks at, at an address modulo 8), `Iterate`, and the
arms of `next`; `contains`, `min`, `max` are operators. `denotes` is the format's
own definition of the set. `Storage` hands what `Builder` finished to `View`
directly or as bytes at another address. Both implement `ValueSet`.

### Expr

A bitmap is a set of `<<key, value>>` pairs. `exprs` grows by `BuildCombine`
(and, or) and `BuildDifference`, each of which is the whole of
`FoldPlan::combine` or `diff`: splicing every child, flattening, guards, patching
and masks. `Materialize` starts one; `PushLeaf`, `GuardFires`, `GuardPasses`
and `Combine` are the arms of `execute`'s loop, `Return` its end. `meaning` is a
history variable: the set the expression denotes.

### Pool

A call is the sequence of pool steps its functions make (`flat_steps`,
`copy_steps`, ...), executed one at a time by `Take`, `Put`, `Swap`, `Own`,
`Lose`; trees choose their next node as they go (`TreeCombine`, `TreeGuard`,
`TreeFinish`). `TakePanics` is a panic under `OnOverflow::Fail`, which unwinds:
what a guard object holds goes back, plain vectors are freed. `held` and
`owned` are what is *really* out; `live` is what the code counts.

## 3. What is checked

| run | question | size |
|---|---|---|
| `arena` | every plan of up to three slots, both orders, both forms: disjoint regions, leftward compaction, nothing overwritten unread, a result that parses without stale bytes, refinement of `ContainerStore` | seconds |
| `key_fold` | every operation on up to 3 operands, trees of 2-operand nodes 3 deep, and unions of 4 over them: writes fit, predictions cover, recorded counts exact, kernel assertions | 650 000 states, two minutes |
| `accum` | every operation and order on up to three inputs in every form, over stale buffers: the accumulator, its count, what is recorded, and that no write leaves its region | 480 000 states, 16 s |
| `walk` | every operation, route and order on up to three operands, some of which produced less than predicted: containers at their slots, plans exact, refinement of `KeyStream`, an end | 210 000 states, two minutes |
| `run_kernels` | every two run containers of five values, and folds of three: room, run form, result | 1.5 million states, 16 s |
| `array_kernels` | every kernel and processor on blocks and rests, lopsided and short pairs: in bounds, exact, an end | 360 000 states, 40 s |
| `view` | bytes of one or two containers over cells of anything, headers that lie: what is accepted reads as one set; refinement of `ValueSet`; an end | 210 000 states, half a minute |
| `storage` | nearly any set of fourteen values of two keys, and every initial stretch up to the full set, built and read back: refinement of `ValueSet` | 880 000 states, a minute |
| `expr` | every tree of up to three operations over three leaves: right result, planned claims, reserved depth, operands present | half a minute |
| `pool` | three uses of the pools: warm calls allocate nothing, retention within budget, exact counting through trees and panics, nothing held after a call, and no result pool counting too few | 2.3 million states, a minute |
| `arena_inline`, `key_fold_loose` | must fail: section 4 | seconds |

The bounds, and why they are enough:

- `arena`: three slots are one before, one being moved and one after; capacities
  are those at which rounding or alignment changes (0, one value, a run container,
  the largest unaligned slot, a bitmap). Forms: emptied, one value, runs, two
  bitmaps that a compact result transcodes and one that it keeps.
- `key_fold`: leaves lie on both sides of every boundary compared with (4096
  values for an array, 2048 for demotion, 2047 runs, bitmap above and below the
  array limit, a run container larger than its array). Two operands per tree node
  and three levels let a prediction be two predictions deep. Interior promotion
  starts at four operands, so a union may have four.
  Inline groups are at most 4096 values here and in `accum`: see section 4. These
  leaves satisfy `LeavesAsBuilt`; `key_fold_loose` has two whose runs together pass
  `MAX_RUNS`, one of which does not, and trees of four folds.
- `accum`: twelve lows in words of two, so a bitmap is six cells, an array at most
  six values and a run container at most two runs, the same proportions as the
  code's; sixteen containers on both sides of each of these. Three inputs: a seed,
  a partner that changes the form, and one that meets the changed form or is
  absent. A stale cell is all zeros or all ones.
- `walk`: three keys are one before, one at and one after; three operands are a
  driver, one that lags and one that is exhausted. Any number of either is covered
  by the proof (section 5), for all but the end of the walk.
- `run_kernels`: five values hold runs that touch, overlap, nest and end at the
  last value; folds of three are over the last four of them, because what a third
  container adds is in the halves and not in a kernel.
- `array_kernels`: four lanes (two groups of two rotations, a network of three
  turns) and nine values: two blocks with and without a rest of one on one side,
  one block or two on the other, a double window and a rest, ratios on both sides
  of the dispatch's. Other lengths and widths are covered by the proof (section 5).
- `view`: five lows with a bitmap as large as the longest array, room for two runs,
  payloads of any cells, of every length up to one too many; two keys.
- `storage`: ten lows in words of two: each key can be stored in each form, there
  are more values than an inline count holds, and the set can be full.
- `expr`: three leaves, two of them disjoint on a common key (a container empties
  where its shape does not foresee it), one wider (an AND narrows). Three
  operations suffice for flattening below flattening, a guard inside a guarded
  node, and a mask passing through two levels.
- `pool`: sizes are 1 or 2 units, budgets up to 2, a call is warm after 3
  repetitions. `maxLive` and `MaxOverflows` bound counters that only grow. The
  uses are followed separately, because what one adds to another (configuration
  during a tree, sending a tree's result) touches the pools through the same steps.

Where a width is scaled (`LOWS`, `KEYS`, `WORD_BITS`, `LAST`, `W`), the limits
that the code derives from it (`ARRAY_MAX_SIZE`, `MAX_RUNS`, `BITMAP_BYTES`, the
count of a full set) are derived by the same formula.

Every property has a mutant: a definition changed as a plausible slip would
change the code (in the modules, marked *Mutant*), under which the run fails.
Type invariants are first conjuncts of a module's main invariant.

`CHECK_DEADLOCK FALSE` appears where the system stops: an arena is consumed by
serialization, a kernel, walk, fold or iteration ends, and in `MCExpr` the bounded
number of expressions is used up.

## 4. Where the code and what is said of it disagree

Two of these have runs that *must* fail; the others name the formula, or the
instance, under which one of the runs fails instead.

- `arena_inline` (**bug**). `plan_diff` sizes a key that no subtrahend touches by
  its stored bytes. For an inline left side that is two bytes per value without
  limit, while `plan.rs:5` promises at most `BITMAP_BYTES`. A block with 4097
  scattered values is stored inline if about 1400 single-value blocks go with it
  (`builder.rs:137` compares totals; the comment at line 288 thinks otherwise), and
  bytes from elsewhere are accepted with one (`view.rs:39`). The slots together are
  far below 64 KiB, so the plan is for a partner-major fold (`plan.rs:416`), and
  `diff_seed` loads the long group as a bitmap. Its slot is larger than a bitmap and
  not 64-aligned; behind a small payload the aligned destination is right of the
  source, and `arena.rs:440` asserts that this cannot be. (A key-major `diff_key`
  would load an array, which can only move left.) The run has one plan,
  of one value at the first key and 4097 at the second.
- The same inline group as a partner (**bug**; `accum` with `Containers <-
  WideInline`, `WritesWithin`). A partner that is no array is staged in the second
  half of the scratch before a key-major merge (`accum.rs:257`), 4096 values' room;
  an AND or DIFF of a small array with a longer group writes past it and panics.
- `key_fold_loose` (**bug**). `shape.rs:40` says that sizing a parent's slot by a
  node's `cap` "cannot go wrong by construction: whatever the kernel builds fits in
  this node's slot". It fits in the slot the node *has*, and for a union in a tree
  that may be a larger one: `plan_union_observed` sizes it again from what the
  operands turned out to be (`plan.rs:122`), by a rule that promotes when their runs
  pass `MAX_RUNS`, and their runs may be more than was predicted, because
  `diff_key` copies a container no subtrahend reaches as it is
  (`difference.rs:294`) where an array was predicted. The union is then a bitmap of
  8192 bytes, and a difference above it that copies it has a smaller slot and
  panics. It takes a leaf with more runs than a builder would store (a union of two
  run containers can be one); with leaves as built the slots suffice, which is
  proved (section 5). The proof attempt without that hypothesis is how it was found.
- `and([])` (**bug**; `expr` with `AndArities = {0, 2}` and `OrArities = {2}`,
  `ResultCorrect`) is documented to be the empty set (`expr.rs:134`);
  `and([and([]), x])` evaluates to `x`, because an AND contributes its operands to
  the AND around it and there are none (`expr.rs:518`).
- `from_bytes` accepts an array container of any length (`view.rs:494`; `view` with
  `LOWS = 6` and `WORD_BITS = 2`, `ContainersFitBitmap`). `view.rs:507` refuses
  runs past `MAX_RUNS` to keep slots within `BITMAP_BYTES`, and `plan.rs:5` says a
  stored container cannot exceed a bitmap; an array from another writer can.
- A guarded DIFF chain (**bug**, performance only; `expr` with
  `GuardedChainsStayNested`). `chain_guarded` is off by one against `patch_guards`
  and never true, so guarded DIFF chains are flattened and lose the short-circuit
  the comment says they keep.
- `PoolStats::live` counts by thread, and a bitmap may be dropped on another thread
  than it was built on (`pool` with `LiveIsHandedOut`).
- A caught `OnOverflow::Fail` panic leaves its increment behind: later operations
  within the budget panic (`pool` with `OverflowMeansExceeded`).
- A shape's run count is not always a bound (`key_fold` with `ShapeBoundsRuns`;
  `shape.rs:4` says it is): a difference that keeps the left side's larger slot also
  keeps its run count, and the kernel splits runs. Only the predicted choice between
  runs and a bitmap rests on it.

Smaller ones: `from_bytes` on bytes that do not parse takes a
buffer and never gives it back (`bitmap.rs:103`, reachable in `pool`; `ResultLiveCovers` bounds the
count from below and so does not see the lost buffer);
`PoolConfig::buffers` says at most *n* buffers are live at once, but idle
buffers left over from a larger budget are handed out unchecked (`pool.rs:267`);
`pool::clear` says every idle buffer and leaves those of the union-agg pool
(`pool.rs:213`); when an OR around an AND is flattened its deeper guards go too,
though the comment speaks of the child's own (`expr.rs:534`); `plan.rs:216` says
containers are canonical, array exactly up to 4096 values, while unions promote
below it and `finish_bitmap` demotes only up to 2048; the count cap of
`accum.rs:19` does not bound the arena for an inline driver, which has no
containers to count.

## 5. What is proved

TLAPS checks these for every value of the constants.

`ArenaProofs`, for every set of plans and forms with `CapacitiesBounded` (each
capacity at most `BITMAP_BYTES`):

- `TypeCorrect`: `TypeOK` always.
- `NoOverlap`: `RegionsDisjoint` always.
- `CompactionMovesLeft`: `LeftwardOnly` always.
- `CompactionKeepsUnread`: `UnreadIntact` always.
- `ArenaIsStore`: `Arena` implements `ContainerStore`, every step a step of the
  store or a stutter.
- `ResultIsReadable`: `ResultParses` always.

`CapacitiesBounded` is an assumption of the theorems and not of the module, because
the code breaks it in one case (`arena_inline`). It is needed: only a slot of
exactly `BITMAP_BYTES` is 64-aligned, and a bitmap in a larger slot can be aligned
to the right of where it is.

None of these is inductive by itself. For `NoOverlap` the layout part of the
strengthening is enough; the two about compaction need all of
it. `IInv` adds: `LayoutInv`, that slots are laid out in order from the reserved front, aligned by size, with the mirror region at a
multiple of 64; `FoldInv`, that recorded containers are in slot order, each within
its slot on one of its sides; `MemInv`, that every recorded payload not yet moved
is a live segment; `CompactInv`, that the running offset has not passed the slot
of the next container. The heart is `DstFacts`: the offset rounded up for a
container does not pass the start of its slot, since that start is rounded up at
least as much from at least as large an offset. `AlignUpLeast`, `DataSection`
and `DataSectionMonotone` say this of the arithmetic.

The last two need more. `SizedInv` and `MovedInv` say that a payload has the size
its type and count give, and that an index entry already written leads to the live
segment of its container, wherever compaction put it: then what `Finish` hands out
decodes to what was recorded. `TotalInv` follows the sum of the counts, `UniqueInv`
says that a key's bytes are in one place, or in its old and its new one, and
`WrittenInv` that what compaction has written has no hole, padding included, which
is why no byte of the operation before is handed out.

`RunProofs`, for every last value and every fold of run containers:

- `FoldIsExact`: what a fold leaves is the operation on its containers.
- `RunsWritten`: at every turn what is written ascends, does not overlap and does
  not wrap, is counted exactly, and does not touch if no input's runs do.
- `WritesInRoom`: no kernel writes more runs than its two inputs have.

A kernel has written the values of its result below a mark, and nothing else. For
an intersection the mark is where the two current runs start, for a difference it
is the cursor in the current run, and a union holds its last run open until the next
starts past it. `IntersectInv`, `UnionInv`, `DiffInv` and `CutInv` state this per
kernel; `FoldInv` relates what a kernel reads to the containers before it.

`ArrayProofs`, for every even number of lanes, every last value, every pair of
arrays, every processor and every ratio of the dispatch:

- `KernelsStayInBounds`: `InBounds` always.
- `KernelsAreExact`: `Exact` always.
- `MergeSplits`: `simd_merge` takes two sorted vectors to the low and the high half
  of their merge.
- `AllPairs`: two groups of half the rotations compare every lane with every lane.

`IInv` says for each kernel what is still *pending*, given where the cursors are:
what is out and what is pending are the result, and the one is below the other. For
an intersection that is what is left of both; for a difference what is left of `a`,
including the block whose lanes are still being compared; a scan or a binary search
has nothing at or above the next value behind it. A union's merge holds back the
high half of the last merge, which is from blocks already loaded and hence below
both next ones; its tail takes the least of three heads, which may be the sentinel
and also a value. That a store of a whole vector stays in the room is not arithmetic
on cursors: what is out is an array whose values are all in the result, so by
counting it is no longer than the room (`Pigeonhole`, `RoomForResult`), which is
the argument of the comment at `array_intersect.rs:127`. `MergeSplits` follows the
network turn by turn: after turn *n* the low half, turned by *n* lanes, and the high
half are each in order, and lane *i* of the high half is at least lane *j* of the
low one whenever *j* is at most *i + n* (`Halves`).

`PoolProofs`, for every set of threads and every program of calls:

- `TypeCorrect`: `TypeOK` always.
- `LiveExact`: `WorkingLiveExact` always.
- `NothingHeld`: `NothingHeldBetweenCalls` always.
- `Retention`: `RetentionWithinBudget`, an action property.
- `LiveCovers`: `ResultLiveCovers` always, for finitely many threads.

What makes `WorkingLiveExact` inductive is `Balanced`: the steps left of a call, run
from what the thread holds now, end with it holding nothing (or, between the
instructions of a tree, its operand stack and the arenas on it), and at each take in
between, what unwinding would give back is exactly what is held. Each kind of call
has a lemma that its steps are so; `RunsConcat` strings them together. `LiveCovers`
is about sums: a bitmap moves between threads without the counts, so only the total
over all threads is bounded.

`KeyFoldProofs`, about the decisions alone:

- `UnionSlotHolds`: whichever promotion rule applies, a union's slot either is
  smaller than a bitmap, and then holds all inputs' values together as an array
  the format allows, or is a bitmap's size; it holds a lone copy of the largest
  input and exceeds a bitmap only if that input does.
- `DiffSlotHolds`: a tree difference's slot holds the left side as stored, and
  what the shrinking fold needs if the right side may reach the key.
- `PromotionInRange`: the fan-in bounds of `union_promotes` keep its u64 arithmetic
  from going below zero or past 64 bits, for every count that reaches it.

The first two are the capacity arguments the comments in `decide.rs` and `shape.rs`
make; `ShrinkCapHolds`, `RunsFitBitmap` and `PromotionBounds` are their arithmetic.

And about the folds, for every set of leaves with `LeavesAsBuilt`, every set of counts an
operation may give, every arity and every depth of a tree:

- `FoldsFitSlots`: `WritesFit` always.
- `RecordsExact`: `RecordedExact` always.
- `ShapesCover`: `ShapeCovers` always.
- `AssertionsHold`: `PassAssertions` always.

`LeavesAsBuilt` says that a leaf's runs take no more bytes than an array of its
values and that an inline group is no longer than an array. It is an assumption of
the theorems and not of the module, because nothing enforces either, and without
them they are false: `key_fold_loose` for the runs, `arena_inline` and the staging of
an inline partner for the groups. The exact planner and the tree analyzer are
covered alike, as are both orders, however a fold was planned.

The strengthening is in three parts. `Promised` is what a plan owes to the
containers it was made for, and has a lemma for each planner (`FlatPlan`,
`TreePlan`, `ObservedPlan`): a slot smaller than a bitmap (`Tight`) holds the array
of everything a union may gather, or of the smallest input of an intersection; a
difference's holds the left side as stored, or what the shrinking fold needs once a
subtrahend reaches it. `Held` is what an accumulator owes to that while the fold goes on, one
clause for each form: in a `Tight` slot it is an array, or a copy nothing will touch,
and with what is still to come it fits. `Good` says this of a kernel step, whose
writes moreover fit, and there is a lemma for each step (`UnionApplied`,
`DiffApplied`, `DiffSeeded`, ...). `Covers` closes the induction over a tree: a
result is within its shape, and where its shape is smaller than a bitmap its runs are
no larger than its array. This last clause is what the observed re-plan needs:
then its run counts are below what the predicted capacity already allowed for, and a
slot sized from them is a bitmap's only if the predicted one was.

`WalkProofs`, for every set of operands that `WalkAssumption` describes, every set of
masks, every number of inputs and every number of keys:

- `ClaimsItsSlot`: `AtItsSlot` always.
- `PlansExactly`: `PlanExact` always.
- `WalksStream`: `Walk` implements `KeyStream`.
- `WalksAgree`: the invariant they come from, `WalkInv`, always.

`WalkAssumption` says what an input is: its keys ascend, only an inline bitmap's
repeat, a leaf's prediction is its keys, and a fold's result has no key that was not
predicted. The last is `ClaimsPlanned` of `Expr`, one node at a time.

Planner and fold are two loops that never meet: what one has left behind is known to
the other only through the slots. `WalkInv` therefore puts both in terms of *keys*.
`Rest(c)` is the set of live keys still ahead of a cursor, and there is a key `d`
such that every cursor is at `d` (`Level`, a merge), or the driver's is and no other
has passed it (`Driven`: a search that stops at the first input without the key
leaves the others behind). While planning, the slots are those of the keys below `d`
(`PlanAt`); folding key by key, the slots below `d` have been handed everything
wanted there and the others nothing (`KeyMajorAt`). Pass by pass there is no such
key: a union's slot has been given the inputs whose cursor has left it behind
(`UnionPassInv`), a difference's what is wanted of it up to the pass it has come to,
or less once it is emptied (`SubtractedTo`), and in pass 1 both inputs of the fused
step (`SeedAt`). `ObserveInv` is for the re-plan, where a slot is resized by one
operand after the other. What the plan owes the fold is `LaidOut`: each key at which
anything is wanted has a slot, in order, with room (`Roomy`, which is weaker than
the `Sized` of a flat plan because a re-plan forgets predictions).

There is a lemma for each action that it keeps this. They rest on what the operators
do: `AdvanceTo`, `SkipDead` and `GetIs` for a cursor, `ProbeHits`, `ProbeAll` and
`ProbeEvery` for a turn of a driven walk, `MergeIs` for a merge, `SlotFound` for a
claim. A fold's lemma says besides that its step is `HandOver` (or hands nothing
over), which is `Deliver` in `KeyStream`'s terms (`HandingDelivers`); planning is
stuttering, and `AllGiven` shows that a fold that ends has nothing missing.

`ExprProofs`, for every finite set of leaves, every tree that the constructors build
of them and every number of operands but an AND of none:

- `MaterializesItsMeaning`: `ResultCorrect` always.
- `ClaimsHaveSlots`: `ClaimsPlanned` always.
- `OperandsAreThere`: `OperandsPresent` always.
- `OnItsTrace`: the invariant they come from, `ExprInv`, always.

`0 \notin AndArities` is a hypothesis of the theorems and not of the module, because
`and([])` can be called, and as an operand of another AND it makes them false
(section 4). That nothing else does is what they add to that finding.

A manifest is a flat list of steps with relative jumps, and building a tree cuts and
joins such lists. What is stable under that is the *trace*: the stacks the manifest
passes through from a given stack when no guard fires (`Trace`, with `Moves` for each
step). `Jumps` says of each guard that where it would jump to, the trace is what it
would be with an empty result, or, while the guard still waits for its fold, that an
empty operand makes that fold's result empty. `PartOK` is what a child brings to its
parent: from any stack, and under *any* mask an AND further up may push down, it has
a trace that adds operands which agree with its meaning at every live key (`Stand`).
`AccOK` is the same of the children spliced so far, and there is a lemma for each
way to extend and to close it: a leaf, a sub-plan kept whole (`guardable`), one whose
operands are inlined and its guards dropped, the guard pushed after it, the fold at
the end, the guards patched and the masks set. `Good` is the result for an
expression, and `Sound` says it of all that were built. An execution is `OnTrace`:
its stack is the trace's at the step it has come to; a guard that fires is one more
place of the same trace. Masks are why the induction must be over all of them: the
shape a fold was planned from was computed without the mask that is set later from
above.

`WireProofs`, for every number of lows, keys and bits in a word:

- `SmallestIsSmallest`: the order of tests in `build_container` gives the smallest
  of the three payloads, and none larger than a bitmap.
- `StoredRunsAccepted`: a container the builder stores as runs has no more of them
  than the examination lets through.

An induction, over the turns of a network or the length of an array, is an ordinary
proof that a set of naturals without a least element missing from it is all of them
(`SetInduction`, `LeastNatural`, from the library's `WFMin`), and a function defined
by recursion is unfolded by proving that there is one (`TurnsExist`, `ChosenExists`,
`DoubledExists`, `SumsExist`).

Only model-checked: every property of `Accum`, `View`, `Storage` and `Builder`, and
`WarmCallsAllocateNothing` of `Pool`, whose number of warm-up repetitions is
enough for the calls of its run and not for all. Liveness
(`Terminates`, `IterationEnds`) is out of the prover's reach, and so is what an
operator declared `RECURSIVE`, a fold over a sequence or `SelectSeq` computes for
every input: `Wire`, `Builder` and `View` filter and fold sequences. Those stay with
TLC. In `Expr` the children are folded by a recursive function, which can be proved
about, and a fold over a set of keys is `SumOf` in `PoolProofs`, a sum over a
sequence `Total` in `KeyFold`.

## 6. What is abstracted, and what is not modelled

- Values inside containers are counts (`KeyFold`), owners of segments (`Arena`),
  a few points (`Expr`), or values of a scaled width (`Accum`, `RunKernels`,
  `ArrayKernels`, `Storage`).
- Bytes are records of fields and u16 cells (`Wire`). A read past the end of what is
  stored gives `NONE`, which no check accepts.
- A binary search finds what it would in a sorted slice; `View` therefore states its
  queries over *accepted* bytes, whose order was examined.
- In `KeyFold` the intermediates among a node's operands are equal. A node of four
  operands is a union, the one operation whose rule depends on the fan-in, and ends
  its tree; its leaves are one size of array, small enough that only the fan-in
  promotes it.
- The choice of order by total slot size, and the gate of `plan_trivial` by input
  size, are free choices.
- Loops that skip (groups of empty bitmap words, dead keys, windows of a scan) are
  one step to where they stop.
- Intrinsics are what they compute, lane by lane. The scalar, SSE2, NEON and AVX2
  forms of a word operation that compute the same are one definition; the ones
  that go about it differently (scan widths, dispatch, NEON's u16 sums) are not.
- Capacity of `Vec`s inside pools is in abstract units. Buffers created by the
  allocator are never refused.
- Equality, hashing and formatting of bitmaps read through the iterator modelled
  in `View` and are left out.
- Not modelled: `convert.rs` (an adapter to an external crate's iterators),
  benchmarks, tests and build files.

## 7. Plan

Done: arena, decisions, key folds, trees, pools; cursors and walks; run kernels;
array kernels; wire format, builder, views and their composition; accumulators;
proofs about the arena, pools, run kernels, array kernels, key folds, walks and
expression trees.

Left, in this order:

1. Proofs: `HoldsPushed` of `Builder`; `WritesWithin` of `Accum`.
2. Composition of `Accum` with `Walk`, so that several keys share one scratch.
3. `KeyFold` with different intermediates under one node.
