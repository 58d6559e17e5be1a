------------------------------- MODULE Arena --------------------------------
(***************************************************************************)
(* The working arena of one set operation (src/ops/arena.rs).  A plan     *)
(* lays out one slot per output key past a reserved header and index; the  *)
(* fold writes accumulators into slots and records the survivors; then the *)
(* arena is serialized in place: payloads are compacted leftward inside    *)
(* the same buffer, which becomes the result.                              *)
(*                                                                         *)
(* Offsets and sizes are the real ones.  Bytes are not: `mem` holds the    *)
(* segments of the buffer that carry a live payload, and a write destroys  *)
(* every segment it overlaps.  `written` holds the ranges the serializer   *)
(* wrote, because the pooled buffer starts with another operation's bytes. *)
(***************************************************************************)
EXTENDS FrozenFormat, Sequences, FiniteSets, SequencesExt

CONSTANTS
  Plans,  \* the plans considered: [slots : Seq([key, capacity]), double]
  Forms   \* what a kernel may leave in a slot: [typ, card, size]

Slot == [key : Nat, capacity : Nat]

Form == [typ : {CT_ARRAY, CT_BITMAP, CT_RUN}, card : Nat, size : Nat]

\* Values are 16 bits wide, and a form's size is what its type and cardinality
\* (or run count) determine.
WellFormed(f) ==
  /\ f.card <= 65536
  /\ f.typ = CT_ARRAY => f.size = 2 * f.card
  /\ f.typ = CT_BITMAP => f.size = BITMAP_BYTES
  /\ f.typ = CT_RUN => \E nr \in 0 .. MAX_RUNS : f.size = run_bytes(nr)

\* Plans are ascending by key.
ASSUME PlansAssumption ==
  /\ \A p \in Plans :
       /\ p.slots \in Seq(Slot)
       /\ p.double \in BOOLEAN
       /\ \A i, k \in 1 .. Len(p.slots) :
            i < k => p.slots[i].key < p.slots[k].key
  /\ Forms \subseteq Form
  /\ \A f \in Forms : WellFormed(f)

\* What plan.rs promises of every plan: "Every capacity is <= BITMAP_BYTES".
\* It is not assumed: it fails for one plan the code builds (see README).
CapacitiesBounded ==
  \A p \in Plans : \A i \in 1 .. Len(p.slots) : p.slots[i].capacity <= BITMAP_BYTES

\* plan.rs: a bitmap accumulator plus a run or bitmap temporary.
SCRATCH_BYTES == 2 * BITMAP_BYTES

UNSEEDED == 255

Unseeded == [typ |-> UNSEEDED, side |-> 0, card |-> 0, size |-> 0]

VARIABLES
  plan,        \* the plan this arena was built from
  phase,       \* layout, fold, finalize, compact, done
  cursor,      \* from_plan's running offset
  slot_off,    \* side-A offset of each slot laid out so far
  stride,      \* distance to the mirror region, 0 when single-buffered
  scratch_off, \* start of the scratch region
  buf_len,     \* total bytes of the arena buffer
  next_slot,   \* key-major: the next slot claim_key looks at
  fin,         \* partner-major: the next slot finalize looks at
  state,       \* partner-major: the accumulator in each slot
  out,         \* recorded containers: [key, slot, typ, card, off, data_size]
  total_card,  \* sum of the recorded cardinalities
  pos,         \* compaction: the entry being moved
  dc,          \* compaction: running offset in the data section
  prev_end,    \* compaction: end of the last payload moved
  data_base,   \* compaction: start of the data section
  index,       \* the container index of the result
  mem,         \* live payload segments: [id, lo, hi]
  written      \* byte ranges written since serialization began

layoutVars  == << plan, cursor, slot_off, stride, scratch_off, buf_len >>
foldVars    == << next_slot, fin, state, out, total_card >>
compactVars == << pos, dc, prev_end, data_base, index, written >>
vars == << layoutVars, phase, foldVars, compactVars, mem >>

NumSlots == Len(plan.slots)
Key(i)   == plan.slots[i].key
Cap(i)   == plan.slots[i].capacity

----------------------------------------------------------------------------
\* Memory.

Segment(id, lo, size) == [id |-> id, lo |-> lo, hi |-> lo + size]

Overlaps(s, lo, hi) == s.lo < hi /\ lo < s.hi

\* The segments that survive a write to [lo, hi).
Clobber(m, lo, hi) == { s \in m : ~ Overlaps(s, lo, hi) }

\* The segments that survive writes to every range of a set.
ClobberAll(m, ranges) ==
  { s \in m : \A r \in ranges : ~ Overlaps(s, r[1], r[2]) }

\* A kernel leaves a payload of `size` bytes at `lo` for `id`, replacing the
\* one `id` had (on either side).  It may use the whole scratch region.
KernelWrite(m, id, lo, size) ==
  { s \in ClobberAll(m, {<< lo, lo + size >>, << scratch_off, buf_len >>}) : s.id # id }
    \cup {Segment(id, lo, size)}

----------------------------------------------------------------------------
\* from_plan.

\* Mutant: every slot is word-aligned.
slot_align_word(capacity) == WORD_ALIGN

\* Only a slot of exactly a bitmap's size is aligned for one.
slot_align(capacity) == IF capacity = BITMAP_BYTES THEN BUF_ALIGN ELSE WORD_ALIGN

\* Mutant: the scratch region placed as if there were no mirror region.
scratch_start_single(end, mirror) == align_up(end, BUF_ALIGN)

\* Scratch follows the slots and their mirror region.
scratch_start(end, mirror) == align_up(end + mirror, BUF_ALIGN)

Init ==
  /\ plan \in Plans
  /\ phase = "layout"
  /\ cursor = data_section_off(Len(plan.slots), TRUE)
  /\ slot_off = << >>
  /\ stride = 0 /\ scratch_off = 0 /\ buf_len = 0
  /\ next_slot = 1 /\ fin = 1
  /\ state = [i \in 1 .. Len(plan.slots) |-> Unseeded]
  /\ out = << >>
  /\ total_card = 0
  /\ pos = 1 /\ dc = 0 /\ prev_end = 0 /\ data_base = 0
  /\ index = << >>
  /\ mem = {}
  /\ written = {}

LayoutSlot ==
  /\ phase = "layout"
  /\ Len(slot_off) < NumSlots
  /\ LET i  == Len(slot_off) + 1
         at == align_up(cursor, slot_align(Cap(i)))
     IN  /\ slot_off' = Append(slot_off, at)
         /\ cursor' = at + Cap(i)
  /\ UNCHANGED << plan, phase, stride, scratch_off, buf_len, foldVars, compactVars, mem >>

LayoutDone ==
  /\ phase = "layout"
  /\ Len(slot_off) = NumSlots
  /\ stride' = IF plan.double THEN align_up(cursor, BUF_ALIGN) ELSE 0
  /\ scratch_off' = scratch_start(cursor, stride')
  /\ buf_len' = scratch_off' + SCRATCH_BYTES
  /\ phase' = "fold"
  /\ UNCHANGED << plan, cursor, slot_off, foldVars, compactVars, mem >>

----------------------------------------------------------------------------
\* The fold.

is_double == stride > 0

off_of(i, side) == slot_off[i] + side * stride

\* The contract every kernel writes under.
Fits(f, i) == f.size <= Cap(i)

entry(i, f, side) ==
  [key |-> Key(i), slot |-> i, typ |-> f.typ, card |-> f.card,
   off |-> off_of(i, side), data_size |-> f.size]

\* Mutant: an empty container is recorded too.
record_empty(i, f, side) ==
  /\ out' = Append(out, entry(i, f, side))
  /\ total_card' = total_card + f.card

\* Empties are skipped.
record(i, f, side) ==
  IF f.card = 0 THEN UNCHANGED << out, total_card >>
  ELSE /\ out' = Append(out, entry(i, f, side))
       /\ total_card' = total_card + f.card

\* Mutant: the side bit counts up.
flip_side_count(side) == side + 1

flip_side(side) == 1 - side

\* Key-major: claim the slot planned for a key, fold the key into it, record.
FoldKey(i, f) ==
  /\ phase = "fold"
  /\ ~ is_double
  /\ i >= next_slot
  /\ Fits(f, i)
  /\ next_slot' = i + 1
  /\ record(i, f, 0)
  /\ mem' = KernelWrite(mem, Key(i), off_of(i, 0), f.size)
  /\ UNCHANGED << layoutVars, phase, fin, state, compactVars >>

\* Partner-major: the first container of a key seeds its slot.
SeedSlot(i, f) ==
  /\ phase = "fold"
  /\ is_double
  /\ state[i].typ = UNSEEDED
  /\ Fits(f, i)
  /\ state' = [state EXCEPT ![i] = [typ |-> f.typ, side |-> 0, card |-> f.card, size |-> f.size]]
  /\ mem' = KernelWrite(mem, Key(i), off_of(i, 0), f.size)
  /\ UNCHANGED << layoutVars, phase, next_slot, fin, out, total_card, compactVars >>

\* A later partner folds into the slot: in place, or (a merge, whose output
\* must not alias its input) into the other side, which becomes the current one.
ApplySlot(i, f, merge) ==
  LET st   == state[i]
      side == IF merge THEN flip_side(st.side) ELSE st.side
  IN  /\ phase = "fold"
      /\ is_double
      /\ st.typ # UNSEEDED
      /\ Fits(f, i)
      /\ state' = [state EXCEPT ![i] = [typ |-> f.typ, side |-> side, card |-> f.card, size |-> f.size]]
      /\ mem' = KernelWrite(mem, Key(i), off_of(i, side), f.size)
      /\ UNCHANGED << layoutVars, phase, next_slot, fin, out, total_card, compactVars >>

FoldDone ==
  /\ phase = "fold"
  /\ is_double
  /\ phase' = "finalize"
  /\ UNCHANGED << layoutVars, foldVars, compactVars, mem >>

\* diff_finalize / union_finalize: record every seeded slot, in slot order.
FinalizeSlot ==
  /\ phase = "finalize"
  /\ fin <= NumSlots
  /\ fin' = fin + 1
  /\ IF state[fin].typ = UNSEEDED
       THEN UNCHANGED << out, total_card >>
       ELSE record(fin, state[fin], state[fin].side)
  /\ UNCHANGED << layoutVars, phase, next_slot, state, compactVars, mem >>

----------------------------------------------------------------------------
\* serialize / serialize_compact.

KeySorted(s) == \A a, b \in 1 .. Len(s) : a < b => s[a].key < s[b].key

\* sort_unstable_by_key leaves a strictly ascending sequence as it is.
SortByKey(s) ==
  IF KeySorted(s) THEN s ELSE SortSeq(s, LAMBDA a, b : a.key < b.key)

\* Whether serialize_compact rewrites an entry as an array.
sparse(e) == e.typ = CT_BITMAP /\ e.card <= ARRAY_MAX_SIZE

\* Mutant: the type is rewritten, the size is not.
Transcoded_size(e) == IF sparse(e) THEN [e EXCEPT !.typ = CT_ARRAY] ELSE e

Transcoded(e) ==
  IF sparse(e) THEN [e EXCEPT !.typ = CT_ARRAY, !.data_size = e.card * 2] ELSE e

Payload(e) == Segment(e.key, e.off, e.data_size)

\* The bit extraction goes through scratch and back into the front of the
\* slot: the bitmap's segment gives way to the array's.
TranscodeMem(m, s) ==
  LET sparse_at == { k \in 1 .. Len(s) : sparse(s[k]) }
  IN  (m \ { Payload(s[k]) : k \in sparse_at })
        \cup { Payload(Transcoded(s[k])) : k \in { q \in sparse_at : Payload(s[q]) \in m } }

has_type(s, typ) == \E k \in 1 .. Len(s) : s[k].typ = typ

Serialize(compact) ==
  /\ \/ phase = "fold" /\ ~ is_double
     \/ phase = "finalize" /\ fin > NumSlots
  /\ LET sorted == SortByKey(out)
     IN  /\ out' = IF compact THEN [k \in 1 .. Len(sorted) |-> Transcoded(sorted[k])] ELSE sorted
         /\ mem' = IF compact THEN TranscodeMem(mem, sorted) ELSE mem
  /\ data_base' = data_section_off(Len(out), has_type(out', CT_BITMAP))
  /\ prev_end' = data_base'
  /\ phase' = "compact"
  /\ UNCHANGED << layoutVars, next_slot, fin, state, total_card, pos, dc, index, written >>

\* Where the entry being compacted goes.
DataOffset == align_up(dc, payload_align(out[pos].typ))
Dst == data_base + DataOffset

\* The payload's segment once copy_within has run; lost if the index entry or
\* the gap fill, which come first, already destroyed it.
Moved(m, e) ==
  Clobber(m, Dst, Dst + e.data_size)
    \cup (IF Payload(e) \in m THEN {Segment(e.key, Dst, e.data_size)} ELSE {})

\* Mutant: alignment gaps keep the pooled buffer's old bytes.
gap_fill_none(from, to) == {}

\* The alignment gap before a payload is zeroed.
gap_fill(from, to) == {<< from, to >>}

CompactNext ==
  /\ phase = "compact"
  /\ pos <= Len(out)
  /\ LET e     == out[pos]
         entry_ranges == index_entry_ranges(Len(out), pos)
         gap == gap_fill(prev_end, Dst)
         filled == ClobberAll(mem, entry_ranges \cup gap)
     IN  /\ index' = Append(index, [key |-> e.key, typ |-> e.typ,
                                    cardinality |-> e.card, data_offset |-> DataOffset])
         /\ mem' = IF Dst = e.off THEN filled ELSE Moved(filled, e)
         /\ written' = written \cup entry_ranges \cup gap
                         \cup {<< Dst, Dst + e.data_size >>}
         /\ prev_end' = Dst + e.data_size
         /\ dc' = DataOffset + e.data_size
  /\ pos' = pos + 1
  /\ UNCHANGED << layoutVars, phase, foldVars, data_base >>

\* The header, the padding after the index, truncation to the final length.
Finish ==
  /\ phase = "compact"
  /\ pos > Len(out)
  /\ LET front == {<< 0, HEADER_SIZE >>,
                   << HEADER_SIZE + index_size(Len(out)), data_base >>}
     IN  /\ mem' = ClobberAll(mem, front)
         /\ written' = written \cup front
  /\ buf_len' = data_base + dc
  /\ phase' = "done"
  /\ UNCHANGED << plan, cursor, slot_off, stride, scratch_off, foldVars,
                  pos, dc, prev_end, data_base, index >>

Fold ==
  \E i \in 1 .. NumSlots, f \in Forms :
    \/ FoldKey(i, f)
    \/ SeedSlot(i, f)
    \/ \E merge \in BOOLEAN : ApplySlot(i, f, merge)

Next ==
  \/ LayoutSlot
  \/ LayoutDone
  \/ Fold
  \/ FoldDone
  \/ FinalizeSlot
  \/ \E compact \in BOOLEAN : Serialize(compact)
  \/ CompactNext
  \/ Finish

Spec == Init /\ [][Next]_vars

----------------------------------------------------------------------------
\* Properties.

\* Every variable has its type.
TypeOK ==
  /\ plan \in Plans
  /\ phase \in {"layout", "fold", "finalize", "compact", "done"}
  /\ cursor \in Nat /\ stride \in Nat /\ scratch_off \in Nat /\ buf_len \in Nat
  /\ slot_off \in Seq(Nat) /\ Len(slot_off) <= NumSlots
  /\ next_slot \in 1 .. NumSlots + 1
  /\ fin \in 1 .. NumSlots + 1
  /\ state \in [1 .. NumSlots -> [typ : {CT_ARRAY, CT_BITMAP, CT_RUN, UNSEEDED},
                                  side : {0, 1}, card : Nat, size : Nat]]
  /\ out \in Seq([key : Nat, slot : 1 .. NumSlots, typ : {CT_ARRAY, CT_BITMAP, CT_RUN},
                  card : Nat, off : Nat, data_size : Nat])
  /\ total_card \in Nat
  /\ pos \in 1 .. Len(out) + 1
  /\ dc \in Nat /\ prev_end \in Nat /\ data_base \in Nat
  /\ index \in Seq([key : Nat, typ : {CT_ARRAY, CT_BITMAP, CT_RUN},
                    cardinality : Nat, data_offset : Nat])
  /\ \A s \in mem : s.id \in Nat /\ s.lo \in Nat /\ s.hi \in Nat
  /\ \A r \in written : r[1] \in Nat /\ r[2] \in Nat

\* The reserved front, every slot on each of its sides and the scratch region
\* are pairwise disjoint and inside the buffer (from_plan), so no kernel can
\* write into another key's accumulator.
Sides == IF is_double THEN {0, 1} ELSE {0}

RegionsDisjoint ==
  phase \in {"fold", "finalize"} =>
    \A i, k \in 1 .. NumSlots, x, y \in Sides :
      /\ data_section_off(NumSlots, TRUE) <= off_of(i, x)
      /\ off_of(i, x) + Cap(i) <= scratch_off
      /\ \/ i = k /\ x = y
         \/ off_of(i, x) + Cap(i) <= off_of(k, y)
         \/ off_of(k, y) + Cap(k) <= off_of(i, x)

\* In-place compaction only ever moves a payload left (the assertion in
\* serialize_inner).
LeftwardOnly ==
  phase = "compact" /\ pos <= Len(out) => Dst <= out[pos].off

\* While the result is being assembled, no payload that is still to be moved
\* has been overwritten by an index entry, a zeroed gap or a moved payload.
UnreadIntact ==
  phase = "compact" => \A k \in pos .. Len(out) : Payload(out[k]) \in mem

\* The ranges of a set cover [0, total).
Covers(ranges, total) ==
  LET proper == { r \in ranges : r[1] < r[2] }
  IN  \A p \in {0} \cup { r[2] : r \in proper } :
        p >= total \/ \E r \in proper : r[1] <= p /\ p < r[2]

Entry_size(e) ==
  IF e.typ = CT_RUN
    THEN (CHOOSE s \in mem : s.id = e.key /\ s.lo = data_base + e.data_offset).hi
           - (data_base + e.data_offset)
    ELSE stored_bytes(e.typ, e.cardinality, 0)

\* The payload an index entry points at, when it is still there.
Present(e) ==
  LET start == data_base + e.data_offset
  IN  \E s \in mem : s.id = e.key /\ s.lo = start
                       /\ (e.typ # CT_RUN => s.hi = start + Entry_size(e))

\* c[1] + ... + c[n].
Total(c, n) ==
  LET upto[k \in 0 .. n] == IF k = 0 THEN 0 ELSE upto[k - 1] + c[k]
  IN  upto[n]

\* A finished result is one the reader accepts (parse_standard in view.rs) and
\* in which every bitmap payload sits on a 64-byte boundary.  The buffer is
\* pooled and not cleared, yet every byte of the result was written by the
\* operation that hands it out: none is left over from an earlier one.
ResultParses ==
  phase = "done" =>
    /\ Covers(written, buf_len)
    /\ data_base = data_section_off(Len(index), has_type(index, CT_BITMAP))
    /\ data_base <= buf_len
    /\ KeySorted(index)
    /\ total_card = Total([k \in 1 .. Len(index) |-> index[k].cardinality], Len(index))
    /\ \A k \in 1 .. Len(index) :
         LET e == index[k]
         IN  /\ 0 < e.cardinality /\ e.cardinality <= 65536
             /\ Present(e)
             /\ data_base + e.data_offset + Entry_size(e) <= buf_len
             /\ e.typ = CT_BITMAP => (data_base + e.data_offset) % BUF_ALIGN = 0

\* The arena implements ContainerStore: what the result decodes to is exactly
\* what the fold recorded, whichever sides, transcodes and moves lie between.
Store == INSTANCE ContainerStore WITH
  Keys     <- UNION { { s.key : s \in { p.slots[i] : i \in 1 .. Len(p.slots) } } : p \in Plans },
  Cards    <- { f.card : f \in Forms },
  recorded <- { [key |-> e.key, card |-> e.card] : e \in { out[k] : k \in 1 .. Len(out) } },
  handed   <- IF phase = "done"
                THEN << { [key |-> e.key, card |-> e.cardinality] :
                            e \in { index[k] : k \in { q \in 1 .. Len(index) : Present(index[q]) } } } >>
                ELSE << >>

ImplementsStore == Store!StoreSpec
=============================================================================
