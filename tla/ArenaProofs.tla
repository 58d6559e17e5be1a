---------------------------- MODULE ArenaProofs -----------------------------
(***************************************************************************)
(* For every plan whose capacities are at most BITMAP_BYTES: regions of the *)
(* arena never overlap, in-place compaction only ever moves a payload left *)
(* and destroys none that is still to be moved, the arena implements the   *)
(* container store, and what it hands out is a result the reader accepts.  *)
(***************************************************************************)
EXTENDS Arena, SequenceTheorems, WellFoundedInduction, TLAPS

----------------------------------------------------------------------------
\* The layout arithmetic of FrozenFormat, for every natural.

Alignments == {2, WORD_ALIGN, BUF_ALIGN}

\* align_up rounds up, by less than one unit, to a multiple of the alignment.
LEMMA AlignUp ==
  ASSUME NEW n \in Nat, NEW a \in Alignments
  PROVE  /\ align_up(n, a) \in Nat
         /\ n <= align_up(n, a)
         /\ align_up(n, a) < n + a
         /\ align_up(n, a) % a = 0
<1>1. CASE a = 2
  BY <1>1 DEF align_up
<1>2. CASE a = WORD_ALIGN
  BY <1>2 DEF align_up, WORD_ALIGN
<1>3. CASE a = BUF_ALIGN
  BY <1>3 DEF align_up, BUF_ALIGN
<1> QED
  BY <1>1, <1>2, <1>3 DEF Alignments

\* It is the least such multiple: it never passes an aligned offset.
LEMMA AlignUpLeast ==
  ASSUME NEW n \in Nat, NEW m \in Nat, NEW a \in Alignments, n <= m, m % a = 0
  PROVE  align_up(n, a) <= m
<1>1. CASE a = 2
  BY <1>1 DEF align_up
<1>2. CASE a = WORD_ALIGN
  BY <1>2 DEF align_up, WORD_ALIGN
<1>3. CASE a = BUF_ALIGN
  BY <1>3 DEF align_up, BUF_ALIGN
<1> QED
  BY <1>1, <1>2, <1>3 DEF Alignments

\* The distance between two aligned offsets is aligned, two-byte aligned if
\* they are word-aligned.
LEMMA MultiplesDiffer ==
  ASSUME NEW m \in Nat, NEW n \in Nat, m <= n
  PROVE  /\ m % BUF_ALIGN = 0 /\ n % BUF_ALIGN = 0 => (n - m) % BUF_ALIGN = 0
         /\ m % WORD_ALIGN = 0 /\ n % WORD_ALIGN = 0 => (n - m) % 2 = 0
<1>1. m % 64 = 0 /\ n % 64 = 0 => (n - m) % 64 = 0
  OBVIOUS
<1>2. m % 8 = 0 /\ n % 8 = 0 => (n - m) % 2 = 0
  OBVIOUS
<1> QED
  BY <1>1, <1>2 DEF BUF_ALIGN, WORD_ALIGN

\* The data section starts after the header and index, word-aligned, and
\* 64-aligned when a container is a bitmap.
LEMMA DataSection ==
  ASSUME NEW n \in Nat, NEW b \in BOOLEAN
  PROVE  /\ data_section_off(n, b) \in Nat
         /\ HEADER_SIZE + index_size(n) <= data_section_off(n, b)
         /\ data_section_off(n, b) % WORD_ALIGN = 0
         /\ b => data_section_off(n, b) % BUF_ALIGN = 0
<1>1. HEADER_SIZE + index_size(n) \in Nat
  BY DEF HEADER_SIZE, index_size
<1>2. CASE b
  <2>1. data_section_off(n, b) = align_up(HEADER_SIZE + index_size(n), BUF_ALIGN)
    BY <1>2 DEF data_section_off
  <2>2. /\ data_section_off(n, b) \in Nat
        /\ HEADER_SIZE + index_size(n) <= data_section_off(n, b)
        /\ data_section_off(n, b) % BUF_ALIGN = 0
    BY <1>1, <2>1, AlignUp DEF Alignments
  <2>3. data_section_off(n, b) % WORD_ALIGN = 0
    BY <2>2 DEF BUF_ALIGN, WORD_ALIGN
  <2> QED
    BY <2>2, <2>3
<1>3. CASE ~ b
  <2>1. data_section_off(n, b) = align_up(HEADER_SIZE + index_size(n), WORD_ALIGN)
    BY <1>3 DEF data_section_off
  <2> QED
    BY <1>1, <2>1, <1>3, AlignUp DEF Alignments
<1> QED
  BY <1>2, <1>3

\* A shorter index, with or without a bitmap, starts its data no later.
LEMMA DataSectionMonotone ==
  ASSUME NEW n \in Nat, NEW m \in Nat, NEW b \in BOOLEAN, n <= m
  PROVE  data_section_off(n, b) <= data_section_off(m, TRUE)
<1> DEFINE end(k) == HEADER_SIZE + index_size(k)
           to     == data_section_off(m, TRUE)
<1>1. end(n) \in Nat /\ end(m) \in Nat /\ end(n) <= end(m)
  BY DEF HEADER_SIZE, index_size
<1>2. to \in Nat /\ end(m) <= to /\ to % WORD_ALIGN = 0 /\ to % BUF_ALIGN = 0
  BY DataSection
<1>3. data_section_off(n, b) = align_up(end(n), IF b THEN BUF_ALIGN ELSE WORD_ALIGN)
  BY DEF data_section_off
<1> HIDE DEF end, to
<1>4. end(n) <= to
  BY <1>1, <1>2
<1>5. align_up(end(n), IF b THEN BUF_ALIGN ELSE WORD_ALIGN) <= to
  BY <1>1, <1>2, <1>4, AlignUpLeast DEF Alignments
<1> QED
  BY <1>3, <1>5 DEF to

----------------------------------------------------------------------------
\* The inductive invariant, in parts.

Reserved == data_section_off(NumSlots, TRUE)

\* The slots lie past the reserved front, in order, disjoint, aligned; the
\* mirror region, when there is one, lies past all of them.
LayoutInv ==
  /\ Reserved <= cursor
  /\ \A i \in 1 .. Len(slot_off) :
       /\ Reserved <= slot_off[i]
       /\ slot_off[i] % WORD_ALIGN = 0
       /\ Cap(i) = BITMAP_BYTES => slot_off[i] % BUF_ALIGN = 0
       /\ slot_off[i] + Cap(i) <= cursor
  /\ \A i, k \in 1 .. Len(slot_off) : i < k => slot_off[i] + Cap(i) <= slot_off[k]
  /\ phase # "layout" =>
       /\ Len(slot_off) = NumSlots
       /\ stride = 0 \/ cursor <= stride
       /\ cursor + stride <= scratch_off

\* What an accumulator or a recorded container occupies in its slot.
InSlot(i, typ, size) ==
  /\ size <= Cap(i)
  /\ typ = CT_BITMAP => size = BITMAP_BYTES

\* A recorded container lies in its slot, on one of its sides.
Placed(e) ==
  /\ e.key = Key(e.slot)
  /\ \E side \in {0, 1} : e.off = off_of(e.slot, side)
  /\ InSlot(e.slot, e.typ, e.data_size)

\* Slots from this one on have recorded nothing.
NextRecord == IF is_double THEN fin ELSE next_slot

FoldInv ==
  /\ phase \in {"layout", "fold"} => fin = 1
  /\ phase = "layout" => out = << >> /\ stride = 0 /\ next_slot = 1 /\ mem = {}
  /\ phase = "finalize" => is_double
  /\ ~ is_double => \A i \in 1 .. NumSlots : state[i].typ = UNSEEDED
  /\ \A i \in 1 .. NumSlots :
       state[i].typ # UNSEEDED => InSlot(i, state[i].typ, state[i].size)
  /\ \A k \in 1 .. Len(out) : Placed(out[k]) /\ out[k].slot < NextRecord
  /\ \A k, l \in 1 .. Len(out) : k < l => out[k].slot < out[l].slot
  /\ Len(out) < NextRecord

\* Every accumulator and every recorded payload is still where it was written.
MemInv ==
  phase \in {"fold", "finalize"} =>
    /\ \A i \in 1 .. NumSlots :
         state[i].typ # UNSEEDED =>
           Segment(Key(i), off_of(i, state[i].side), state[i].size) \in mem
    /\ \A k \in 1 .. Len(out) : Payload(out[k]) \in mem

\* What has been compacted ends before the slot of every payload still to move.
CompactInv ==
  /\ phase \in {"layout", "fold", "finalize"} => pos = 1 /\ dc = 0
  /\ phase = "compact" =>
    /\ data_base = data_section_off(Len(out), has_type(out, CT_BITMAP))
    /\ prev_end = data_base + dc
    /\ \A k \in pos .. Len(out) : prev_end <= slot_off[out[k].slot]

IInv == TypeOK /\ LayoutInv /\ FoldInv /\ MemInv /\ CompactInv /\ UnreadIntact

----------------------------------------------------------------------------
\* Facts about plans and about the regions of the buffer.

LEMMA PlanFacts ==
  ASSUME TypeOK
  PROVE  /\ NumSlots \in Nat
         /\ Reserved \in Nat
         /\ \A i \in 1 .. NumSlots : Key(i) \in Nat /\ Cap(i) \in Nat
         /\ \A i, k \in 1 .. NumSlots : i < k => Key(i) < Key(k)
         /\ CapacitiesBounded => \A i \in 1 .. NumSlots : Cap(i) <= BITMAP_BYTES
<1>1. plan.slots \in Seq(Slot)
  BY PlansAssumption DEF TypeOK
<1>2. NumSlots \in Nat
  BY <1>1 DEF NumSlots
<1>3. \A i \in 1 .. NumSlots : Key(i) \in Nat /\ Cap(i) \in Nat
  <2>1. \A i \in 1 .. NumSlots : plan.slots[i] \in Slot
    BY <1>1, ElementOfSeq DEF NumSlots
  <2> QED
    BY <2>1 DEF Key, Cap, Slot
<1>4. \A i, k \in 1 .. NumSlots : i < k => Key(i) < Key(k)
  BY PlansAssumption DEF TypeOK, NumSlots, Key
<1>5. CapacitiesBounded => \A i \in 1 .. NumSlots : Cap(i) <= BITMAP_BYTES
  BY DEF TypeOK, CapacitiesBounded, NumSlots, Cap
<1>6. Reserved \in Nat
  BY <1>2, DataSection DEF Reserved
<1> QED
  BY <1>2, <1>3, <1>4, <1>5, <1>6

\* Both sides of a slot lie between the reserved front and the scratch region.
LEMMA Inside ==
  ASSUME TypeOK, LayoutInv, phase # "layout",
         NEW i \in 1 .. NumSlots, NEW side \in {0, 1}
  PROVE  /\ slot_off[i] \in Nat
         /\ off_of(i, side) \in Nat
         /\ Reserved <= slot_off[i]
         /\ slot_off[i] <= off_of(i, side)
         /\ off_of(i, side) + Cap(i) <= scratch_off
<1>1. /\ Cap(i) \in Nat /\ NumSlots \in Nat /\ Reserved \in Nat
  BY PlanFacts
<1>2. /\ Len(slot_off) = NumSlots
      /\ slot_off \in Seq(Nat)
      /\ stride \in Nat /\ cursor \in Nat /\ scratch_off \in Nat
  BY DEF TypeOK, LayoutInv
<1>3. /\ slot_off[i] \in Nat
      /\ Reserved <= slot_off[i]
      /\ slot_off[i] + Cap(i) <= cursor
      /\ cursor + stride <= scratch_off
  BY <1>2 DEF LayoutInv
<1>4. off_of(i, side) = slot_off[i] \/ off_of(i, side) = slot_off[i] + stride
  BY <1>2, <1>3 DEF off_of
<1> QED
  BY SMTT(60), <1>1, <1>2, <1>3, <1>4

\* Regions of different slots are disjoint, whichever sides are taken.
LEMMA Apart ==
  ASSUME TypeOK, LayoutInv, phase # "layout",
         NEW i \in 1 .. NumSlots, NEW k \in 1 .. NumSlots, i # k,
         NEW x \in {0, 1}, NEW y \in {0, 1}
  PROVE  \/ off_of(i, x) + Cap(i) <= off_of(k, y)
         \/ off_of(k, y) + Cap(k) <= off_of(i, x)
<1>1. /\ Cap(i) \in Nat /\ Cap(k) \in Nat /\ NumSlots \in Nat
  BY PlanFacts
<1>2. /\ Len(slot_off) = NumSlots
      /\ slot_off \in Seq(Nat)
      /\ stride \in Nat /\ cursor \in Nat
      /\ stride = 0 \/ cursor <= stride
  BY DEF TypeOK, LayoutInv
<1>3. /\ slot_off[i] \in Nat /\ slot_off[k] \in Nat
      /\ slot_off[i] + Cap(i) <= cursor
      /\ slot_off[k] + Cap(k) <= cursor
      /\ i < k => slot_off[i] + Cap(i) <= slot_off[k]
      /\ k < i => slot_off[k] + Cap(k) <= slot_off[i]
  BY <1>2 DEF LayoutInv
<1>4. /\ off_of(i, x) = (IF x = 0 THEN slot_off[i] ELSE slot_off[i] + stride)
      /\ off_of(k, y) = (IF y = 0 THEN slot_off[k] ELSE slot_off[k] + stride)
  BY SMTT(60), <1>2, <1>3 DEF off_of
<1>5. CASE i < k
  <2>1. CASE x = 0
    BY SMTT(60), <2>1, <1>1, <1>2, <1>3, <1>4, <1>5
  <2>2. CASE x = 1 /\ y = 0
    BY SMTT(60), <2>2, <1>1, <1>2, <1>3, <1>4, <1>5
  <2>3. CASE x = 1 /\ y = 1
    BY <2>3, <1>1, <1>2, <1>3, <1>4, <1>5
  <2> QED
    BY <2>1, <2>2, <2>3
<1>6. CASE k < i
  <2>1. CASE y = 0
    BY SMTT(60), <2>1, <1>1, <1>2, <1>3, <1>4, <1>6
  <2>2. CASE y = 1 /\ x = 0
    BY SMTT(60), <2>2, <1>1, <1>2, <1>3, <1>4, <1>6
  <2>3. CASE y = 1 /\ x = 1
    BY <2>3, <1>1, <1>2, <1>3, <1>4, <1>6
  <2> QED
    BY <2>1, <2>2, <2>3
<1> QED
  BY <1>1, <1>5, <1>6

\* A kernel that writes slot i leaves the payloads of all other slots alone.
LEMMA KernelWriteKeeps ==
  ASSUME TypeOK, LayoutInv, phase # "layout",
         NEW i \in 1 .. NumSlots, NEW k \in 1 .. NumSlots, i # k,
         NEW x \in {0, 1}, NEW y \in {0, 1},
         NEW size \in Nat, size <= Cap(i),
         NEW other \in Nat, other <= Cap(k),
         Segment(Key(k), off_of(k, y), other) \in mem
  PROVE  Segment(Key(k), off_of(k, y), other)
           \in KernelWrite(mem, Key(i), off_of(i, x), size)
<1> DEFINE s == Segment(Key(k), off_of(k, y), other)
<1>1. /\ Cap(i) \in Nat /\ Cap(k) \in Nat /\ NumSlots \in Nat
      /\ Key(i) \in Nat /\ Key(k) \in Nat /\ Key(i) # Key(k)
  <2>1. i < k \/ k < i
    BY PlanFacts
  <2>2. Key(i) \in Nat /\ Key(k) \in Nat
    BY PlanFacts
  <2>3. Key(i) < Key(k) \/ Key(k) < Key(i)
    BY PlanFacts, <2>1
  <2> QED
    BY <2>2, <2>3, PlanFacts
<1>2. /\ off_of(i, x) \in Nat /\ off_of(k, y) \in Nat
      /\ off_of(i, x) + Cap(i) <= scratch_off
      /\ off_of(k, y) + Cap(k) <= scratch_off
  BY Inside
<1>3. scratch_off \in Nat /\ buf_len \in Nat
  BY DEF TypeOK
<1>4. /\ s.id = Key(k)
      /\ s.lo = off_of(k, y)
      /\ s.hi = off_of(k, y) + other
  BY DEF Segment
<1>5. \/ off_of(i, x) + Cap(i) <= off_of(k, y)
      \/ off_of(k, y) + Cap(k) <= off_of(i, x)
  BY Apart
<1> HIDE DEF s
<1>6. ~ Overlaps(s, off_of(i, x), off_of(i, x) + size)
  BY <1>1, <1>2, <1>4, <1>5 DEF Overlaps
<1>7. ~ Overlaps(s, scratch_off, buf_len)
  BY <1>1, <1>2, <1>3, <1>4 DEF Overlaps
<1>8. s \in mem
  BY DEF s
<1>9. s \in ClobberAll(mem, {<< off_of(i, x), off_of(i, x) + size >>, << scratch_off, buf_len >>})
  BY <1>6, <1>7, <1>8 DEF ClobberAll
<1>10. s \in KernelWrite(mem, Key(i), off_of(i, x), size)
  BY <1>9, <1>1, <1>4 DEF KernelWrite
<1> QED
  BY <1>10 DEF s

\* ... and leaves its own payload where it says.
LEMMA KernelWriteLeaves ==
  ASSUME NEW id, NEW lo, NEW size
  PROVE  Segment(id, lo, size) \in KernelWrite(mem, id, lo, size)
  BY DEF KernelWrite

----------------------------------------------------------------------------
\* Layout.

\* A plan whose capacities are bounded starts the arena in the invariant.
LEMMA InitIInv == Init => IInv
<1> SUFFICES ASSUME Init PROVE IInv
  OBVIOUS
<1>1. NumSlots \in Nat /\ plan \in Plans /\ plan.slots \in Seq(Slot)
  BY PlansAssumption DEF Init, NumSlots
<1>2. Reserved \in Nat /\ cursor = Reserved
  BY <1>1, DataSection DEF Init, Reserved, NumSlots
<1>3. TypeOK
  <2>1. state \in [1 .. NumSlots -> [typ : {CT_ARRAY, CT_BITMAP, CT_RUN, UNSEEDED},
                                     side : {0, 1}, card : Nat, size : Nat]]
    BY DEF Init, NumSlots, Unseeded
  <2>2. slot_off = << >> /\ out = << >> /\ index = << >> /\ mem = {} /\ written = {}
    BY DEF Init
  <2>3. next_slot = 1 /\ fin = 1 /\ pos = 1 /\ dc = 0 /\ prev_end = 0 /\ data_base = 0
        /\ total_card = 0 /\ stride = 0 /\ scratch_off = 0 /\ buf_len = 0 /\ phase = "layout"
    BY DEF Init
  <2> QED
    BY <1>1, <1>2, <2>1, <2>2, <2>3 DEF TypeOK
<1>4. LayoutInv
  <2>1. slot_off = << >> /\ phase = "layout"
    BY DEF Init
  <2> QED
    BY <1>2, <2>1 DEF LayoutInv
<1>5. FoldInv
  BY <1>1 DEF Init, FoldInv, Unseeded, UNSEEDED, NextRecord, NumSlots, is_double
<1>6. MemInv /\ CompactInv /\ UnreadIntact
  BY DEF Init, MemInv, CompactInv, UnreadIntact
<1> QED
  BY <1>3, <1>4, <1>5, <1>6 DEF IInv

LEMMA LayoutSlotStep ==
  ASSUME IInv, LayoutSlot
  PROVE  IInv'
<1> DEFINE i  == Len(slot_off) + 1
           at == align_up(cursor, slot_align(Cap(i)))
<1>1. /\ slot_off \in Seq(Nat) /\ cursor \in Nat /\ NumSlots \in Nat
      /\ Len(slot_off) < NumSlots /\ i \in 1 .. NumSlots
      /\ phase = "layout" /\ phase' = "layout"
  BY PlanFacts DEF IInv, TypeOK, LayoutSlot
<1>2. Cap(i) \in Nat /\ Reserved \in Nat
  BY <1>1, PlanFacts DEF IInv
<1>3. /\ at \in Nat /\ cursor <= at
      /\ at % WORD_ALIGN = 0
      /\ Cap(i) = BITMAP_BYTES => at % BUF_ALIGN = 0
  <2>1. CASE Cap(i) = BITMAP_BYTES
    <3>1. at = align_up(cursor, BUF_ALIGN)
      BY <2>1 DEF slot_align
    <3>2. at \in Nat /\ cursor <= at /\ at % BUF_ALIGN = 0
      BY <3>1, <1>1, AlignUp DEF Alignments
    <3>3. at % WORD_ALIGN = 0
      <4> HIDE DEF at
      <4> QED
        BY <3>2 DEF BUF_ALIGN, WORD_ALIGN
    <3> QED
      BY <3>2, <3>3
  <2>2. CASE Cap(i) # BITMAP_BYTES
    <3>1. at = align_up(cursor, WORD_ALIGN)
      BY <2>2 DEF slot_align
    <3> QED
      BY <3>1, <2>2, <1>1, AlignUp DEF Alignments
  <2> QED
    BY <2>1, <2>2
<1>4. /\ slot_off' = Append(slot_off, at) /\ cursor' = at + Cap(i)
      /\ UNCHANGED << plan, phase, stride, scratch_off, buf_len, foldVars, compactVars, mem >>
  BY DEF LayoutSlot
<1> HIDE DEF at
<1>5. /\ slot_off' \in Seq(Nat) /\ Len(slot_off') = i /\ slot_off'[i] = at
      /\ \A k \in 1 .. Len(slot_off) : slot_off'[k] = slot_off[k]
  BY <1>1, <1>3, <1>4
<1>6. TypeOK'
  <2>1. TypeOK /\ Len(slot_off') <= NumSlots
    BY <1>1, <1>5 DEF IInv
  <2>2. cursor' \in Nat
    BY <1>2, <1>3, <1>4
  <2> QED
    BY <1>1, <1>4, <1>5, <2>1, <2>2 DEF TypeOK, NumSlots, foldVars, compactVars
<1>7. \A k \in 1 .. Len(slot_off') : k = i \/ k \in 1 .. Len(slot_off)
  <2>1. Len(slot_off) \in Nat /\ Len(slot_off') = Len(slot_off) + 1
    BY <1>1, <1>5
  <2> QED
    BY <2>1
<1>8. LayoutInv'
  <2>1. Reserved' = Reserved /\ (\A k : Cap(k)' = Cap(k))
    BY <1>4 DEF Reserved, NumSlots, Cap
  <2>2. /\ Reserved <= cursor
        /\ \A k \in 1 .. Len(slot_off) :
             /\ Reserved <= slot_off[k]
             /\ slot_off[k] % WORD_ALIGN = 0
             /\ Cap(k) = BITMAP_BYTES => slot_off[k] % BUF_ALIGN = 0
             /\ slot_off[k] + Cap(k) <= cursor
    BY DEF IInv, LayoutInv
  <2>3. \A k \in 1 .. Len(slot_off) : slot_off[k] \in Nat /\ Cap(k) \in Nat
    <3>1. \A k \in 1 .. Len(slot_off) : slot_off[k] \in Nat
      BY <1>1, ElementOfSeq
    <3>2. \A k \in 1 .. NumSlots : Cap(k) \in Nat
      BY PlanFacts DEF IInv
    <3>3. Len(slot_off) \in Nat
      BY <1>1
    <3> QED
      BY <3>1, <3>2, <3>3, <1>1
  <2>4. Reserved <= cursor'
    BY <1>1, <1>2, <1>3, <1>4, <2>2
  <2>5. \A k \in 1 .. Len(slot_off') :
          /\ Reserved <= slot_off'[k]
          /\ slot_off'[k] % WORD_ALIGN = 0
          /\ Cap(k) = BITMAP_BYTES => slot_off'[k] % BUF_ALIGN = 0
          /\ slot_off'[k] + Cap(k) <= cursor'
    <3> TAKE k \in 1 .. Len(slot_off')
    <3>1. CASE k = i
      BY <3>1, <1>1, <1>2, <1>3, <1>4, <1>5, <2>2
    <3>2. CASE k # i
      <4>1. k \in 1 .. Len(slot_off)
        BY <3>2, <1>7
      <4>2. slot_off'[k] = slot_off[k]
        BY <4>1, <1>5
      <4> QED
        BY <4>1, <4>2, <1>1, <1>2, <1>3, <1>4, <2>2, <2>3
    <3> QED
      BY <3>1, <3>2
  <2>6. \A k, l \in 1 .. Len(slot_off') : k < l => slot_off'[k] + Cap(k) <= slot_off'[l]
    <3> SUFFICES ASSUME NEW k \in 1 .. Len(slot_off'), NEW l \in 1 .. Len(slot_off'), k < l
                 PROVE  slot_off'[k] + Cap(k) <= slot_off'[l]
      OBVIOUS
    <3>1. k \in 1 .. Len(slot_off) /\ slot_off'[k] = slot_off[k]
      BY <1>5, <1>1
    <3>2. CASE l = i
      BY <3>1, <3>2, <1>1, <1>3, <1>5, <2>2, <2>3
    <3>3. CASE l # i
      <4>1. l \in 1 .. Len(slot_off)
        BY <3>3, <1>7
      <4>2. slot_off'[l] = slot_off[l]
        BY <4>1, <1>5
      <4> QED
        BY <3>1, <4>1, <4>2 DEF IInv, LayoutInv
    <3> QED
      BY <3>2, <3>3
  <2> QED
    BY <2>1, <2>4, <2>5, <2>6, <1>1 DEF LayoutInv
<1>9. FoldInv'
  BY <1>1, <1>4 DEF IInv, FoldInv, NextRecord, is_double, foldVars, InSlot, Placed, Cap, Key, NumSlots
<1>10. MemInv' /\ CompactInv' /\ UnreadIntact'
  BY <1>1, <1>4 DEF IInv, MemInv, CompactInv, UnreadIntact, compactVars
<1> QED
  BY <1>6, <1>8, <1>9, <1>10 DEF IInv

LEMMA LayoutDoneStep ==
  ASSUME IInv, LayoutDone
  PROVE  IInv'
<1>1. /\ phase = "layout" /\ phase' = "fold" /\ Len(slot_off) = NumSlots
      /\ stride' = (IF plan.double THEN align_up(cursor, BUF_ALIGN) ELSE 0)
      /\ scratch_off' = align_up(cursor + stride', BUF_ALIGN)
      /\ buf_len' = scratch_off' + SCRATCH_BYTES
      /\ UNCHANGED << plan, cursor, slot_off, foldVars, compactVars, mem >>
  BY DEF LayoutDone, scratch_start
<1>2. cursor \in Nat /\ stride = 0 /\ slot_off \in Seq(Nat)
  BY <1>1 DEF IInv, TypeOK, FoldInv
<1>3. stride' \in Nat /\ (stride' = 0 \/ cursor <= stride')
  <2>1. align_up(cursor, BUF_ALIGN) \in Nat /\ cursor <= align_up(cursor, BUF_ALIGN)
    BY <1>2, AlignUp DEF Alignments
  <2> QED
    BY <2>1, <1>1
<1>4. scratch_off' \in Nat /\ cursor + stride' <= scratch_off'
  <2>1. \A a, b \in Nat : a + b \in Nat
    OBVIOUS
  <2>2. cursor + stride' \in Nat
    BY <2>1, <1>2, <1>3
  <2> QED
    BY <2>2, <1>1, AlignUp DEF Alignments
<1>5. buf_len' \in Nat
  BY <1>1, <1>4 DEF SCRATCH_BYTES, BITMAP_BYTES, BITMAP_WORDS
<1>6. TypeOK'
  BY <1>1, <1>3, <1>4, <1>5 DEF IInv, TypeOK, NumSlots, foldVars, compactVars
<1>7. LayoutInv'
  BY <1>1, <1>3, <1>4 DEF IInv, LayoutInv, Reserved, NumSlots, Cap
<1>8. FoldInv'
  <2>1. out = << >> /\ fin = 1 /\ next_slot = 1 /\ Len(out) = 0
    BY <1>1 DEF IInv, FoldInv
  <2>2. \A i \in 1 .. NumSlots : state[i].typ = UNSEEDED
    BY <1>2 DEF IInv, FoldInv, is_double
  <2> QED
    BY <1>1, <2>1, <2>2 DEF FoldInv, NextRecord, foldVars, NumSlots
<1>9. MemInv' /\ CompactInv' /\ UnreadIntact'
  <2>1. out = << >> /\ Len(out) = 0
    BY <1>1 DEF IInv, FoldInv
  <2>2. \A i \in 1 .. NumSlots : state[i].typ = UNSEEDED
    BY <1>2 DEF IInv, FoldInv, is_double
  <2> QED
    BY <1>1, <2>1, <2>2 DEF IInv, MemInv, CompactInv, UnreadIntact, compactVars, foldVars, NumSlots
<1> QED
  BY <1>6, <1>7, <1>8, <1>9 DEF IInv

----------------------------------------------------------------------------
\* The fold.

\* Layout facts outlive the layout phase.
LEMMA LayoutFrame ==
  ASSUME LayoutInv, phase # "layout",
         UNCHANGED << plan, cursor, slot_off, stride, scratch_off >>
  PROVE  LayoutInv'
BY DEF LayoutInv, Reserved, NumSlots, Cap

\* A form is typed, and a bitmap is a bitmap's size.
LEMMA FormFacts ==
  ASSUME NEW f \in Forms
  PROVE  /\ f.typ \in {CT_ARRAY, CT_BITMAP, CT_RUN} /\ f.typ # UNSEEDED
         /\ f.card \in Nat /\ f.size \in Nat
         /\ f.typ = CT_BITMAP => f.size = BITMAP_BYTES
<1>1. f \in Form /\ WellFormed(f)
  BY PlansAssumption
<1>2. f.typ \in {CT_ARRAY, CT_BITMAP, CT_RUN}
  BY <1>1 DEF Form
<1>3. f.typ = CT_BITMAP => f.size = BITMAP_BYTES
  BY <1>1 DEF WellFormed
<1>4. f.card \in Nat /\ f.size \in Nat
  BY <1>1 DEF Form
<1>5. f.typ # UNSEEDED
  BY <1>2 DEF CT_ARRAY, CT_BITMAP, CT_RUN, UNSEEDED
<1> QED
  BY <1>2, <1>3, <1>4, <1>5

\* Memory stays typed under a kernel's write.
LEMMA KernelWriteTyped ==
  ASSUME \A s \in mem : s.id \in Nat /\ s.lo \in Nat /\ s.hi \in Nat,
         NEW id \in Nat, NEW lo \in Nat, NEW size \in Nat
  PROVE  \A s \in KernelWrite(mem, id, lo, size) :
           s.id \in Nat /\ s.lo \in Nat /\ s.hi \in Nat
BY DEF KernelWrite, ClobberAll, Segment

\* A recorded container.
Recorded == [key : Nat, slot : 1 .. NumSlots, typ : {CT_ARRAY, CT_BITMAP, CT_RUN},
             card : Nat, off : Nat, data_size : Nat]

\* Recording a slot's container appends its entry, or nothing.
LEMMA RecordStep ==
  ASSUME TypeOK, NEW i \in 1 .. NumSlots, NEW side \in {0, 1}, off_of(i, side) \in Nat,
         NEW f, f.typ \in {CT_ARRAY, CT_BITMAP, CT_RUN}, f.card \in Nat, f.size \in Nat,
         record(i, f, side)
  PROVE  /\ out' \in Seq(Recorded) /\ total_card' \in Nat
         /\ Len(out) \in Nat /\ Len(out) <= Len(out') /\ Len(out') <= Len(out) + 1
         /\ \A k \in 1 .. Len(out') :
              \/ k \in 1 .. Len(out) /\ out'[k] = out[k]
              \/ k = Len(out) + 1 /\ out'[k] = entry(i, f, side)
<1> DEFINE e == entry(i, f, side)
<1>1. out \in Seq(Recorded) /\ total_card \in Nat /\ Len(out) \in Nat
  BY DEF TypeOK, Recorded
<1>2. e \in Recorded
  BY PlanFacts DEF entry, Recorded
<1> HIDE DEF e
<1>3. CASE UNCHANGED << out, total_card >>
  BY <1>1, <1>3
<1>4. CASE out' = Append(out, e) /\ total_card' = total_card + f.card
  <2>1. \A s \in Seq(Recorded) : \A x \in Recorded :
          /\ Append(s, x) \in Seq(Recorded)
          /\ Len(Append(s, x)) = Len(s) + 1
          /\ \A k \in 1 .. Len(s) : Append(s, x)[k] = s[k]
          /\ Append(s, x)[Len(s) + 1] = x
    BY AppendProperties
  <2>2. /\ out' \in Seq(Recorded) /\ Len(out') = Len(out) + 1
        /\ \A k \in 1 .. Len(out) : out'[k] = out[k]
        /\ out'[Len(out) + 1] = e
    BY <1>1, <1>2, <1>4, <2>1
  <2>3. total_card' \in Nat
    BY <1>1, <1>4
  <2>4. \A k \in 1 .. Len(out') : k \in 1 .. Len(out) \/ k = Len(out) + 1
    BY <1>1, <2>2
  <2> QED
    BY <1>1, <2>2, <2>3, <2>4 DEF e
<1> QED
  BY <1>3, <1>4 DEF record, e

\* An entry for a slot lies in that slot.
LEMMA EntryPlaced ==
  ASSUME NEW i \in 1 .. NumSlots, NEW side \in {0, 1}, NEW f,
         InSlot(i, f.typ, f.size)
  PROVE  /\ entry(i, f, side).slot = i
         /\ Placed(entry(i, f, side))
         /\ Payload(entry(i, f, side)) = Segment(Key(i), off_of(i, side), f.size)
BY DEF entry, Placed, Payload, InSlot

\* Where a slot's containers may be does not change after the layout.
LEMMA PlacedFrame ==
  ASSUME UNCHANGED << plan, slot_off, stride >>,
         NEW n, \A k \in 1 .. n : Placed(out'[k])
  PROVE  \A k \in 1 .. n : (Placed(out[k]))'
BY DEF Placed, InSlot, Key, Cap, off_of

LEMMA FoldKeyStep ==
  ASSUME IInv, NEW i \in 1 .. NumSlots, NEW f \in Forms, FoldKey(i, f)
  PROVE  IInv'
<1> DEFINE e == entry(i, f, 0)
<1>1. /\ phase = "fold" /\ phase' = "fold" /\ ~ is_double /\ i >= next_slot
      /\ f.size <= Cap(i)
      /\ next_slot' = i + 1
      /\ mem' = KernelWrite(mem, Key(i), off_of(i, 0), f.size)
      /\ record(i, f, 0)
      /\ UNCHANGED << plan, cursor, slot_off, stride, scratch_off, buf_len >>
      /\ UNCHANGED << fin, state >>
      /\ UNCHANGED compactVars
  BY DEF FoldKey, Fits, layoutVars
<1>2. /\ NumSlots \in Nat /\ Key(i) \in Nat /\ Cap(i) \in Nat
      /\ off_of(i, 0) \in Nat /\ next_slot \in Nat
  <2>1. NumSlots \in Nat /\ Key(i) \in Nat /\ Cap(i) \in Nat
    BY PlanFacts DEF IInv
  <2>2. off_of(i, 0) \in Nat
    BY <1>1, Inside DEF IInv
  <2>3. next_slot \in Nat
    BY <2>1 DEF IInv, TypeOK
  <2> QED
    BY <2>1, <2>2, <2>3
<1>3. /\ f.typ \in {CT_ARRAY, CT_BITMAP, CT_RUN} /\ f.card \in Nat /\ f.size \in Nat
      /\ InSlot(i, f.typ, f.size)
  BY <1>1, FormFacts DEF InSlot
<1>4. /\ out' \in Seq(Recorded) /\ total_card' \in Nat
      /\ Len(out) \in Nat /\ Len(out) <= Len(out') /\ Len(out') <= Len(out) + 1
      /\ \A k \in 1 .. Len(out') :
           \/ k \in 1 .. Len(out) /\ out'[k] = out[k]
           \/ k = Len(out) + 1 /\ out'[k] = e
  BY <1>1, <1>2, <1>3, RecordStep DEF IInv
<1>5. /\ e.slot = i /\ Placed(e)
      /\ Payload(e) = Segment(Key(i), off_of(i, 0), f.size)
  BY <1>3, EntryPlaced
<1> HIDE DEF e
<1>6. \A k \in 1 .. Len(out) : Placed(out[k]) /\ out[k].slot < i /\ out[k] \in Recorded
  <2>1. \A k \in 1 .. Len(out) : Placed(out[k]) /\ out[k].slot < next_slot
    BY <1>1 DEF IInv, FoldInv, NextRecord
  <2>2. \A k \in 1 .. Len(out) : out[k] \in Recorded
    <3>1. out \in Seq(Recorded)
      BY DEF IInv, TypeOK, Recorded
    <3> QED
      BY <3>1, ElementOfSeq
  <2>3. \A k \in 1 .. Len(out) : out[k].slot \in 1 .. NumSlots
    BY <2>2 DEF Recorded
  <2> QED
    BY <1>1, <1>2, <2>1, <2>2, <2>3
<1>7. Len(out) < i
  <2>1. Len(out) < next_slot
    BY <1>1 DEF IInv, FoldInv, NextRecord
  <2> QED
    BY <1>1, <1>2, <1>4, <2>1
<1>8. TypeOK'
  <2>1. \A s \in mem' : s.id \in Nat /\ s.lo \in Nat /\ s.hi \in Nat
    BY <1>1, <1>2, <1>3, KernelWriteTyped DEF IInv, TypeOK
  <2>2. pos' \in 1 .. Len(out') + 1
    <3>1. pos' = pos /\ pos \in 1 .. Len(out) + 1 /\ Len(out') \in Nat
      BY <1>1, <1>4 DEF IInv, TypeOK, compactVars
    <3> QED
      BY <3>1, <1>4
  <2>3. next_slot' \in 1 .. NumSlots + 1
    BY <1>1, <1>2
  <2> QED
    BY <1>1, <1>4, <2>1, <2>2, <2>3 DEF IInv, TypeOK, NumSlots, compactVars, Recorded
<1>9. LayoutInv'
  BY <1>1, LayoutFrame DEF IInv
<1>10. FoldInv'
  <2>1. \A k \in 1 .. Len(out') : Placed(out'[k]) /\ out'[k].slot < i + 1
    <3> TAKE k \in 1 .. Len(out')
    <3>1. CASE k \in 1 .. Len(out) /\ out'[k] = out[k]
      BY <3>1, <1>6, <1>2 DEF Recorded
    <3>2. CASE k = Len(out) + 1 /\ out'[k] = e
      BY <3>2, <1>5, <1>2
    <3> QED
      BY <3>1, <3>2, <1>4
  <2>2. \A k, l \in 1 .. Len(out') : k < l => out'[k].slot < out'[l].slot
    <3> SUFFICES ASSUME NEW k \in 1 .. Len(out'), NEW l \in 1 .. Len(out'), k < l
                 PROVE  out'[k].slot < out'[l].slot
      OBVIOUS
    <3>1. k \in 1 .. Len(out) /\ out'[k] = out[k]
      BY <1>4
    <3>2. CASE l \in 1 .. Len(out) /\ out'[l] = out[l]
      BY <3>1, <3>2 DEF IInv, FoldInv
    <3>3. CASE l = Len(out) + 1 /\ out'[l] = e
      BY <3>1, <3>3, <1>5, <1>6
    <3> QED
      BY <3>2, <3>3, <1>4
  <2>3. Len(out') < i + 1
    BY <1>4, <1>7
  <2>4. \A k \in 1 .. Len(out') : (Placed(out[k]))'
    BY <2>1, <1>1, PlacedFrame
  <2>5. NextRecord' = i + 1
    BY <1>1 DEF NextRecord, is_double
  <2> QED
    BY <2>1, <2>2, <2>3, <2>4, <2>5, <1>1 DEF IInv, FoldInv, InSlot, Cap, NumSlots, is_double
<1>11. MemInv'
  <2>1. \A k \in 1 .. Len(out') : Payload(out'[k]) \in mem'
    <3> TAKE k \in 1 .. Len(out')
    <3>1. CASE k \in 1 .. Len(out) /\ out'[k] = out[k]
      <4>1. Placed(out[k]) /\ out[k].slot < i /\ out[k].slot \in 1 .. NumSlots
            /\ out[k].data_size \in Nat
        BY <3>1, <1>6 DEF Recorded
      <4>2. PICK side \in {0, 1} : out[k].off = off_of(out[k].slot, side)
        BY <4>1 DEF Placed
      <4>3. Payload(out[k]) = Segment(Key(out[k].slot), off_of(out[k].slot, side), out[k].data_size)
        BY <4>1, <4>2 DEF Placed, Payload
      <4>4. out[k].data_size <= Cap(out[k].slot)
        BY <4>1 DEF Placed, InSlot
      <4>5. Payload(out[k]) \in mem
        BY <1>1, <3>1 DEF IInv, MemInv
      <4> QED
        BY SMTT(60), <3>1, <4>1, <4>3, <4>4, <4>5, <1>1, <1>2, <1>3, KernelWriteKeeps DEF IInv
    <3>2. CASE k = Len(out) + 1 /\ out'[k] = e
      BY <3>2, <1>1, <1>5, KernelWriteLeaves
    <3> QED
      BY <3>1, <3>2, <1>4
  <2>2. \A s \in 1 .. NumSlots : state'[s].typ = UNSEEDED
    BY <1>1 DEF IInv, FoldInv
  <2>3. NumSlots' = NumSlots
    BY <1>1 DEF NumSlots
  <2>4. \A k \in 1 .. Len(out') : (Payload(out[k]))' \in mem'
    BY <2>1 DEF Payload
  <2> QED
    BY <2>2, <2>3, <2>4 DEF MemInv
<1>12. CompactInv' /\ UnreadIntact'
  BY <1>1 DEF IInv, CompactInv, UnreadIntact, compactVars
<1> QED
  BY <1>8, <1>9, <1>10, <1>11, <1>12 DEF IInv

\* A write to slot i, on either side, as the slot's accumulator.
LEMMA AccumulateStep ==
  ASSUME IInv, NEW i \in 1 .. NumSlots, NEW f \in Forms, NEW side \in {0, 1},
         phase = "fold", phase' = phase, is_double, Fits(f, i),
         state' = [state EXCEPT ![i] = [typ |-> f.typ, side |-> side, card |-> f.card, size |-> f.size]],
         mem' = KernelWrite(mem, Key(i), off_of(i, side), f.size),
         UNCHANGED << layoutVars, next_slot, fin, out, total_card, compactVars >>
  PROVE  IInv'
<1>1. UNCHANGED << plan, cursor, slot_off, stride, scratch_off, buf_len >>
  BY DEF layoutVars
<1>2. /\ NumSlots \in Nat /\ Key(i) \in Nat /\ Cap(i) \in Nat
      /\ off_of(i, side) \in Nat
  <2>1. NumSlots \in Nat /\ Key(i) \in Nat /\ Cap(i) \in Nat
    BY PlanFacts DEF IInv
  <2>2. off_of(i, side) \in Nat
    BY Inside DEF IInv
  <2> QED
    BY <2>1, <2>2
<1>3. /\ f.typ \in {CT_ARRAY, CT_BITMAP, CT_RUN} /\ f.card \in Nat /\ f.size \in Nat
      /\ f.size <= Cap(i) /\ InSlot(i, f.typ, f.size)
  BY FormFacts DEF InSlot, Fits
<1>4. out = << >> /\ Len(out) = 0
  <2>1. Len(out) < 1 /\ out \in Seq(Recorded)
    BY DEF IInv, FoldInv, NextRecord, TypeOK, Recorded
  <2>2. Len(out) = 0
    BY <2>1
  <2> QED
    BY <2>1, <2>2, EmptySeq
<1>5. /\ state' \in [1 .. NumSlots -> [typ : {CT_ARRAY, CT_BITMAP, CT_RUN, UNSEEDED},
                                      side : {0, 1}, card : Nat, size : Nat]]
      /\ state'[i] = [typ |-> f.typ, side |-> side, card |-> f.card, size |-> f.size]
      /\ \A k \in 1 .. NumSlots : k # i => state'[k] = state[k]
  BY <1>3 DEF IInv, TypeOK
<1>6. TypeOK'
  <2>1. \A s \in mem' : s.id \in Nat /\ s.lo \in Nat /\ s.hi \in Nat
    BY <1>2, <1>3, KernelWriteTyped DEF IInv, TypeOK
  <2> QED
    BY <1>1, <1>5, <2>1 DEF IInv, TypeOK, NumSlots, compactVars
<1>7. LayoutInv'
  BY <1>1, LayoutFrame DEF IInv
<1>8. FoldInv'
  <2>1. \A k \in 1 .. NumSlots : state'[k].typ # UNSEEDED => InSlot(k, state'[k].typ, state'[k].size)
    <3> TAKE k \in 1 .. NumSlots
    <3>1. CASE k = i
      BY <3>1, <1>3, <1>5
    <3>2. CASE k # i
      BY <3>2, <1>5 DEF IInv, FoldInv
    <3> QED
      BY <3>1, <3>2
  <2> QED
    BY <1>1, <1>4, <2>1 DEF IInv, FoldInv, InSlot, Cap, NumSlots, is_double, NextRecord
<1>9. MemInv'
  <2>1. \A k \in 1 .. NumSlots :
          state'[k].typ # UNSEEDED =>
            Segment(Key(k), off_of(k, state'[k].side), state'[k].size) \in mem'
    <3> SUFFICES ASSUME NEW k \in 1 .. NumSlots, state'[k].typ # UNSEEDED
                 PROVE  Segment(Key(k), off_of(k, state'[k].side), state'[k].size) \in mem'
      OBVIOUS
    <3>1. CASE k = i
      BY <3>1, <1>5, KernelWriteLeaves
    <3>2. CASE k # i
      <4>1. /\ state'[k] = state[k] /\ state[k].side \in {0, 1} /\ state[k].size \in Nat
            /\ state[k].size <= Cap(k)
            /\ Segment(Key(k), off_of(k, state[k].side), state[k].size) \in mem
        <5>1. state'[k] = state[k]
          BY <3>2, <1>5
        <5>2. state[k].side \in {0, 1} /\ state[k].size \in Nat
          BY DEF IInv, TypeOK
        <5>3. state[k].size <= Cap(k)
          BY <5>1 DEF IInv, FoldInv, InSlot
        <5>4. Segment(Key(k), off_of(k, state[k].side), state[k].size) \in mem
          BY <5>1 DEF IInv, MemInv
        <5> QED
          BY <5>1, <5>2, <5>3, <5>4
      <4> QED
        BY <3>2, <4>1, <1>3, KernelWriteKeeps DEF IInv
    <3> QED
      BY <3>1, <3>2
  <2> QED
    BY <1>1, <1>4, <2>1 DEF MemInv, NumSlots, Key, off_of
<1>10. CompactInv' /\ UnreadIntact'
  BY DEF IInv, CompactInv, UnreadIntact, compactVars
<1> QED
  BY <1>6, <1>7, <1>8, <1>9, <1>10 DEF IInv

LEMMA SeedSlotStep ==
  ASSUME IInv, NEW i \in 1 .. NumSlots, NEW f \in Forms, SeedSlot(i, f)
  PROVE  IInv'
BY AccumulateStep DEF SeedSlot

LEMMA ApplySlotStep ==
  ASSUME IInv, NEW i \in 1 .. NumSlots, NEW f \in Forms, NEW merge \in BOOLEAN,
         ApplySlot(i, f, merge)
  PROVE  IInv'
<1> DEFINE side == IF merge THEN flip_side(state[i].side) ELSE state[i].side
<1>1. state[i].side \in {0, 1}
  BY DEF IInv, TypeOK
<1>2. side \in {0, 1}
  BY <1>1 DEF flip_side
<1>3. /\ phase = "fold" /\ phase' = phase /\ is_double /\ Fits(f, i)
      /\ state' = [state EXCEPT ![i] = [typ |-> f.typ, side |-> side, card |-> f.card, size |-> f.size]]
      /\ mem' = KernelWrite(mem, Key(i), off_of(i, side), f.size)
      /\ UNCHANGED << layoutVars, next_slot, fin, out, total_card, compactVars >>
  BY DEF ApplySlot
<1> HIDE DEF side
<1> QED
  BY <1>2, <1>3, AccumulateStep

LEMMA FoldDoneStep ==
  ASSUME IInv, FoldDone
  PROVE  IInv'
<1>1. /\ phase = "fold" /\ phase' = "finalize" /\ is_double
      /\ UNCHANGED << plan, cursor, slot_off, stride, scratch_off, buf_len >>
      /\ UNCHANGED << foldVars, compactVars, mem >>
  BY DEF FoldDone, layoutVars
<1>2. TypeOK'
  BY <1>1 DEF IInv, TypeOK, NumSlots, foldVars, compactVars
<1>3. LayoutInv'
  BY <1>1, LayoutFrame DEF IInv
<1>4. FoldInv'
  BY <1>1 DEF IInv, FoldInv, foldVars, InSlot, Placed, Cap, Key, off_of, NumSlots, is_double, NextRecord
<1>5. MemInv'
  BY <1>1 DEF IInv, MemInv, foldVars, Key, off_of, NumSlots
<1>6. CompactInv' /\ UnreadIntact'
  BY <1>1 DEF IInv, CompactInv, UnreadIntact, compactVars
<1> QED
  BY <1>2, <1>3, <1>4, <1>5, <1>6 DEF IInv

LEMMA FinalizeSlotStep ==
  ASSUME IInv, FinalizeSlot
  PROVE  IInv'
<1> DEFINE st == state[fin]
           e  == entry(fin, st, st.side)
<1>1. /\ phase = "finalize" /\ phase' = phase /\ is_double
      /\ fin <= NumSlots /\ fin' = fin + 1
      /\ \/ UNCHANGED << out, total_card >>
         \/ st.typ # UNSEEDED /\ record(fin, st, st.side)
      /\ UNCHANGED << plan, cursor, slot_off, stride, scratch_off, buf_len >>
      /\ UNCHANGED << next_slot, state, mem >>
      /\ UNCHANGED compactVars
  BY DEF FinalizeSlot, layoutVars, IInv, FoldInv
<1>2. NumSlots \in Nat /\ fin \in 1 .. NumSlots /\ fin \in Nat
  <2>1. NumSlots \in Nat
    BY PlanFacts DEF IInv
  <2> QED
    BY <1>1, <2>1 DEF IInv, TypeOK
<1>3. st \in [typ : {CT_ARRAY, CT_BITMAP, CT_RUN, UNSEEDED}, side : {0, 1}, card : Nat, size : Nat]
  BY <1>2 DEF IInv, TypeOK
<1>4. off_of(fin, st.side) \in Nat
  BY <1>1, <1>2, <1>3, Inside DEF IInv
<1>5. out \in Seq(Recorded) /\ Len(out) \in Nat /\ Len(out) < fin /\ total_card \in Nat
  BY <1>1 DEF IInv, FoldInv, NextRecord, TypeOK, Recorded
<1>6. \A k \in 1 .. Len(out) : Placed(out[k]) /\ out[k].slot < fin /\ out[k] \in Recorded
  <2>1. \A k \in 1 .. Len(out) : out[k] \in Recorded
    BY <1>5, ElementOfSeq
  <2> QED
    BY <1>1, <2>1 DEF IInv, FoldInv, NextRecord
<1>7. st.typ # UNSEEDED =>
        /\ InSlot(fin, st.typ, st.size)
        /\ Segment(Key(fin), off_of(fin, st.side), st.size) \in mem
  BY <1>1, <1>2 DEF IInv, FoldInv, MemInv
<1>8. st.typ # UNSEEDED => e.slot = fin /\ Placed(e) /\ Payload(e) \in mem
  BY <1>2, <1>3, <1>7, EntryPlaced
<1>9. /\ out' \in Seq(Recorded) /\ total_card' \in Nat
      /\ Len(out) <= Len(out') /\ Len(out') <= Len(out) + 1
      /\ \A k \in 1 .. Len(out') :
           \/ k \in 1 .. Len(out) /\ out'[k] = out[k]
           \/ k = Len(out) + 1 /\ out'[k] = e /\ st.typ # UNSEEDED
  <2>1. CASE UNCHANGED << out, total_card >>
    BY <1>5, <2>1
  <2>2. CASE st.typ # UNSEEDED /\ record(fin, st, st.side)
    <3>1. st.typ \in {CT_ARRAY, CT_BITMAP, CT_RUN} /\ st.side \in {0, 1}
          /\ st.card \in Nat /\ st.size \in Nat
      BY <1>3, <2>2
    <3> HIDE DEF st
    <3> QED
      BY <1>2, <1>4, <2>2, <3>1, RecordStep DEF IInv
  <2> QED
    BY <1>1, <2>1, <2>2
<1> HIDE DEF e, st
<1>10. TypeOK'
  <2>1. pos' \in 1 .. Len(out') + 1
    <3>1. pos' = pos /\ pos \in 1 .. Len(out) + 1 /\ Len(out') \in Nat
      BY <1>1, <1>9 DEF IInv, TypeOK, compactVars
    <3> QED
      BY <3>1, <1>5, <1>9
  <2>2. fin' \in 1 .. NumSlots + 1
    BY <1>1, <1>2
  <2> QED
    BY <1>1, <1>9, <2>1, <2>2 DEF IInv, TypeOK, NumSlots, compactVars, Recorded
<1>11. LayoutInv'
  BY <1>1, LayoutFrame DEF IInv
<1>12. FoldInv'
  <2>1. \A k \in 1 .. Len(out') : Placed(out'[k]) /\ out'[k].slot < fin + 1
    <3> TAKE k \in 1 .. Len(out')
    <3>1. CASE k \in 1 .. Len(out) /\ out'[k] = out[k]
      BY <3>1, <1>6, <1>2 DEF Recorded
    <3>2. CASE k = Len(out) + 1 /\ out'[k] = e /\ st.typ # UNSEEDED
      BY <3>2, <1>8, <1>2
    <3> QED
      BY <3>1, <3>2, <1>9
  <2>2. \A k, l \in 1 .. Len(out') : k < l => out'[k].slot < out'[l].slot
    <3> SUFFICES ASSUME NEW k \in 1 .. Len(out'), NEW l \in 1 .. Len(out'), k < l
                 PROVE  out'[k].slot < out'[l].slot
      OBVIOUS
    <3>1. k \in 1 .. Len(out) /\ out'[k] = out[k]
      BY <1>5, <1>9
    <3>2. CASE l \in 1 .. Len(out) /\ out'[l] = out[l]
      BY <3>1, <3>2 DEF IInv, FoldInv
    <3>3. CASE l = Len(out) + 1 /\ out'[l] = e /\ st.typ # UNSEEDED
      BY <3>1, <3>3, <1>6, <1>8
    <3> QED
      BY <3>2, <3>3, <1>9
  <2>3. Len(out') < fin + 1
    BY <1>2, <1>5, <1>9
  <2>4. \A k \in 1 .. Len(out') : (Placed(out[k]))'
    BY <2>1, <1>1, PlacedFrame
  <2>5. NextRecord' = fin + 1 /\ is_double'
    BY <1>1 DEF NextRecord, is_double
  <2> QED
    BY <2>1, <2>2, <2>3, <2>4, <2>5, <1>1 DEF IInv, FoldInv, InSlot, Cap, NumSlots
<1>13. MemInv'
  <2>1. \A k \in 1 .. Len(out') : Payload(out'[k]) \in mem'
    <3> TAKE k \in 1 .. Len(out')
    <3>1. CASE k \in 1 .. Len(out) /\ out'[k] = out[k]
      BY <3>1, <1>1 DEF IInv, MemInv
    <3>2. CASE k = Len(out) + 1 /\ out'[k] = e /\ st.typ # UNSEEDED
      BY <3>2, <1>1, <1>8
    <3> QED
      BY <3>1, <3>2, <1>9
  <2>2. \A k \in 1 .. Len(out') : (Payload(out[k]))' \in mem'
    BY <2>1 DEF Payload
  <2> QED
    BY <1>1, <2>2 DEF IInv, MemInv, NumSlots, Key, off_of
<1>14. CompactInv' /\ UnreadIntact'
  BY <1>1 DEF IInv, CompactInv, UnreadIntact, compactVars
<1> QED
  BY <1>10, <1>11, <1>12, <1>13, <1>14 DEF IInv

----------------------------------------------------------------------------
\* Serialization.

\* Recording in slot order is recording in key order: the sort changes nothing.
LEMMA AlreadySorted ==
  ASSUME IInv
  PROVE  /\ SortByKey(out) = out /\ KeySorted(out)
         /\ \A k, l \in 1 .. Len(out) : k # l => out[k].key # out[l].key
<1>1. \A k \in 1 .. Len(out) :
        /\ out[k].key = Key(out[k].slot) /\ out[k].slot \in 1 .. NumSlots
        /\ out[k].key \in Nat
  <2>1. out \in Seq(Recorded)
    BY DEF IInv, TypeOK, Recorded
  <2>2. \A k \in 1 .. Len(out) : out[k] \in Recorded
    BY <2>1, ElementOfSeq
  <2> QED
    BY <2>2 DEF IInv, FoldInv, Placed, Recorded
<1>2. \A k, l \in 1 .. Len(out) : k < l => out[k].key < out[l].key
  <2> SUFFICES ASSUME NEW k \in 1 .. Len(out), NEW l \in 1 .. Len(out), k < l
               PROVE  out[k].key < out[l].key
    OBVIOUS
  <2>1. out[k].slot < out[l].slot
    BY DEF IInv, FoldInv
  <2>2. Key(out[k].slot) < Key(out[l].slot)
    BY <1>1, <2>1, PlanFacts DEF IInv
  <2> QED
    BY <1>1, <2>2
<1>3. KeySorted(out)
  BY <1>2 DEF KeySorted
<1>4. \A k, l \in 1 .. Len(out) : k # l => out[k].key # out[l].key
  BY <1>1, <1>2
<1> QED
  BY <1>3, <1>4 DEF SortByKey

\* A transcoded container keeps its key, slot and offset, and still fits.
LEMMA TranscodedFacts ==
  ASSUME NEW e \in Recorded, Placed(e), e.slot \in 1 .. NumSlots, TypeOK
  PROVE  /\ Transcoded(e) \in Recorded
         /\ Transcoded(e).slot = e.slot
         /\ Placed(Transcoded(e))
         /\ ~ sparse(e) => Transcoded(e) = e
<1>1. Cap(e.slot) \in Nat
  BY PlanFacts
<1>2. CASE sparse(e)
  <2> DEFINE t == [e EXCEPT !.typ = CT_ARRAY, !.data_size = e.card * 2]
  <2>1. Transcoded(e) = t
    BY <1>2 DEF Transcoded
  <2>2. /\ t \in Recorded /\ t.key = e.key /\ t.slot = e.slot /\ t.off = e.off
        /\ t.typ = CT_ARRAY /\ t.data_size = e.card * 2
    <3>1. e.card * 2 \in Nat
      BY DEF Recorded
    <3>2. t \in Recorded
      BY <3>1 DEF Recorded
    <3>3. /\ t.key = e.key /\ t.slot = e.slot /\ t.off = e.off
          /\ t.typ = CT_ARRAY /\ t.data_size = e.card * 2
      BY DEF Recorded
    <3> QED
      BY <3>2, <3>3
  <2>3. e.card \in Nat /\ e.card <= ARRAY_MAX_SIZE
        /\ e.data_size = BITMAP_BYTES /\ e.data_size <= Cap(e.slot)
    BY <1>2 DEF Recorded, sparse, Placed, InSlot
  <2>4. t.data_size <= Cap(e.slot)
    BY <1>1, <2>2, <2>3 DEF ARRAY_MAX_SIZE, BITMAP_BYTES, BITMAP_WORDS
  <2> HIDE DEF t
  <2>5. Placed(t)
    BY <2>2, <2>4 DEF Placed, InSlot, CT_ARRAY, CT_BITMAP
  <2> QED
    BY <1>2, <2>1, <2>2, <2>5
<1>3. CASE ~ sparse(e)
  BY <1>3 DEF Transcoded
<1> QED
  BY <1>2, <1>3

LEMMA SerializeStep ==
  ASSUME IInv, NEW compact \in BOOLEAN, Serialize(compact)
  PROVE  IInv'
<1>1. /\ phase \in {"fold", "finalize"} /\ phase' = "compact"
      /\ out' = (IF compact THEN [k \in 1 .. Len(out) |-> Transcoded(out[k])] ELSE out)
      /\ mem' = (IF compact THEN TranscodeMem(mem, out) ELSE mem)
      /\ data_base' = data_section_off(Len(out), has_type(out', CT_BITMAP))
      /\ prev_end' = data_base'
      /\ UNCHANGED << plan, cursor, slot_off, stride, scratch_off, buf_len >>
      /\ UNCHANGED << next_slot, fin, state, total_card, pos, dc, index, written >>
  BY AlreadySorted DEF Serialize, layoutVars
<1>2. /\ out \in Seq(Recorded) /\ Len(out) \in Nat
      /\ pos = 1 /\ dc = 0
  <2>1. out \in Seq(Recorded) /\ Len(out) \in Nat
    BY DEF IInv, TypeOK, Recorded
  <2>2. pos = 1 /\ dc = 0
    BY <1>1 DEF IInv, CompactInv
  <2> QED
    BY <2>1, <2>2
<1>3. \A k \in 1 .. Len(out) :
        /\ out[k] \in Recorded /\ Placed(out[k]) /\ Payload(out[k]) \in mem
        /\ out[k].slot \in 1 .. NumSlots
  <2>1. \A k \in 1 .. Len(out) : out[k] \in Recorded
    BY <1>2, ElementOfSeq
  <2>2. \A k \in 1 .. Len(out) : out[k].slot \in 1 .. NumSlots
    BY <2>1 DEF Recorded
  <2> QED
    BY <1>1, <2>1, <2>2 DEF IInv, FoldInv, MemInv
<1>4. \A k \in 1 .. Len(out) :
        /\ Transcoded(out[k]) \in Recorded
        /\ Transcoded(out[k]).slot = out[k].slot
        /\ Placed(Transcoded(out[k]))
        /\ ~ sparse(out[k]) => Transcoded(out[k]) = out[k]
  BY <1>3, TranscodedFacts DEF IInv
<1>5. /\ out' \in Seq(Recorded) /\ Len(out') = Len(out)
      /\ \A k \in 1 .. Len(out) :
           out'[k].slot = out[k].slot /\ Placed(out'[k]) /\ out'[k] \in Recorded
  <2>1. CASE compact
    <3>1. out' = [k \in 1 .. Len(out) |-> Transcoded(out[k])]
      BY <1>1, <2>1
    <3>2. out' \in [1 .. Len(out) -> Recorded]
      BY <3>1, <1>4
    <3>3. out' \in Seq(Recorded) /\ Len(out') = Len(out)
      BY <3>2, <1>2, SeqDef, LenProperties
    <3> QED
      BY <3>1, <3>3, <1>4
  <2>2. CASE ~ compact
    BY <1>1, <1>2, <1>3, <2>2
  <2> QED
    BY <2>1, <2>2
<1>6. \A k \in 1 .. Len(out) : Payload(out'[k]) \in mem'
  <2>1. CASE compact
    <3> TAKE k \in 1 .. Len(out)
    <3>1. out'[k] = Transcoded(out[k]) /\ mem' = TranscodeMem(mem, out)
      BY <1>1, <2>1
    <3>2. CASE sparse(out[k])
      BY <3>1, <3>2, <1>3 DEF TranscodeMem
    <3>3. CASE ~ sparse(out[k])
      <4>1. Payload(out[k]) \in mem /\ out'[k] = out[k]
        BY <3>1, <3>3, <1>3, <1>4
      <4>2. \A l \in 1 .. Len(out) : sparse(out[l]) => Payload(out[l]) # Payload(out[k])
        <5> SUFFICES ASSUME NEW l \in 1 .. Len(out), sparse(out[l])
                     PROVE  Payload(out[l]) # Payload(out[k])
          OBVIOUS
        <5>1. out[l].key # out[k].key
          BY <3>3, AlreadySorted
        <5>2. Payload(out[l]).id = out[l].key /\ Payload(out[k]).id = out[k].key
          BY DEF Payload, Segment
        <5> QED
          BY <5>1, <5>2
      <4> QED
        BY <3>1, <4>1, <4>2 DEF TranscodeMem
    <3> QED
      BY <3>2, <3>3
  <2>2. CASE ~ compact
    BY <1>1, <1>3, <2>2
  <2> QED
    BY <2>1, <2>2
<1>7. \A s \in mem' : s.id \in Nat /\ s.lo \in Nat /\ s.hi \in Nat
  <2>1. \A s \in mem : s.id \in Nat /\ s.lo \in Nat /\ s.hi \in Nat
    BY DEF IInv, TypeOK
  <2>2. \A e \in Recorded : Payload(e).id \in Nat /\ Payload(e).lo \in Nat /\ Payload(e).hi \in Nat
    BY DEF Payload, Segment, Recorded
  <2>3. \A s \in TranscodeMem(mem, out) :
          s \in mem \/ \E k \in 1 .. Len(out) : s = Payload(Transcoded(out[k]))
    BY DEF TranscodeMem
  <2> QED
    BY <1>1, <1>4, <2>1, <2>2, <2>3
<1>8. Len(out) <= NumSlots /\ NumSlots \in Nat
  <2>1. NumSlots \in Nat
    BY PlanFacts DEF IInv
  <2>2. NextRecord \in 1 .. NumSlots + 1
    BY DEF NextRecord, IInv, TypeOK
  <2>3. Len(out) < NextRecord
    BY DEF IInv, FoldInv
  <2> QED
    BY <2>1, <2>2, <2>3, <1>2
<1>9. data_base' \in Nat /\ data_base' <= Reserved
  <2>1. has_type(out', CT_BITMAP) \in BOOLEAN
    BY DEF has_type
  <2> QED
    BY <1>1, <1>2, <1>8, <2>1, DataSection, DataSectionMonotone DEF Reserved
<1>10. TypeOK'
  <2>1. /\ plan' = plan /\ NumSlots' = NumSlots
        /\ phase' = "compact" /\ pos' \in 1 .. Len(out') + 1
    BY <1>1, <1>2, <1>5 DEF NumSlots
  <2> QED
    BY <1>1, <1>5, <1>7, <1>9, <2>1 DEF IInv, TypeOK, Recorded
<1>11. LayoutInv'
  BY <1>1, LayoutFrame DEF IInv
<1>12. FoldInv'
  <2>1. \A k \in 1 .. Len(out) : (Placed(out[k]))'
    BY <1>1, <1>5, PlacedFrame
  <2>2. \A k \in 1 .. Len(out) : out[k].slot < NextRecord
    BY DEF IInv, FoldInv
  <2>3. \A k, l \in 1 .. Len(out) : k < l => out[k].slot < out[l].slot
    BY DEF IInv, FoldInv
  <2>4. NextRecord' = NextRecord /\ is_double' = is_double
    BY <1>1 DEF NextRecord, is_double
  <2>5. Len(out) < NextRecord
    BY DEF IInv, FoldInv
  <2> QED
    BY <1>1, <1>5, <2>1, <2>2, <2>3, <2>4, <2>5 DEF IInv, FoldInv, InSlot, Cap, NumSlots
<1>13. MemInv'
  BY <1>1 DEF MemInv
<1>14. CompactInv'
  <2>1. \A k \in 1 .. Len(out') : prev_end' <= slot_off'[out'[k].slot]
    <3> TAKE k \in 1 .. Len(out')
    <3>1. out'[k].slot = out[k].slot /\ out[k].slot \in 1 .. NumSlots
      BY <1>3, <1>5
    <3>2. Reserved <= slot_off[out[k].slot] /\ slot_off[out[k].slot] \in Nat
      BY <3>1, <1>1, Inside DEF IInv
    <3>3. Reserved \in Nat
      BY PlanFacts DEF IInv
    <3> QED
      BY <1>1, <1>9, <3>1, <3>2, <3>3
  <2> QED
    BY <1>1, <1>2, <1>5, <1>9, <2>1 DEF CompactInv
<1>15. UnreadIntact'
  <2>1. \A k \in 1 .. Len(out') : (Payload(out[k]))' \in mem'
    BY <1>5, <1>6 DEF Payload
  <2> QED
    BY <1>1, <1>2, <2>1 DEF UnreadIntact
<1> QED
  BY <1>10, <1>11, <1>12, <1>13, <1>14, <1>15 DEF IInv

----------------------------------------------------------------------------
\* Compaction.

\* The payload to be moved next goes no further right than the start of its
\* slot: the running offset has not passed that slot, and only a slot of
\* exactly a bitmap's size, which is aligned for one, holds a bitmap.
LEMMA DstFacts ==
  ASSUME IInv, CapacitiesBounded, phase = "compact", pos <= Len(out)
  PROVE  /\ out[pos] \in Recorded /\ out[pos].slot \in 1 .. NumSlots
         /\ DataOffset \in Nat /\ Dst \in Nat /\ Dst = data_base + DataOffset
         /\ dc <= DataOffset /\ prev_end <= Dst
         /\ Dst <= slot_off[out[pos].slot]
         /\ slot_off[out[pos].slot] <= out[pos].off
<1> DEFINE e  == out[pos]
           at == slot_off[e.slot]
<1>1. /\ out \in Seq(Recorded) /\ pos \in 1 .. Len(out)
      /\ data_base \in Nat /\ dc \in Nat /\ prev_end \in Nat
  BY DEF IInv, TypeOK, Recorded
<1>2. e \in Recorded /\ e.slot \in 1 .. NumSlots /\ Placed(e)
  <2>1. e \in Recorded
    BY <1>1, ElementOfSeq
  <2>2. Placed(e)
    BY <1>1 DEF IInv, FoldInv
  <2> QED
    BY <2>1, <2>2 DEF Recorded
<1>3. at \in Nat /\ at <= e.off
  <2>1. PICK side \in {0, 1} : e.off = off_of(e.slot, side)
    BY <1>2 DEF Placed
  <2> QED
    BY <1>2, <2>1, Inside DEF IInv
<1>4. /\ data_base = data_section_off(Len(out), has_type(out, CT_BITMAP))
      /\ prev_end = data_base + dc
      /\ prev_end <= at
  BY <1>1 DEF IInv, CompactInv
<1>5. Len(out) \in Nat /\ has_type(out, CT_BITMAP) \in BOOLEAN
  BY <1>1 DEF has_type
<1>6. at % WORD_ALIGN = 0
  <2>1. e.slot \in 1 .. Len(slot_off)
    BY <1>2 DEF IInv, LayoutInv
  <2> QED
    BY <2>1 DEF IInv, LayoutInv
<1>7. data_base % WORD_ALIGN = 0
  BY <1>4, <1>5, DataSection
<1>8. e.typ = CT_BITMAP => at % BUF_ALIGN = 0 /\ data_base % BUF_ALIGN = 0
  <2> SUFFICES ASSUME e.typ = CT_BITMAP
               PROVE  at % BUF_ALIGN = 0 /\ data_base % BUF_ALIGN = 0
    OBVIOUS
  <2>1. has_type(out, CT_BITMAP)
    BY <1>1 DEF has_type
  <2>2. data_base % BUF_ALIGN = 0
    BY <1>4, <1>5, <2>1, DataSection
  <2>3. BITMAP_BYTES <= Cap(e.slot)
    BY <1>2 DEF Placed, InSlot
  <2>4. Cap(e.slot) \in Nat /\ Cap(e.slot) <= BITMAP_BYTES
    BY <1>2, PlanFacts DEF IInv
  <2>5. Cap(e.slot) = BITMAP_BYTES
    BY <2>3, <2>4 DEF BITMAP_BYTES, BITMAP_WORDS
  <2>6. e.slot \in 1 .. Len(slot_off)
    BY <1>2 DEF IInv, LayoutInv
  <2> QED
    BY <2>2, <2>5, <2>6 DEF IInv, LayoutInv
<1> DEFINE room == at - data_base
<1>9. room \in Nat /\ dc <= room /\ at = data_base + room
  BY <1>1, <1>3, <1>4
<1>10. DataOffset \in Nat /\ dc <= DataOffset /\ DataOffset <= room
  <2>1. CASE e.typ = CT_BITMAP
    <3>1. DataOffset = align_up(dc, BUF_ALIGN)
      BY <2>1 DEF DataOffset, payload_align
    <3>2. room % BUF_ALIGN = 0
      BY <1>1, <1>3, <1>4, <1>8, <1>9, <2>1, MultiplesDiffer DEF Alignments
    <3> HIDE DEF room
    <3> QED
      BY <3>1, <3>2, <1>1, <1>9, AlignUp, AlignUpLeast DEF Alignments
  <2>2. CASE e.typ # CT_BITMAP
    <3>1. DataOffset = align_up(dc, 2)
      BY <2>2 DEF DataOffset, payload_align
    <3>2. room % 2 = 0
      BY <1>1, <1>3, <1>6, <1>7, <1>9, MultiplesDiffer
    <3> HIDE DEF room
    <3> QED
      BY <3>1, <3>2, <1>1, <1>9, AlignUp, AlignUpLeast DEF Alignments
  <2> QED
    BY <2>1, <2>2
<1>11. Dst = data_base + DataOffset
  BY DEF Dst
<1> HIDE DEF at, room, e
<1>12. Dst \in Nat /\ prev_end <= Dst /\ Dst <= at
  BY <1>1, <1>4, <1>9, <1>10, <1>11
<1> QED
  BY <1>2, <1>3, <1>10, <1>11, <1>12 DEF e, at

\* Writes that end before a segment starts leave it alone.
LEMMA WritesBelow ==
  ASSUME NEW m, NEW s \in m, NEW ranges, NEW bound \in Nat, s.lo \in Nat, bound <= s.lo,
         \A r \in ranges : r[2] \in Nat /\ r[2] <= bound
  PROVE  s \in ClobberAll(m, ranges)
<1>1. \A r \in ranges : ~ Overlaps(s, r[1], r[2])
  <2> SUFFICES ASSUME NEW r \in ranges PROVE ~ (s.lo < r[2])
    BY DEF Overlaps
  <2> QED
    OBVIOUS
<1> QED
  BY <1>1 DEF ClobberAll

\* The index lies before the data section.
LEMMA EntryRanges ==
  ASSUME NEW n \in Nat, NEW i \in 1 .. n, NEW r \in index_entry_ranges(n, i)
  PROVE  r[1] \in Nat /\ r[2] \in Nat /\ r[2] <= HEADER_SIZE + index_size(n)
<1>1. \/ r = << keys_off + 2 * (i - 1), keys_off + 2 * i >>
      \/ r = << cards_off(n) + 2 * (i - 1), cards_off(n) + 2 * i >>
      \/ r = << type_offsets_off(n) + 4 * (i - 1), type_offsets_off(n) + 4 * i >>
  BY DEF index_entry_ranges
<1>2. i \in Nat /\ i - 1 \in Nat /\ i <= n
  OBVIOUS
<1> QED
  BY <1>1, <1>2 DEF keys_off, cards_off, type_offsets_off, HEADER_SIZE, index_size

LEMMA CompactNextStep ==
  ASSUME IInv, CapacitiesBounded, CompactNext
  PROVE  IInv'
<1> DEFINE e      == out[pos]
           ranges == index_entry_ranges(Len(out), pos) \cup gap_fill(prev_end, Dst)
           filled == ClobberAll(mem, ranges)
           entry_at == [key |-> e.key, typ |-> e.typ,
                        cardinality |-> e.card, data_offset |-> DataOffset]
<1>1. /\ phase = "compact" /\ phase' = phase /\ pos <= Len(out) /\ pos' = pos + 1
      /\ index' = Append(index, entry_at)
      /\ mem' = (IF Dst = e.off THEN filled ELSE Moved(filled, e))
      /\ written' = written \cup index_entry_ranges(Len(out), pos) \cup gap_fill(prev_end, Dst)
                      \cup {<< Dst, Dst + e.data_size >>}
      /\ prev_end' = Dst + e.data_size
      /\ dc' = DataOffset + e.data_size
      /\ UNCHANGED << plan, cursor, slot_off, stride, scratch_off, buf_len >>
      /\ UNCHANGED << next_slot, fin, state, out, total_card, data_base >>
  BY DEF CompactNext, layoutVars, foldVars
<1>2. /\ e \in Recorded /\ e.slot \in 1 .. NumSlots
      /\ DataOffset \in Nat /\ Dst \in Nat /\ Dst = data_base + DataOffset
      /\ prev_end <= Dst
      /\ Dst <= slot_off[e.slot] /\ slot_off[e.slot] <= e.off
  BY <1>1, DstFacts
<1>3. /\ out \in Seq(Recorded) /\ Len(out) \in Nat /\ pos \in 1 .. Len(out)
      /\ data_base \in Nat /\ prev_end \in Nat /\ dc \in Nat
      /\ prev_end = data_base + dc
      /\ data_base = data_section_off(Len(out), has_type(out, CT_BITMAP))
  BY <1>1 DEF IInv, TypeOK, Recorded, CompactInv
<1>4. /\ Placed(e) /\ e.data_size \in Nat /\ e.key \in Nat /\ e.off \in Nat
      /\ e.data_size <= Cap(e.slot)
      /\ Cap(e.slot) \in Nat /\ slot_off[e.slot] \in Nat
  <2>1. Placed(e)
    BY <1>3 DEF IInv, FoldInv
  <2>2. Cap(e.slot) \in Nat
    BY <1>2, PlanFacts DEF IInv
  <2>3. slot_off[e.slot] \in Nat
    BY <1>1, <1>2, Inside DEF IInv
  <2> QED
    BY <1>2, <2>1, <2>2, <2>3 DEF Placed, InSlot, Recorded
<1> DEFINE end == Dst + e.data_size
<1>5. end \in Nat /\ Dst <= end /\ end <= slot_off[e.slot] + Cap(e.slot)
  BY <1>2, <1>4
<1>6. \A r \in ranges : r[1] \in Nat /\ r[2] \in Nat /\ r[2] <= Dst
  <2> TAKE r \in ranges
  <2>1. CASE r \in index_entry_ranges(Len(out), pos)
    <3>1. r[1] \in Nat /\ r[2] \in Nat /\ r[2] <= HEADER_SIZE + index_size(Len(out))
      BY <1>3, <2>1, EntryRanges
    <3>2. HEADER_SIZE + index_size(Len(out)) <= data_base
      <4>1. has_type(out, CT_BITMAP) \in BOOLEAN
        BY DEF has_type
      <4> QED
        BY <1>3, <4>1, DataSection
    <3>3. HEADER_SIZE + index_size(Len(out)) \in Nat
      BY <1>3 DEF HEADER_SIZE, index_size
    <3> QED
      BY <1>2, <1>3, <3>1, <3>2, <3>3
  <2>2. CASE r \in gap_fill(prev_end, Dst)
    BY <1>2, <1>3, <2>2 DEF gap_fill
  <2> QED
    BY <2>1, <2>2
<1>7. /\ entry_at \in [key : Nat, typ : {CT_ARRAY, CT_BITMAP, CT_RUN},
                       cardinality : Nat, data_offset : Nat]
      /\ Segment(e.key, Dst, e.data_size).id \in Nat
      /\ Segment(e.key, Dst, e.data_size).lo \in Nat
      /\ Segment(e.key, Dst, e.data_size).hi \in Nat
  BY <1>2, <1>4, <1>5 DEF Recorded, Segment
<1>8. \A k \in pos + 1 .. Len(out) :
        /\ out[k].slot \in 1 .. NumSlots
        /\ end <= slot_off[out[k].slot]
        /\ slot_off[out[k].slot] <= Payload(out[k]).lo
        /\ Payload(out[k]).lo \in Nat
        /\ Payload(out[k]) \in mem
  <2> TAKE k \in pos + 1 .. Len(out)
  <2>1. k \in 1 .. Len(out) /\ pos < k /\ k \in pos .. Len(out)
    BY <1>3
  <2>2. out[k] \in Recorded /\ Placed(out[k]) /\ e.slot < out[k].slot
    <3>1. out[k] \in Recorded
      BY <1>3, <2>1, ElementOfSeq
    <3> QED
      BY <1>3, <2>1, <3>1 DEF IInv, FoldInv
  <2>3. out[k].slot \in 1 .. NumSlots
    BY <2>2 DEF Recorded
  <2>4. PICK side \in {0, 1} : out[k].off = off_of(out[k].slot, side)
    BY <2>2 DEF Placed
  <2>5. slot_off[out[k].slot] \in Nat /\ slot_off[out[k].slot] <= out[k].off
    BY <1>1, <2>3, <2>4, Inside DEF IInv
  <2>6. slot_off[e.slot] + Cap(e.slot) <= slot_off[out[k].slot]
    BY <1>1, <1>2, <2>2, <2>3 DEF IInv, LayoutInv
  <2>7. end <= slot_off[out[k].slot]
    BY <1>4, <1>5, <2>5, <2>6
  <2>8. Payload(out[k]).lo = out[k].off /\ out[k].off \in Nat
    BY <2>2 DEF Payload, Segment, Recorded
  <2>9. Payload(out[k]) \in mem
    BY <1>1, <2>1 DEF IInv, UnreadIntact
  <2> QED
    BY <2>3, <2>5, <2>7, <2>8, <2>9
<1> HIDE DEF e, end, entry_at
<1>9. \A k \in pos + 1 .. Len(out) : Payload(out[k]) \in mem'
  <2> TAKE k \in pos + 1 .. Len(out)
  <2> DEFINE s == Payload(out[k])
  <2>1. s \in mem /\ s.lo \in Nat /\ end <= s.lo
    <3>1. slot_off[out[k].slot] \in Nat
      <4>1. out[k].slot \in 1 .. NumSlots
        BY <1>8
      <4> QED
        BY <1>1, <4>1, Inside DEF IInv
    <3> QED
      BY <1>5, <1>8, <3>1
  <2> HIDE DEF s
  <2>2. \A r \in ranges : r[2] \in Nat /\ r[2] <= end
    BY <1>2, <1>5, <1>6
  <2> HIDE DEF ranges
  <2>3. s \in filled
    BY <1>5, <2>1, <2>2, WritesBelow
  <2>4. ~ Overlaps(s, Dst, end)
    BY <1>5, <2>1 DEF Overlaps
  <2> HIDE DEF filled
  <2>5. s \in Moved(filled, e)
    BY <2>3, <2>4 DEF Moved, Clobber, end
  <2> QED
    BY <1>1, <2>3, <2>5 DEF s
<1>10. TypeOK'
  <2>1. \A s \in mem' : s.id \in Nat /\ s.lo \in Nat /\ s.hi \in Nat
    <3>1. \A s \in mem : s.id \in Nat /\ s.lo \in Nat /\ s.hi \in Nat
      BY DEF IInv, TypeOK
    <3>2. \A s \in filled : s \in mem
      BY DEF ClobberAll
    <3> HIDE DEF filled
    <3>3. \A s \in Moved(filled, e) : s \in filled \/ s = Segment(e.key, Dst, e.data_size)
      BY DEF Moved, Clobber
    <3> QED
      BY <1>1, <1>7, <3>1, <3>2, <3>3
  <2>2. \A r \in written' : r[1] \in Nat /\ r[2] \in Nat
    <3>1. \A r \in written : r[1] \in Nat /\ r[2] \in Nat
      BY DEF IInv, TypeOK
    <3>2. \A r \in written' :
            r \in written \/ r \in ranges \/ r = << Dst, end >>
      BY <1>1 DEF end
    <3> HIDE DEF ranges
    <3> QED
      BY <1>2, <1>5, <1>6, <3>1, <3>2
  <2>3. prev_end' \in Nat /\ dc' \in Nat /\ pos' \in 1 .. Len(out) + 1
    <3>1. prev_end' \in Nat
      BY <1>1, <1>5 DEF end
    <3>2. DataOffset + e.data_size \in Nat
      BY <1>2, <1>4
    <3>3. pos + 1 \in 1 .. Len(out) + 1
      BY <1>3
    <3> QED
      BY <1>1, <3>1, <3>2, <3>3
  <2>4. index' \in Seq([key : Nat, typ : {CT_ARRAY, CT_BITMAP, CT_RUN},
                        cardinality : Nat, data_offset : Nat])
    <3>1. index \in Seq([key : Nat, typ : {CT_ARRAY, CT_BITMAP, CT_RUN},
                         cardinality : Nat, data_offset : Nat])
      BY DEF IInv, TypeOK
    <3> QED
      BY <1>1, <1>7, <3>1, AppendProperties
  <2> QED
    BY <1>1, <2>1, <2>2, <2>3, <2>4 DEF IInv, TypeOK, NumSlots
<1>11. LayoutInv'
  BY <1>1, LayoutFrame DEF IInv
<1>12. FoldInv'
  <2>1. \A k \in 1 .. Len(out) : Placed(out'[k])
    BY <1>1 DEF IInv, FoldInv
  <2>2. \A k \in 1 .. Len(out) : (Placed(out[k]))'
    BY <1>1, <2>1, PlacedFrame
  <2> QED
    BY <1>1, <2>2 DEF IInv, FoldInv, InSlot, Cap, NumSlots, is_double, NextRecord
<1>13. MemInv'
  BY <1>1 DEF MemInv
<1>14. CompactInv'
  <2>1. prev_end' = end /\ prev_end' = data_base + dc'
    <3>1. \A a, b, c \in Nat : (a + b) + c = a + (b + c)
      OBVIOUS
    <3>2. Dst + e.data_size = data_base + (DataOffset + e.data_size)
      BY <1>2, <1>3, <1>4, <3>1
    <3> QED
      BY <1>1, <3>2 DEF end
  <2> QED
    BY <1>1, <1>3, <1>8, <2>1 DEF CompactInv
<1>15. UnreadIntact'
  <2>1. \A k \in pos + 1 .. Len(out) : (Payload(out[k]))' \in mem'
    BY <1>1, <1>9 DEF Payload
  <2> QED
    BY <1>1, <2>1 DEF UnreadIntact
<1> QED
  BY <1>10, <1>11, <1>12, <1>13, <1>14, <1>15 DEF IInv

LEMMA FinishStep ==
  ASSUME IInv, Finish
  PROVE  IInv'
<1> DEFINE front == {<< 0, HEADER_SIZE >>,
                     << HEADER_SIZE + index_size(Len(out)), data_base >>}
<1>1. /\ phase = "compact" /\ phase' = "done"
      /\ mem' = ClobberAll(mem, front)
      /\ written' = written \cup front
      /\ buf_len' = data_base + dc
      /\ UNCHANGED << plan, cursor, slot_off, stride, scratch_off >>
      /\ UNCHANGED << next_slot, fin, state, out, total_card >>
      /\ UNCHANGED << pos, dc, prev_end, data_base, index >>
  BY DEF Finish, foldVars
<1>2. data_base \in Nat /\ dc \in Nat /\ Len(out) \in Nat
  BY DEF IInv, TypeOK
<1>3. data_base + dc \in Nat
  BY <1>2
<1>4. \A r \in front : r[1] \in Nat /\ r[2] \in Nat
  BY <1>2 DEF HEADER_SIZE, index_size
<1>5. \A s \in mem' : s \in mem
  BY <1>1 DEF ClobberAll
<1> HIDE DEF front
<1>6. TypeOK'
  <2>1. \A r \in written' : r[1] \in Nat /\ r[2] \in Nat
    BY <1>1, <1>4 DEF IInv, TypeOK
  <2>2. \A s \in mem' : s.id \in Nat /\ s.lo \in Nat /\ s.hi \in Nat
    BY <1>5 DEF IInv, TypeOK
  <2> QED
    BY <1>1, <1>3, <2>1, <2>2 DEF IInv, TypeOK, NumSlots
<1>7. LayoutInv'
  BY <1>1, LayoutFrame DEF IInv
<1>8. FoldInv'
  <2>1. \A k \in 1 .. Len(out) : Placed(out'[k])
    BY <1>1 DEF IInv, FoldInv
  <2>2. \A k \in 1 .. Len(out) : (Placed(out[k]))'
    BY <1>1, <2>1, PlacedFrame
  <2> QED
    BY <1>1, <2>2 DEF IInv, FoldInv, InSlot, Cap, NumSlots, is_double, NextRecord
<1>9. MemInv' /\ CompactInv' /\ UnreadIntact'
  BY <1>1 DEF MemInv, CompactInv, UnreadIntact
<1> QED
  BY <1>6, <1>7, <1>8, <1>9 DEF IInv

LEMMA Stutter ==
  ASSUME IInv, UNCHANGED vars
  PROVE  IInv'
<1>1. /\ UNCHANGED << plan, phase, cursor, slot_off, stride, scratch_off, buf_len >>
      /\ UNCHANGED << next_slot, fin, state, out, total_card >>
      /\ UNCHANGED << pos, dc, prev_end, data_base, index, written, mem >>
  BY DEF vars, layoutVars, foldVars, compactVars
<1>2. TypeOK'
  BY <1>1 DEF IInv, TypeOK, NumSlots
<1>3. LayoutInv'
  BY <1>1 DEF IInv, LayoutInv, Reserved, NumSlots, Cap
<1>4. FoldInv'
  BY <1>1 DEF IInv, FoldInv, InSlot, Placed, Cap, Key, off_of, NumSlots, is_double, NextRecord
<1>5. MemInv' /\ CompactInv' /\ UnreadIntact'
  BY <1>1 DEF IInv, MemInv, CompactInv, UnreadIntact, Key, off_of, NumSlots, Payload
<1> QED
  BY <1>2, <1>3, <1>4, <1>5 DEF IInv

----------------------------------------------------------------------------
\* Theorems.

LEMMA NextStep ==
  ASSUME IInv, CapacitiesBounded, Next
  PROVE  IInv'
<1>1. CASE LayoutSlot
  BY <1>1, LayoutSlotStep
<1>2. CASE LayoutDone
  BY <1>2, LayoutDoneStep
<1>3. CASE Fold
  <2>1. PICK i \in 1 .. NumSlots, f \in Forms :
          \/ FoldKey(i, f)
          \/ SeedSlot(i, f)
          \/ \E merge \in BOOLEAN : ApplySlot(i, f, merge)
    BY <1>3 DEF Fold
  <2> QED
    BY <2>1, FoldKeyStep, SeedSlotStep, ApplySlotStep
<1>4. CASE FoldDone
  BY <1>4, FoldDoneStep
<1>5. CASE FinalizeSlot
  BY <1>5, FinalizeSlotStep
<1>6. CASE \E compact \in BOOLEAN : Serialize(compact)
  BY <1>6, SerializeStep
<1>7. CASE CompactNext
  BY <1>7, CompactNextStep
<1>8. CASE Finish
  BY <1>8, FinishStep
<1> QED
  BY <1>1, <1>2, <1>3, <1>4, <1>5, <1>6, <1>7, <1>8 DEF Next

\* The inductive invariant holds throughout.
LEMMA Inductive ==
  ASSUME CapacitiesBounded
  PROVE  Spec => []IInv
<1>1. IInv /\ [Next]_vars => IInv'
  BY NextStep, Stutter
<1> QED
  BY <1>1, InitIInv, PTL DEF Spec

\* Every variable keeps its type, whatever the plans, provided each slot is at
\* most a bitmap's size (the promise of ops/analyze/plan.rs).
THEOREM TypeCorrect ==
  ASSUME CapacitiesBounded
  PROVE  Spec => []TypeOK
<1>1. IInv => TypeOK
  BY DEF IInv
<1> QED
  BY <1>1, Inductive, PTL

\* In-place compaction only moves payloads left (the assertion in
\* serialize_inner), for every plan with capacities of at most BITMAP_BYTES.
THEOREM CompactionMovesLeft ==
  ASSUME CapacitiesBounded
  PROVE  Spec => []LeftwardOnly
<1>1. IInv => LeftwardOnly
  <2> SUFFICES ASSUME IInv, phase = "compact", pos <= Len(out)
               PROVE  Dst <= out[pos].off
    BY DEF LeftwardOnly
  <2>1. /\ out[pos] \in Recorded /\ out[pos].slot \in 1 .. NumSlots
        /\ Dst \in Nat
        /\ Dst <= slot_off[out[pos].slot]
        /\ slot_off[out[pos].slot] <= out[pos].off
    BY DstFacts
  <2>2. slot_off[out[pos].slot] \in Nat
    BY <2>1, Inside DEF IInv
  <2> QED
    BY <2>1, <2>2 DEF Recorded
<1> QED
  BY <1>1, Inductive, PTL

\* No index entry, zeroed gap or moved payload overwrites a payload that is
\* still to be moved, for every such plan.
THEOREM CompactionKeepsUnread ==
  ASSUME CapacitiesBounded
  PROVE  Spec => []UnreadIntact
<1>1. IInv => UnreadIntact
  BY DEF IInv
<1> QED
  BY <1>1, Inductive, PTL

\* The two sides of a slot are disjoint where there are two.
LEMMA SidesApart ==
  ASSUME TypeOK, LayoutInv, phase # "layout", is_double, NEW i \in 1 .. NumSlots
  PROVE  off_of(i, 0) + Cap(i) <= off_of(i, 1)
<1>1. /\ Len(slot_off) = NumSlots
      /\ slot_off \in Seq(Nat)
      /\ stride \in Nat /\ cursor \in Nat /\ stride > 0
      /\ stride = 0 \/ cursor <= stride
  BY DEF TypeOK, LayoutInv, is_double
<1>2. /\ Cap(i) \in Nat /\ NumSlots \in Nat
  BY PlanFacts
<1>3. slot_off[i] \in Nat /\ slot_off[i] + Cap(i) <= cursor
  BY <1>1 DEF LayoutInv
<1>4. off_of(i, 0) = slot_off[i] /\ off_of(i, 1) = slot_off[i] + stride
  BY <1>1, <1>3 DEF off_of
<1> QED
  BY <1>1, <1>2, <1>3, <1>4

\* Whatever is planned, the reserved front, every slot on every side and the
\* scratch region are disjoint (from_plan), so a kernel that stays within what
\* it is given cannot write into another key's accumulator.
THEOREM NoOverlap ==
  ASSUME CapacitiesBounded
  PROVE  Spec => []RegionsDisjoint
<1>1. IInv => RegionsDisjoint
  <2> SUFFICES ASSUME IInv, phase \in {"fold", "finalize"},
                      NEW i \in 1 .. NumSlots, NEW k \in 1 .. NumSlots,
                      NEW x \in Sides, NEW y \in Sides
               PROVE  /\ data_section_off(NumSlots, TRUE) <= off_of(i, x)
                      /\ off_of(i, x) + Cap(i) <= scratch_off
                      /\ \/ i = k /\ x = y
                         \/ off_of(i, x) + Cap(i) <= off_of(k, y)
                         \/ off_of(k, y) + Cap(k) <= off_of(i, x)
    BY DEF RegionsDisjoint
  <2>1. TypeOK /\ LayoutInv /\ phase # "layout"
    BY DEF IInv
  <2>2. x \in {0, 1} /\ y \in {0, 1}
    BY DEF Sides
  <2>3. /\ Reserved <= slot_off[i] /\ slot_off[i] <= off_of(i, x)
        /\ slot_off[i] \in Nat /\ off_of(i, x) \in Nat
        /\ off_of(i, x) + Cap(i) <= scratch_off
    BY <2>1, <2>2, Inside
  <2>4. data_section_off(NumSlots, TRUE) <= off_of(i, x)
    <3>1. Reserved \in Nat
      BY <2>1, PlanFacts
    <3>2. Reserved <= off_of(i, x)
      BY <2>3, <3>1
    <3> QED
      BY <3>2 DEF Reserved
  <2>5. CASE i # k
    BY <2>1, <2>2, <2>3, <2>4, <2>5, Apart
  <2>6. CASE i = k /\ x # y
    <3>1. is_double
      BY <2>2, <2>6 DEF Sides
    <3>2. off_of(i, 0) + Cap(i) <= off_of(i, 1)
      BY <2>1, <3>1, SidesApart
    <3>3. CASE x = 0 /\ y = 1
      <4>1. off_of(i, x) + Cap(i) <= off_of(k, y)
        BY <2>6, <3>2, <3>3
      <4> QED
        BY <4>1, <2>3, <2>4
    <3>4. CASE x = 1 /\ y = 0
      <4>1. off_of(k, y) + Cap(k) <= off_of(i, x)
        BY <2>6, <3>2, <3>4
      <4> QED
        BY <4>1, <2>3, <2>4
    <3> QED
      BY <2>2, <2>6, <3>3, <3>4
  <2> QED
    BY <2>3, <2>4, <2>5, <2>6
<1> QED
  BY <1>1, Inductive, PTL

----------------------------------------------------------------------------
\* The arena implements ContainerStore.  Besides the invariant that takes: what
\* has a size has the size its type and cardinality determine, and a payload
\* that has been moved stays where its index entry says.

Cardinalities == {f.card : f \in Forms}

Sized(typ, card, size) ==
  /\ typ = CT_ARRAY => size = 2 * card
  /\ typ = CT_BITMAP => size = BITMAP_BYTES

SizedInv ==
  /\ \A i \in 1 .. NumSlots :
       state[i].typ # UNSEEDED =>
         state[i].card \in Cardinalities /\ Sized(state[i].typ, state[i].card, state[i].size)
  /\ \A k \in 1 .. Len(out) :
       out[k].card \in Cardinalities /\ Sized(out[k].typ, out[k].card, out[k].data_size)

\* Entry k of the index is for container k, and its payload, which ends by `bound`,
\* is where it says.
Delivered(k, bound) ==
  /\ index[k].key = out[k].key /\ index[k].typ = out[k].typ
  /\ index[k].cardinality = out[k].card /\ index[k].data_offset \in Nat
  /\ Segment(out[k].key, data_base + index[k].data_offset, out[k].data_size) \in mem
  /\ data_base + index[k].data_offset + out[k].data_size <= bound

MovedInv ==
  /\ phase \in {"layout", "fold", "finalize"} => index = << >>
  /\ phase = "compact" => Len(index) = pos - 1 /\ \A k \in 1 .. pos - 1 : Delivered(k, prev_end)

RInv == IInv /\ SizedInv /\ MovedInv

LEMMA FormSized ==
  ASSUME NEW f \in Forms
  PROVE  f.card \in Cardinalities /\ Sized(f.typ, f.card, f.size)
<1>1. WellFormed(f)
  BY PlansAssumption
<1>2. f.card \in Cardinalities
  BY DEF Cardinalities
<1> QED
  BY <1>1, <1>2 DEF WellFormed, Sized

\* What record appends is sized if what it is given is.
LEMMA RecordSized ==
  ASSUME TypeOK, NEW i \in 1 .. NumSlots, NEW side \in {0, 1}, off_of(i, side) \in Nat,
         NEW f, f.typ \in {CT_ARRAY, CT_BITMAP, CT_RUN}, f.card \in Nat, f.size \in Nat,
         record(i, f, side), f.card \in Cardinalities, Sized(f.typ, f.card, f.size),
         \A k \in 1 .. Len(out) :
           out[k].card \in Cardinalities /\ Sized(out[k].typ, out[k].card, out[k].data_size)
  PROVE  \A k \in 1 .. Len(out') :
           out'[k].card \in Cardinalities /\ Sized(out'[k].typ, out'[k].card, out'[k].data_size)
<1>1. \A k \in 1 .. Len(out') :
        \/ k \in 1 .. Len(out) /\ out'[k] = out[k]
        \/ k = Len(out) + 1 /\ out'[k] = entry(i, f, side)
  BY RecordStep
<1>2. LET e == entry(i, f, side) IN e.card = f.card /\ e.typ = f.typ /\ e.data_size = f.size
  BY DEF entry
<1> QED
  BY <1>1, <1>2

LEMMA SizedFrame ==
  ASSUME SizedInv, UNCHANGED << plan, state, out >>
  PROVE  SizedInv'
BY DEF SizedInv, NumSlots, Cardinalities

LEMMA SizedStep ==
  ASSUME IInv, SizedInv, Next
  PROVE  SizedInv'
<1>1. CASE LayoutSlot \/ LayoutDone \/ FoldDone \/ CompactNext \/ Finish
  BY <1>1, SizedFrame DEF LayoutSlot, LayoutDone, FoldDone, CompactNext, Finish, foldVars, layoutVars
<1>2. ASSUME NEW i \in 1 .. NumSlots, NEW f \in Forms, FoldKey(i, f)
      PROVE  SizedInv'
  <2>1. record(i, f, 0) /\ UNCHANGED << plan, state >> /\ phase # "layout"
    BY <1>2 DEF FoldKey, layoutVars
  <2>2. off_of(i, 0) \in Nat
    BY <2>1, Inside DEF IInv
  <2>3. \A k \in 1 .. Len(out') :
          out'[k].card \in Cardinalities /\ Sized(out'[k].typ, out'[k].card, out'[k].data_size)
    BY <2>1, <2>2, FormFacts, FormSized, RecordSized DEF IInv, SizedInv
  <2> QED
    BY <2>1, <2>3 DEF SizedInv, NumSlots, Cardinalities
<1>3. ASSUME NEW i \in 1 .. NumSlots, NEW f \in Forms, NEW side,
             state' = [state EXCEPT ![i] = [typ |-> f.typ, side |-> side, card |-> f.card, size |-> f.size]],
             UNCHANGED << plan, out >>
      PROVE  SizedInv'
  <2>1. f.card \in Cardinalities /\ Sized(f.typ, f.card, f.size)
    BY FormSized
  <2>2. DOMAIN state = 1 .. NumSlots
    BY DEF IInv, TypeOK
  <2>3. ASSUME NEW k \in 1 .. NumSlots, state'[k].typ # UNSEEDED
        PROVE  state'[k].card \in Cardinalities /\ Sized(state'[k].typ, state'[k].card, state'[k].size)
    <3>1. CASE k = i
      BY <1>3, <2>1, <2>2, <3>1
    <3>2. CASE k # i
      <4>1. state'[k] = state[k]
        BY <1>3, <2>2, <3>2
      <4> QED
        BY <2>3, <4>1 DEF SizedInv
    <3> QED
      BY <3>1, <3>2
  <2> QED
    BY <1>3, <2>3 DEF SizedInv, NumSlots, Cardinalities
<1>4. CASE Fold
  <2>1. PICK i \in 1 .. NumSlots, f \in Forms :
          \/ FoldKey(i, f)
          \/ SeedSlot(i, f)
          \/ \E merge \in BOOLEAN : ApplySlot(i, f, merge)
    BY <1>4 DEF Fold
  <2>2. CASE FoldKey(i, f)
    BY <1>2, <2>2
  <2>3. CASE SeedSlot(i, f)
    BY <1>3, <2>3 DEF SeedSlot, layoutVars
  <2>4. CASE \E merge \in BOOLEAN : ApplySlot(i, f, merge)
    BY <1>3, <2>4 DEF ApplySlot, layoutVars
  <2> QED
    BY <2>1, <2>2, <2>3, <2>4
<1>5. CASE FinalizeSlot
  <2> DEFINE st == state[fin]
  <2>1. /\ fin <= NumSlots /\ UNCHANGED << plan, state >> /\ phase # "layout"
        /\ IF st.typ = UNSEEDED THEN UNCHANGED << out, total_card >> ELSE record(fin, st, st.side)
    BY <1>5 DEF FinalizeSlot, layoutVars
  <2>2. CASE st.typ = UNSEEDED
    BY <2>1, <2>2, SizedFrame
  <2>3. CASE st.typ # UNSEEDED
    <3>0. fin \in 1 .. NumSlots
      <4>1. NumSlots \in Nat
        BY PlanFacts DEF IInv
      <4> QED
        BY <2>1, <4>1 DEF IInv, TypeOK
    <3>1. fin \in 1 .. NumSlots /\ st \in [typ : {CT_ARRAY, CT_BITMAP, CT_RUN, UNSEEDED},
                                          side : {0, 1}, card : Nat, size : Nat]
      BY <3>0 DEF IInv, TypeOK
    <3>2. /\ st.typ \in {CT_ARRAY, CT_BITMAP, CT_RUN} /\ st.side \in {0, 1}
          /\ st.card \in Nat /\ st.size \in Nat
      BY <2>3, <3>1
    <3>3. st.card \in Cardinalities /\ Sized(st.typ, st.card, st.size)
      BY <2>3, <3>1 DEF SizedInv
    <3>4. off_of(fin, st.side) \in Nat
      BY <2>1, <3>1, <3>2, Inside DEF IInv
    <3>5. record(fin, st, st.side)
      BY <2>1, <2>3
    <3> HIDE DEF st
    <3>6. \A k \in 1 .. Len(out') :
            out'[k].card \in Cardinalities /\ Sized(out'[k].typ, out'[k].card, out'[k].data_size)
      BY <3>1, <3>2, <3>3, <3>4, <3>5, RecordSized DEF IInv, SizedInv
    <3> QED
      BY <2>1, <3>6 DEF SizedInv, NumSlots, Cardinalities
  <2> QED
    BY <2>2, <2>3
<1>6. CASE \E compact \in BOOLEAN : Serialize(compact)
  <2>1. PICK compact \in BOOLEAN : Serialize(compact)
    BY <1>6
  <2>2. /\ out' = (IF compact THEN [k \in 1 .. Len(out) |-> Transcoded(out[k])] ELSE out)
        /\ UNCHANGED << plan, state >>
    BY <2>1, AlreadySorted DEF Serialize, layoutVars
  <2>3. CASE ~ compact
    BY <2>2, <2>3, SizedFrame
  <2>4. CASE compact
    <3>1. out' = [k \in 1 .. Len(out) |-> Transcoded(out[k])] /\ Len(out) \in Nat
      BY <2>2, <2>4 DEF IInv, TypeOK
    <3>2. ASSUME NEW k \in 1 .. Len(out)
          PROVE  /\ Transcoded(out[k]).card = out[k].card
                 /\ Sized(Transcoded(out[k]).typ, Transcoded(out[k]).card, Transcoded(out[k]).data_size)
      <4>1. out \in Seq(Recorded)
        BY DEF IInv, TypeOK, Recorded
      <4>2. out[k] \in Recorded /\ Sized(out[k].typ, out[k].card, out[k].data_size)
        BY <4>1, ElementOfSeq DEF SizedInv
      <4> DEFINE e == out[k]
      <4>3. e \in Recorded /\ Sized(e.typ, e.card, e.data_size)
        BY <4>2
      <4> HIDE DEF e
      <4>4. Transcoded(e).card = e.card /\ Sized(Transcoded(e).typ, Transcoded(e).card, Transcoded(e).data_size)
        BY <4>3 DEF Transcoded, Recorded, Sized, CT_ARRAY, CT_BITMAP
      <4> QED
        BY <4>4 DEF e
    <3>3. DOMAIN out' = 1 .. Len(out) /\ Len(out') = Len(out)
      BY <3>1
    <3>4. \A k \in 1 .. Len(out') :
            out'[k].card \in Cardinalities /\ Sized(out'[k].typ, out'[k].card, out'[k].data_size)
      BY <3>1, <3>2, <3>3 DEF SizedInv
    <3> QED
      BY <2>2, <3>4 DEF SizedInv, NumSlots, Cardinalities
  <2> QED
    BY <2>3, <2>4
<1> QED
  BY <1>1, <1>4, <1>5, <1>6 DEF Next

\* What one compaction step writes besides the payload ends by its destination,
\* and index entries end before the data section.
LEMMA CompactFacts ==
  ASSUME IInv, CapacitiesBounded, phase = "compact", pos <= Len(out)
  PROVE  /\ \A r \in index_entry_ranges(Len(out), pos) : r[2] \in Nat /\ r[2] <= data_base
         /\ data_base \in Nat /\ prev_end \in Nat /\ data_base <= prev_end
         /\ Dst \in Nat /\ prev_end <= Dst /\ DataOffset \in Nat /\ Dst = data_base + DataOffset
         /\ out[pos] \in Recorded /\ Dst <= out[pos].off
         /\ Payload(out[pos]) \in mem
<1>1. /\ Dst \in Nat /\ prev_end <= Dst /\ DataOffset \in Nat /\ Dst = data_base + DataOffset
      /\ out[pos] \in Recorded /\ out[pos].slot \in 1 .. NumSlots
      /\ Dst <= slot_off[out[pos].slot] /\ slot_off[out[pos].slot] <= out[pos].off
  BY DstFacts
<1>2. slot_off[out[pos].slot] \in Nat
  BY <1>1, Inside DEF IInv
<1>3. Dst <= out[pos].off
  BY <1>1, <1>2 DEF Recorded
<1>4. /\ Len(out) \in Nat /\ pos \in 1 .. Len(out) /\ pos \in pos .. Len(out)
      /\ data_base \in Nat /\ prev_end \in Nat /\ dc \in Nat
      /\ prev_end = data_base + dc
      /\ data_base = data_section_off(Len(out), has_type(out, CT_BITMAP))
  BY DEF IInv, TypeOK, CompactInv
<1>5. HEADER_SIZE + index_size(Len(out)) <= data_base
  <2>1. has_type(out, CT_BITMAP) \in BOOLEAN
    BY DEF has_type
  <2> QED
    BY <1>4, <2>1, DataSection
<1>6. HEADER_SIZE + index_size(Len(out)) \in Nat
  BY <1>4 DEF HEADER_SIZE, index_size
<1>7. ASSUME NEW r \in index_entry_ranges(Len(out), pos)
      PROVE  r[2] \in Nat /\ r[2] <= data_base
  <2>1. r[2] \in Nat /\ r[2] <= HEADER_SIZE + index_size(Len(out))
    BY <1>4, EntryRanges
  <2> QED
    BY <2>1, <1>4, <1>5, <1>6
<1>8. Payload(out[pos]) \in mem
  BY <1>4 DEF IInv, UnreadIntact
<1>9. data_base <= prev_end
  BY <1>4
<1> QED
  BY <1>1, <1>3, <1>4, <1>7, <1>8, <1>9

\* A compaction step delivers its payload and leaves those delivered before it.
LEMMA MovedCompact ==
  ASSUME IInv, CapacitiesBounded, MovedInv, CompactNext
  PROVE  MovedInv'
<1> DEFINE e      == out[pos]
           ranges == index_entry_ranges(Len(out), pos) \cup gap_fill(prev_end, Dst)
           filled == ClobberAll(mem, ranges)
           entry_at == [key |-> e.key, typ |-> e.typ,
                        cardinality |-> e.card, data_offset |-> DataOffset]
           end    == Dst + e.data_size
           there  == Segment(e.key, Dst, e.data_size)
<1>1. /\ phase = "compact" /\ phase' = phase /\ pos <= Len(out) /\ pos' = pos + 1
      /\ index' = Append(index, entry_at)
      /\ mem' = (IF Dst = e.off THEN filled ELSE Moved(filled, e))
      /\ prev_end' = end
      /\ UNCHANGED << out, data_base >>
  BY DEF CompactNext, foldVars
<1>2. /\ \A r \in index_entry_ranges(Len(out), pos) : r[2] \in Nat /\ r[2] <= data_base
      /\ data_base \in Nat /\ prev_end \in Nat /\ data_base <= prev_end
      /\ Dst \in Nat /\ prev_end <= Dst /\ DataOffset \in Nat /\ Dst = data_base + DataOffset
      /\ e \in Recorded /\ Dst <= e.off
      /\ Payload(e) \in mem
  BY <1>1, CompactFacts
<1>3. /\ pos \in Nat /\ out \in Seq(Recorded) /\ Len(out) \in Nat /\ pos \in 1 .. Len(out)
      /\ index \in Seq([key : Nat, typ : {CT_ARRAY, CT_BITMAP, CT_RUN},
                        cardinality : Nat, data_offset : Nat])
      /\ Len(index) = pos - 1
  BY <1>1 DEF IInv, TypeOK, Recorded, MovedInv
<1>4. e.off \in Nat /\ e.data_size \in Nat /\ end \in Nat /\ Dst <= end
  <2>1. e.off \in Nat /\ e.data_size \in Nat
    BY <1>2 DEF Recorded
  <2> HIDE DEF e
  <2> QED
    BY <2>1, <1>2
<1>5. /\ Payload(e).lo = e.off /\ there = [id |-> e.key, lo |-> Dst, hi |-> end]
      /\ Dst = e.off => Payload(e) = there
  BY DEF Payload, Segment
<1>6. /\ Len(index') = pos /\ index'[pos] = entry_at
      /\ \A k \in 1 .. pos - 1 : index'[k] = index[k]
  <2> HIDE DEF entry_at
  <2>1. Len(index') = Len(index) + 1 /\ index'[Len(index) + 1] = entry_at
        /\ \A k \in 1 .. Len(index) : index'[k] = index[k]
    BY <1>1, <1>3
  <2> QED
    BY <1>3, <2>1
<1>7. /\ entry_at.key = e.key /\ entry_at.typ = e.typ
      /\ entry_at.cardinality = e.card /\ entry_at.data_offset = DataOffset
  OBVIOUS
<1> HIDE DEF e, entry_at, end
<1>8. there \in mem'
  <2>1. \A r \in ranges : r[2] \in Nat /\ r[2] <= Dst
    BY <1>2 DEF gap_fill
  <2> DEFINE p == Payload(e)
  <2>2. p \in mem /\ p.lo \in Nat /\ Dst <= p.lo
    BY <1>2, <1>4, <1>5
  <2> HIDE DEF p, ranges
  <2>3. p \in filled
    BY <1>2, <2>1, <2>2, WritesBelow
  <2> HIDE DEF filled, there
  <2>4. CASE Dst = e.off
    BY <1>1, <1>5, <2>3, <2>4 DEF p
  <2>5. CASE Dst # e.off
    BY <1>1, <2>3, <2>5 DEF p, Moved, there
  <2> QED
    BY <2>4, <2>5
<1>9. ASSUME NEW k \in 1 .. pos - 1
      PROVE  (Delivered(k, prev_end))'
  <2> DEFINE at == data_base + index[k].data_offset
             s  == Segment(out[k].key, at, out[k].data_size)
  <2>1. Delivered(k, prev_end) /\ k \in Nat /\ k \in 1 .. Len(out) /\ k \in 1 .. Len(index)
    BY <1>1, <1>3 DEF MovedInv
  <2>2. out[k] \in Recorded
    BY <1>3, <2>1, ElementOfSeq
  <2>3. /\ at \in Nat /\ data_base <= at /\ out[k].data_size \in Nat
        /\ at + out[k].data_size <= prev_end /\ s \in mem
    <3>1. out[k].data_size \in Nat
      BY <2>2 DEF Recorded
    <3>2. /\ index[k].data_offset \in Nat /\ s \in mem
          /\ at + out[k].data_size <= prev_end
      BY <2>1 DEF Delivered
    <3>3. at \in Nat /\ data_base <= at
      BY <1>2, <3>2
    <3> QED
      BY <3>1, <3>2, <3>3
  <2>4. s.lo = at /\ s.hi = at + out[k].data_size
    BY DEF Segment
  <2> HIDE DEF at, s
  <2>5. s.lo \in Nat /\ data_base <= s.lo /\ s.hi \in Nat /\ s.hi <= prev_end
    BY <2>3, <2>4
  <2>6. \A r \in ranges : ~ Overlaps(s, r[1], r[2])
    <3> TAKE r \in ranges
    <3>1. CASE r \in index_entry_ranges(Len(out), pos)
      <4>1. r[2] \in Nat /\ r[2] <= data_base
        BY <1>2, <3>1
      <4> QED
        BY <1>2, <2>5, <4>1 DEF Overlaps
    <3>2. CASE r \in gap_fill(prev_end, Dst)
      <4>1. r[1] = prev_end
        BY <3>2 DEF gap_fill
      <4> QED
        BY <1>2, <2>5, <4>1 DEF Overlaps
    <3> QED
      BY <3>1, <3>2
  <2> HIDE DEF ranges
  <2>7. s \in filled
    BY <2>3, <2>6 DEF ClobberAll
  <2>8. ~ Overlaps(s, Dst, end)
    BY <1>2, <1>4, <2>5 DEF Overlaps
  <2> HIDE DEF filled
  <2>9. s \in mem'
    BY <1>1, <2>7, <2>8 DEF Moved, Clobber, end
  <2>10. at + out[k].data_size <= end
    BY <1>2, <1>4, <2>3
  <2>11. index'[k] = index[k]
    BY <1>6
  <2> QED
    BY <1>1, <2>1, <2>9, <2>10, <2>11 DEF Delivered, at, s
<1>10. PICK p \in Nat : p = pos
  BY <1>3
<1>11. (Delivered(p, prev_end))'
  <2>1. out'[p] = e /\ index'[p] = entry_at /\ data_base' = data_base
    BY <1>1, <1>6, <1>10 DEF e
  <2>2. /\ index'[p].key = e.key /\ index'[p].typ = e.typ
        /\ index'[p].cardinality = e.card /\ index'[p].data_offset = DataOffset
    BY <2>1, <1>7
  <2>3. Segment(e.key, data_base + DataOffset, e.data_size) \in mem'
    BY <1>2, <1>8
  <2>4. data_base + DataOffset + e.data_size <= prev_end'
    BY <1>1, <1>2, <1>4 DEF end
  <2> QED
    BY <1>2, <2>1, <2>2, <2>3, <2>4 DEF Delivered
<1>12. Len(index') = pos' - 1
  BY <1>1, <1>3, <1>6
<1>13. \A k \in 1 .. pos' - 1 : (Delivered(k, prev_end))'
  <2>1. \A k \in 1 .. pos' - 1 : k = p \/ k \in 1 .. pos - 1
    BY <1>1, <1>3, <1>10
  <2> QED
    BY <1>9, <1>11, <2>1
<1> QED
  BY <1>1, <1>12, <1>13 DEF MovedInv

LEMMA MovedStep ==
  ASSUME IInv, CapacitiesBounded, MovedInv, Next
  PROVE  MovedInv'
<1>1. CASE LayoutSlot \/ LayoutDone \/ FoldDone \/ FinalizeSlot
  BY <1>1 DEF LayoutSlot, LayoutDone, FoldDone, FinalizeSlot, compactVars, MovedInv
<1>2. CASE Fold
  BY <1>2 DEF Fold, FoldKey, SeedSlot, ApplySlot, compactVars, layoutVars, MovedInv
<1>3. CASE \E compact \in BOOLEAN : Serialize(compact)
  <2>1. /\ phase \in {"fold", "finalize"} /\ phase' = "compact"
        /\ UNCHANGED << pos, index >>
    BY <1>3 DEF Serialize
  <2>2. pos = 1 /\ index = << >>
    BY <2>1 DEF MovedInv, IInv, CompactInv
  <2> QED
    BY <2>1, <2>2 DEF MovedInv
<1>4. CASE CompactNext
  BY <1>4, MovedCompact
<1>5. CASE Finish
  BY <1>5 DEF Finish, MovedInv
<1> QED
  BY <1>1, <1>2, <1>3, <1>4, <1>5 DEF Next

----------------------------------------------------------------------------
\* What the refinement maps the arena to.

StoreKeys ==
  UNION { { s.key : s \in { p.slots[i] : i \in 1 .. Len(p.slots) } } : p \in Plans }

Row(e) == [key |-> e.key, card |-> e.card]

RecOf(s) == { [key |-> e.key, card |-> e.card] : e \in { s[k] : k \in 1 .. Len(s) } }

Handed ==
  IF phase = "done"
    THEN << { [key |-> e.key, card |-> e.cardinality] :
                e \in { index[k] : k \in { q \in 1 .. Len(index) : Present(index[q]) } } } >>
    ELSE << >>

\* What a step of the arena may look like to the store.
Recording ==
  \E k \in StoreKeys, c \in Cardinalities :
    /\ Handed = << >>
    /\ \A r \in RecOf(out) : r.key < k
    /\ RecOf(out') = RecOf(out) \cup {[key |-> k, card |-> c]}
    /\ Handed' = Handed

HandingOut ==
  /\ Handed = << >>
  /\ Handed' = << RecOf(out) >>
  /\ RecOf(out') = RecOf(out)

Unseen == RecOf(out') = RecOf(out) /\ Handed' = Handed

LEMMA RowsOf ==
  ASSUME NEW s
  PROVE  \A x : x \in RecOf(s) <=> \E k \in 1 .. Len(s) : x = Row(s[k])
BY DEF RecOf, Row

\* Sequences with the same rows record the same containers.
LEMMA SameRows ==
  ASSUME NEW s, NEW t, Len(s) = Len(t), \A k \in 1 .. Len(s) : Row(s[k]) = Row(t[k])
  PROVE  RecOf(s) = RecOf(t)
<1>1. \A x : x \in RecOf(s) <=> x \in RecOf(t)
  BY RowsOf
<1> QED
  BY <1>1

LEMMA PlannedKey ==
  ASSUME TypeOK, NEW i \in 1 .. NumSlots
  PROVE  Key(i) \in StoreKeys
BY DEF TypeOK, StoreKeys, Key, NumSlots

\* Recording the container of a slot, when no slot from this one on has
\* recorded any: the store records it, or nothing if it is empty.
LEMMA RecordMaps ==
  ASSUME RInv, phase # "done", phase' # "done",
         NEW i \in 1 .. NumSlots, NEW side \in {0, 1}, off_of(i, side) \in Nat,
         NEW f, f.typ \in {CT_ARRAY, CT_BITMAP, CT_RUN}, f.card \in Cardinalities,
         f.card \in Nat, f.size \in Nat,
         record(i, f, side), \A k \in 1 .. Len(out) : out[k].slot < i
  PROVE  Recording \/ Unseen
<1>1. Handed = << >> /\ Handed' = << >>
  BY DEF Handed
<1>2. CASE f.card = 0
  BY <1>1, <1>2 DEF record, Unseen
<1>3. CASE f.card # 0
  <2> DEFINE e == entry(i, f, side)
  <2>1. out \in Seq(Recorded) /\ e \in Recorded
    BY PlanFacts DEF RInv, IInv, TypeOK, Recorded, entry
  <2>2. out' = Append(out, e) /\ Row(e) = [key |-> Key(i), card |-> f.card]
    BY <1>3 DEF record, Row, entry
  <2> HIDE DEF e
  <2>3. /\ Len(out') = Len(out) + 1 /\ Len(out) \in Nat
        /\ out'[Len(out) + 1] = e
        /\ \A k \in 1 .. Len(out) : out'[k] = out[k]
    BY <2>1, <2>2
  <2>4. \A k : k \in 1 .. Len(out') <=> k \in 1 .. Len(out) \/ k = Len(out) + 1
    BY <2>3
  <2>5. RecOf(out') = RecOf(out) \cup {[key |-> Key(i), card |-> f.card]}
    <3>1. \A x : x \in RecOf(out') <=> x \in RecOf(out) \/ x = Row(e)
      BY <2>3, <2>4, RowsOf
    <3> QED
      BY <2>2, <3>1
  <2>6. ASSUME NEW r \in RecOf(out)
        PROVE  r.key < Key(i)
    <3>1. PICK k \in 1 .. Len(out) : r = Row(out[k])
      BY RowsOf
    <3>2. out[k] \in Recorded
      BY <2>1, <3>1, ElementOfSeq
    <3>3. out[k].slot \in 1 .. NumSlots /\ out[k].slot < i /\ out[k].key = Key(out[k].slot)
      BY <3>1, <3>2 DEF Recorded, RInv, IInv, FoldInv, Placed
    <3>4. Key(out[k].slot) < Key(i)
      BY <3>3, PlanFacts DEF RInv, IInv
    <3> QED
      BY <3>1, <3>3, <3>4 DEF Row
  <2>7. Key(i) \in StoreKeys
    BY PlannedKey DEF RInv, IInv
  <2> QED
    BY <1>1, <2>5, <2>6, <2>7 DEF Recording
<1> QED
  BY <1>2, <1>3

\* The record that ends key i of a key-major fold.
LEMMA FoldKeyMaps ==
  ASSUME RInv, NEW i \in 1 .. NumSlots, NEW f \in Forms, FoldKey(i, f)
  PROVE  Recording \/ Unseen
<1>1. /\ phase = "fold" /\ phase' = "fold" /\ ~ is_double /\ i >= next_slot
      /\ record(i, f, 0)
  BY DEF FoldKey
<1>2. off_of(i, 0) \in Nat
  BY <1>1, Inside DEF RInv, IInv
<1>3. \A k \in 1 .. Len(out) : out[k].slot < i
  <2> TAKE k \in 1 .. Len(out)
  <2>1. out \in Seq(Recorded) /\ out[k].slot < next_slot
    BY <1>1 DEF RInv, IInv, TypeOK, FoldInv, NextRecord, Recorded
  <2>2. out[k] \in Recorded
    BY <2>1, ElementOfSeq
  <2>3. out[k].slot \in 1 .. NumSlots
    BY <2>2 DEF Recorded
  <2>4. NumSlots \in Nat
    BY PlanFacts DEF RInv, IInv
  <2>5. next_slot \in 1 .. NumSlots + 1
    BY DEF RInv, IInv, TypeOK
  <2> QED
    BY <1>1, <2>1, <2>3, <2>4, <2>5
<1> QED
  BY <1>1, <1>2, <1>3, FormFacts, FormSized, RecordMaps

LEMMA FinalizeMaps ==
  ASSUME RInv, FinalizeSlot
  PROVE  Recording \/ Unseen
<1> DEFINE st == state[fin]
<1>1. /\ phase = "finalize" /\ phase' = "finalize" /\ is_double /\ fin <= NumSlots
      /\ IF st.typ = UNSEEDED THEN UNCHANGED << out, total_card >> ELSE record(fin, st, st.side)
  BY DEF FinalizeSlot, RInv, IInv, FoldInv
<1>2. CASE st.typ = UNSEEDED
  BY <1>1, <1>2 DEF Unseen, Handed
<1>3. CASE st.typ # UNSEEDED
  <2>1. NumSlots \in Nat
    BY PlanFacts DEF RInv, IInv
  <2>2. fin \in 1 .. NumSlots
    BY <1>1, <2>1 DEF RInv, IInv, TypeOK
  <2>3. st \in [typ : {CT_ARRAY, CT_BITMAP, CT_RUN, UNSEEDED},
                side : {0, 1}, card : Nat, size : Nat]
    BY <2>2 DEF RInv, IInv, TypeOK
  <2>4. /\ st.typ \in {CT_ARRAY, CT_BITMAP, CT_RUN} /\ st.side \in {0, 1}
        /\ st.card \in Nat /\ st.size \in Nat
    BY <1>3, <2>3
  <2>5. st.card \in Cardinalities
    BY <1>3, <2>2 DEF RInv, SizedInv
  <2>6. off_of(fin, st.side) \in Nat
    BY <1>1, <2>2, <2>4, Inside DEF RInv, IInv
  <2>7. \A k \in 1 .. Len(out) : out[k].slot < fin
    BY <1>1 DEF RInv, IInv, FoldInv, NextRecord
  <2>8. record(fin, st, st.side)
    BY <1>1, <1>3
  <2> HIDE DEF st
  <2> QED
    BY <1>1, <2>2, <2>4, <2>5, <2>6, <2>7, <2>8, RecordMaps
<1> QED
  BY <1>2, <1>3

\* Rewriting a sparse bitmap as an array changes neither key nor cardinality.
LEMMA SerializeMaps ==
  ASSUME RInv, NEW compact \in BOOLEAN, Serialize(compact)
  PROVE  Unseen
<1>1. /\ phase \in {"fold", "finalize"} /\ phase' = "compact"
      /\ out' = (IF compact THEN [k \in 1 .. Len(out) |-> Transcoded(out[k])] ELSE out)
  BY AlreadySorted DEF Serialize, RInv
<1>2. out \in Seq(Recorded) /\ Len(out) \in Nat
  BY DEF RInv, IInv, TypeOK, Recorded
<1>3. RecOf(out') = RecOf(out)
  <2>1. CASE ~ compact
    BY <1>1, <2>1
  <2>2. CASE compact
    <3>1. out' = [k \in 1 .. Len(out) |-> Transcoded(out[k])]
      BY <1>1, <2>2
    <3>2. Len(out') = Len(out)
      BY <1>2, <3>1
    <3>3. ASSUME NEW k \in 1 .. Len(out)
          PROVE  Row(out[k]) = Row(out'[k])
      <4>1. PICK e \in Recorded : e = out[k]
        BY <1>2, ElementOfSeq
      <4>2. Row(Transcoded(e)) = Row(e)
        BY DEF Row, Transcoded, Recorded
      <4> QED
        BY <3>1, <4>1, <4>2
    <3> QED
      BY <3>2, <3>3, SameRows
  <2> QED
    BY <2>1, <2>2
<1>4. Handed = << >> /\ Handed' = << >>
  BY <1>1 DEF Handed
<1> QED
  BY <1>3, <1>4 DEF Unseen

\* Nothing the last step writes reaches a payload: every index entry finds its.
LEMMA AllPresent ==
  ASSUME RInv, Finish
  PROVE  /\ Len(index') = Len(out)
         /\ \A k \in 1 .. Len(out) :
              /\ index'[k].key = out[k].key /\ index'[k].cardinality = out[k].card
              /\ (Present(index[k]))'
<1> DEFINE front == {<< 0, HEADER_SIZE >>,
                     << HEADER_SIZE + index_size(Len(out)), data_base >>}
<1>1. /\ phase = "compact" /\ pos > Len(out) /\ mem' = ClobberAll(mem, front)
      /\ UNCHANGED << out, index, data_base >>
  BY DEF Finish, foldVars
<1>2. /\ Len(out) \in Nat /\ out \in Seq(Recorded) /\ pos \in 1 .. Len(out) + 1
      /\ data_base \in Nat /\ prev_end \in Nat
      /\ data_base = data_section_off(Len(out), has_type(out, CT_BITMAP))
  BY <1>1 DEF RInv, IInv, TypeOK, CompactInv, Recorded
<1>3. pos = Len(out) + 1 /\ Len(index) = Len(out)
      /\ \A k \in 1 .. Len(out) : Delivered(k, prev_end)
  <2>1. pos = Len(out) + 1
    BY <1>1, <1>2
  <2>2. pos - 1 = Len(out)
    BY <1>2, <2>1
  <2> QED
    BY <1>1, <2>1, <2>2 DEF RInv, MovedInv
<1>4. \A r \in front : r[2] \in Nat /\ r[2] <= data_base
  <2>1. has_type(out, CT_BITMAP) \in BOOLEAN
    BY DEF has_type
  <2>2. HEADER_SIZE + index_size(Len(out)) <= data_base
    BY <1>2, <2>1, DataSection
  <2>3. HEADER_SIZE \in Nat /\ HEADER_SIZE <= data_base
    BY <1>2, <2>2 DEF HEADER_SIZE, index_size
  <2> QED
    BY <1>2, <2>3
<1> HIDE DEF front
<1>5. ASSUME NEW k \in 1 .. Len(out)
      PROVE  /\ index'[k].key = out[k].key /\ index'[k].cardinality = out[k].card
             /\ (Present(index[k]))'
  <2>1. out[k] \in Recorded /\ Delivered(k, prev_end)
    BY <1>2, <1>3, ElementOfSeq
  <2>2. Sized(out[k].typ, out[k].card, out[k].data_size)
    BY DEF RInv, SizedInv
  <2>3. PICK e : e = index[k]
    OBVIOUS
  <2>4. PICK c \in Recorded : c = out[k]
    BY <2>1
  <2>5. /\ e.key = c.key /\ e.typ = c.typ /\ e.cardinality = c.card
        /\ e.data_offset \in Nat /\ c.data_size \in Nat /\ c.card \in Nat
        /\ c.typ \in {CT_ARRAY, CT_BITMAP, CT_RUN}
        /\ Segment(c.key, data_base + e.data_offset, c.data_size) \in mem
        /\ Sized(c.typ, c.card, c.data_size)
    BY <2>1, <2>2, <2>3, <2>4 DEF Delivered, Recorded
  <2> DEFINE at == data_base + e.data_offset
             s  == Segment(c.key, at, c.data_size)
  <2>6. s.id = c.key /\ s.lo = at /\ s.hi = at + c.data_size /\ s \in mem
    BY <2>5 DEF Segment
  <2>7. at \in Nat /\ data_base <= at
    BY <1>2, <2>5
  <2> HIDE DEF at, s
  <2>8. s \in mem'
    BY <1>1, <1>2, <1>4, <2>6, <2>7, WritesBelow
  <2>9. e.typ # CT_RUN => c.data_size = (Entry_size(e))'
    <3>1. CASE c.typ = CT_ARRAY
      <4>1. stored_bytes(e.typ, e.cardinality, 0) = c.card * 2
        BY <2>5, <3>1 DEF stored_bytes, CT_ARRAY, CT_BITMAP, CT_RUN
      <4>2. c.data_size = c.card * 2
        BY <2>5, <3>1 DEF Sized
      <4> QED
        BY <2>5, <3>1, <4>1, <4>2 DEF Entry_size, CT_ARRAY, CT_RUN
    <3>2. CASE c.typ = CT_BITMAP
      <4>1. stored_bytes(e.typ, e.cardinality, 0) = BITMAP_BYTES
        BY <2>5, <3>2 DEF stored_bytes, CT_ARRAY, CT_BITMAP, CT_RUN
      <4>2. c.data_size = BITMAP_BYTES
        BY <2>5, <3>2 DEF Sized
      <4> QED
        BY <2>5, <3>2, <4>1, <4>2 DEF Entry_size, CT_BITMAP, CT_RUN
    <3> QED
      BY <2>5, <3>1, <3>2
  <2>10. (Present(e))'
    <3>1. data_base' + e.data_offset = at
      BY <1>1 DEF at
    <3> QED
      BY <2>5, <2>6, <2>8, <2>9, <3>1 DEF Present
  <2> QED
    BY <1>1, <2>3, <2>4, <2>5, <2>10 DEF Present, Entry_size
<1> QED
  BY <1>1, <1>3, <1>5

\* The result decodes to what was recorded.
LEMMA FinishMaps ==
  ASSUME RInv, Finish
  PROVE  HandingOut
<1>1. phase = "compact" /\ phase' = "done" /\ out' = out
  BY DEF Finish, foldVars
<1>2. /\ Len(index') = Len(out)
      /\ \A k \in 1 .. Len(out) :
           /\ index'[k].key = out[k].key /\ index'[k].cardinality = out[k].card
           /\ (Present(index[k]))'
  BY AllPresent
<1> DEFINE decoded == { [key |-> e.key, card |-> e.cardinality] :
                          e \in { index[k] : k \in { q \in 1 .. Len(index) : Present(index[q]) } } }
<1>3. \A x : x \in decoded' <=>
        \E k \in 1 .. Len(out) : x = [key |-> index'[k].key, card |-> index'[k].cardinality]
  BY <1>2
<1> HIDE DEF decoded
<1>4. \A x : x \in decoded' <=> x \in RecOf(out)
  BY <1>2, <1>3, RowsOf DEF Row
<1>5. decoded' = RecOf(out)
  BY <1>4
<1>6. Handed = << >> /\ Handed' = << decoded' >>
  BY <1>1 DEF Handed, decoded
<1> QED
  BY <1>1, <1>5, <1>6 DEF HandingOut

\* Every step of the arena is a step of the store or invisible to it.
LEMMA StepMaps ==
  ASSUME RInv, [Next]_vars
  PROVE  Recording \/ HandingOut \/ Unseen
<1>1. CASE UNCHANGED vars
  <2>1. UNCHANGED << phase, out, index, mem, data_base >>
    BY <1>1 DEF vars, foldVars, compactVars
  <2> QED
    BY <2>1 DEF Unseen, Handed, Present, Entry_size
<1>2. CASE LayoutSlot \/ LayoutDone \/ FoldDone \/ CompactNext
  BY <1>2 DEF LayoutSlot, LayoutDone, FoldDone, CompactNext, foldVars, Unseen, Handed
<1>3. CASE Fold
  <2>1. PICK i \in 1 .. NumSlots, f \in Forms :
          \/ FoldKey(i, f)
          \/ SeedSlot(i, f)
          \/ \E merge \in BOOLEAN : ApplySlot(i, f, merge)
    BY <1>3 DEF Fold
  <2>2. CASE FoldKey(i, f)
    BY <2>2, FoldKeyMaps
  <2>3. CASE SeedSlot(i, f) \/ \E merge \in BOOLEAN : ApplySlot(i, f, merge)
    BY <2>3 DEF SeedSlot, ApplySlot, Unseen, Handed
  <2> QED
    BY <2>1, <2>2, <2>3
<1>4. CASE FinalizeSlot
  BY <1>4, FinalizeMaps
<1>5. CASE \E compact \in BOOLEAN : Serialize(compact)
  BY <1>5, SerializeMaps
<1>6. CASE Finish
  BY <1>6, FinishMaps
<1> QED
  BY <1>1, <1>2, <1>3, <1>4, <1>5, <1>6 DEF Next

LEMMA InitRInv == Init => RInv
<1> SUFFICES ASSUME Init PROVE RInv
  OBVIOUS
<1>1. IInv
  BY InitIInv
<1>2. /\ out = << >> /\ index = << >> /\ phase = "layout"
      /\ state = [i \in 1 .. NumSlots |-> Unseeded]
  BY DEF Init, NumSlots
<1>3. \A i \in 1 .. NumSlots : state[i].typ = UNSEEDED
  BY <1>2 DEF Unseeded
<1>4. SizedInv /\ MovedInv
  BY <1>2, <1>3 DEF SizedInv, MovedInv
<1> QED
  BY <1>1, <1>4 DEF RInv

LEMMA RInductive ==
  ASSUME CapacitiesBounded
  PROVE  Spec => []RInv
<1>1. ASSUME RInv, UNCHANGED vars
      PROVE  RInv'
  <2>1. UNCHANGED << plan, state, out, phase, index, pos, prev_end, data_base, mem >>
    BY <1>1 DEF vars, layoutVars, foldVars, compactVars
  <2>2. IInv'
    BY <1>1, Stutter DEF RInv
  <2>3. SizedInv'
    BY <1>1, <2>1, SizedFrame DEF RInv
  <2>4. MovedInv'
    BY <1>1, <2>1 DEF RInv, MovedInv, Delivered
  <2> QED
    BY <2>2, <2>3, <2>4 DEF RInv
<1>2. RInv /\ [Next]_vars => RInv'
  BY <1>1, NextStep, SizedStep, MovedStep DEF RInv
<1> QED
  BY <1>2, InitRInv, PTL DEF Spec

\* The store's steps, in the arena's terms.
LEMMA StoreSteps ==
  Recording \/ HandingOut \/ Unseen => [Store!StoreNext]_(Store!storeVars)
<1>1. Recording => Store!RecordContainer
  BY DEF Recording, Store!RecordContainer, Store!NoResult, StoreKeys, Cardinalities, RecOf, Handed
<1>2. HandingOut => Store!HandOut
  BY DEF HandingOut, Store!HandOut, Store!NoResult, RecOf, Handed
<1>3. Unseen => UNCHANGED Store!storeVars
  BY DEF Unseen, Store!storeVars, RecOf, Handed
<1> QED
  BY <1>1, <1>2, <1>3 DEF Store!StoreNext

\* The arena implements the store, for every plan with capacities of at most
\* BITMAP_BYTES and every form a kernel may leave: whichever sides, transcodes
\* and moves lie between, the result the serializer finishes decodes to exactly
\* the containers the fold recorded, in ascending key order.
THEOREM ArenaIsStore ==
  ASSUME CapacitiesBounded
  PROVE  Spec => ImplementsStore
<1>1. Init => Store!StoreInit
  <2> SUFFICES ASSUME Init PROVE Store!StoreInit
    OBVIOUS
  <2>1. out = << >> /\ phase = "layout"
    BY DEF Init
  <2>2. \A x : x \notin RecOf(out)
    BY <2>1, RowsOf
  <2>3. RecOf(out) = {} /\ Handed = << >>
    BY <2>1, <2>2 DEF Handed
  <2> QED
    BY <2>3 DEF Store!StoreInit, Store!NoResult, RecOf, Handed
<1>2. RInv /\ [Next]_vars => [Store!StoreNext]_(Store!storeVars)
  BY StepMaps, StoreSteps
<1> QED
  BY <1>1, <1>2, RInductive, PTL DEF Spec, ImplementsStore, Store!StoreSpec

----------------------------------------------------------------------------
\* What a finished result holds.  Induction over the naturals, as a fact about
\* sets of them, unfolds the recursive function that adds up cardinalities.

LEMMA SetInduction ==
  ASSUME NEW S, 0 \in S, \A n \in Nat : n \in S => n + 1 \in S
  PROVE  Nat \subseteq S
<1> DEFINE missing == {n \in Nat : n \notin S}
<1>1. ASSUME missing # {} PROVE FALSE
  <2>1. missing \in SUBSET Nat
    OBVIOUS
  <2> HIDE DEF missing
  <2>2. PICK n \in missing : \A m \in missing : ~ (<< m, n >> \in OpToRel(<, Nat))
    BY <1>1, <2>1, WFMin, NatLessThanWellFounded
  <2>3. n \in Nat /\ n # 0 /\ n \notin S
    BY <2>2 DEF missing
  <2>4. n - 1 \in Nat /\ (n - 1) + 1 = n
    BY <2>3
  <2>5. n - 1 \in missing
    BY <2>3, <2>4 DEF missing
  <2>6. << n - 1, n >> \in OpToRel(<, Nat)
    BY <2>3, <2>4 DEF OpToRel
  <2> QED
    BY <2>2, <2>5, <2>6
<1> QED
  BY <1>1

\* f holds the sums of c up to n.
Sums(c, n, f) == f = [k \in 0 .. n |-> IF k = 0 THEN 0 ELSE f[k - 1] + c[k]]

LEMMA SumsExist ==
  ASSUME NEW c, NEW n \in Nat
  PROVE  \E f : Sums(c, n, f)
<1> DEFINE S == {k \in Nat : \E f : Sums(c, k, f)}
<1>1. 0 \in S
  <2>1. Sums(c, 0, [k \in 0 .. 0 |-> 0])
    BY DEF Sums
  <2> QED
    BY <2>1
<1>2. ASSUME NEW k \in Nat, k \in S
      PROVE  k + 1 \in S
  <2>1. PICK f : Sums(c, k, f)
    BY <1>2
  <2> DEFINE g == [j \in 0 .. k + 1 |-> IF j = k + 1 THEN f[k] + c[k + 1] ELSE f[j]]
  <2>2. ASSUME NEW j \in 0 .. k + 1
        PROVE  g[j] = (IF j = 0 THEN 0 ELSE g[j - 1] + c[j])
    <3>1. CASE j = k + 1
      BY <3>1
    <3>2. CASE j # k + 1
      <4>1. j \in 0 .. k
        BY <3>2
      <4>2. f[j] = (IF j = 0 THEN 0 ELSE f[j - 1] + c[j])
        BY <2>1, <4>1 DEF Sums
      <4>3. j # 0 => j - 1 \in 0 .. k + 1 /\ j - 1 # k + 1
        BY <4>1
      <4> QED
        BY <3>2, <4>2, <4>3
    <3> QED
      BY <3>1, <3>2
  <2>3. DOMAIN g = 0 .. k + 1 /\ g = [j \in 0 .. k + 1 |-> g[j]]
    OBVIOUS
  <2> HIDE DEF g
  <2>4. Sums(c, k + 1, g)
    BY <2>2, <2>3 DEF Sums
  <2> QED
    BY <2>4
<1> HIDE DEF S
<1>3. n \in S
  BY <1>1, <1>2, SetInduction
<1> QED
  BY <1>3 DEF S

LEMMA SumsAgree ==
  ASSUME NEW c, NEW d, NEW m \in Nat, NEW n \in Nat, m <= n, NEW f, NEW g,
         Sums(c, m, f), Sums(d, n, g), \A k \in 1 .. m : c[k] = d[k]
  PROVE  f[m] = g[m]
<1> DEFINE S == {k \in Nat : k <= m => f[k] = g[k]}
<1>1. 0 \in S
  BY DEF Sums
<1>2. ASSUME NEW k \in Nat, k \in S
      PROVE  k + 1 \in S
  <2>1. CASE k + 1 <= m
    <3>1. k + 1 \in 0 .. m /\ k + 1 \in 0 .. n /\ k + 1 # 0 /\ (k + 1) - 1 = k /\ k + 1 \in 1 .. m
      BY <2>1
    <3>2. f[k + 1] = f[k] + c[k + 1] /\ g[k + 1] = g[k] + d[k + 1]
      BY <3>1 DEF Sums
    <3>3. f[k] = g[k]
      BY <1>2, <2>1
    <3> QED
      BY <3>1, <3>2, <3>3
  <2>2. CASE ~ (k + 1 <= m)
    BY <2>2
  <2> QED
    BY <2>1, <2>2
<1> HIDE DEF S
<1>3. m \in S
  BY <1>1, <1>2, SetInduction
<1> QED
  BY <1>3 DEF S

LEMMA TotalIs ==
  ASSUME NEW c, NEW n \in Nat
  PROVE  \E f : Sums(c, n, f) /\ Total(c, n) = f[n]
<1> DEFINE f == CHOOSE f : Sums(c, n, f)
<1>1. Sums(c, n, f)
  BY SumsExist
<1>2. Total(c, n) = f[n]
  BY DEF Total, Sums
<1> QED
  BY <1>1, <1>2

LEMMA TotalFacts ==
  ASSUME NEW c, NEW n \in Nat
  PROVE  /\ Total(c, 0) = 0
         /\ Total(c, n + 1) = Total(c, n) + c[n + 1]
         /\ \A d : (\A k \in 1 .. n : c[k] = d[k]) => Total(d, n) = Total(c, n)
<1>1. Total(c, 0) = 0
  <2>1. PICK f : Sums(c, 0, f) /\ Total(c, 0) = f[0]
    BY TotalIs
  <2> QED
    BY <2>1 DEF Sums
<1>2. PICK f : Sums(c, n, f) /\ Total(c, n) = f[n]
  BY TotalIs
<1>3. Total(c, n + 1) = Total(c, n) + c[n + 1]
  <2>1. PICK m \in Nat : m = n + 1
    OBVIOUS
  <2>2. n <= m /\ m \in 0 .. m /\ m # 0 /\ m - 1 = n
    BY <2>1
  <2>3. PICK g : Sums(c, m, g) /\ Total(c, m) = g[m]
    BY TotalIs
  <2>4. PICK d : d = c
    OBVIOUS
  <2>5. f[n] = g[n]
    <3>1. /\ Sums(d, m, g) /\ Sums(c, n, f) /\ n <= m
          /\ \A k \in 1 .. n : c[k] = d[k]
      BY <1>2, <2>2, <2>3, <2>4
    <3> QED
      BY SMTT(60), <3>1, SumsAgree
  <2>6. g[m] = g[n] + c[m]
    BY <2>2, <2>3 DEF Sums
  <2> QED
    BY <1>2, <2>1, <2>3, <2>5, <2>6
<1>4. ASSUME NEW d, \A k \in 1 .. n : c[k] = d[k]
      PROVE  Total(d, n) = Total(c, n)
  <2>1. PICK g : Sums(d, n, g) /\ Total(d, n) = g[n]
    BY TotalIs
  <2>2. n <= n
    OBVIOUS
  <2>3. f[n] = g[n]
    BY <1>2, <1>4, <2>1, <2>2, SumsAgree
  <2> QED
    BY <1>2, <2>1, <2>3
<1> QED
  BY <1>1, <1>3, <1>4

----------------------------------------------------------------------------
\* The invariant a finished result rests on.

CardsOf(s) == [k \in 1 .. Len(s) |-> s[k].card]

TotalInv ==
  /\ \A k \in 1 .. Len(out) : 0 < out[k].card /\ out[k].card <= 65536
  /\ total_card = Total(CardsOf(out), Len(out))

Landed(k) == Segment(out[k].key, data_base + index[k].data_offset, out[k].data_size)

\* No key's bytes are in two places, but for one that has been moved and whose
\* old bytes nothing has overwritten yet.
UniqueInv ==
  /\ phase \in {"layout", "fold", "finalize"} => \A s, t \in mem : s.id = t.id => s = t
  /\ phase = "compact" =>
       \A k \in 1 .. Len(out) : \A s \in mem :
         s.id = out[k].key => s = Payload(out[k]) \/ (k < pos /\ s = Landed(k))

\* What compaction has written so far has no hole.
WrittenInv ==
  phase = "compact" =>
    /\ \A k \in 1 .. pos - 1 :
         /\ index_entry_ranges(Len(out), k) \subseteq written
         /\ out[k].typ = CT_BITMAP => (data_base + index[k].data_offset) % BUF_ALIGN = 0
    /\ \A p \in Nat :
         data_base <= p /\ p < prev_end => \E r \in written : r[1] <= p /\ p < r[2]

PInv == RInv /\ TotalInv /\ UniqueInv /\ WrittenInv /\ ResultParses

LEMMA RecordTotals ==
  ASSUME TypeOK, TotalInv, NEW i \in 1 .. NumSlots, NEW side \in {0, 1}, off_of(i, side) \in Nat,
         NEW f, f.typ \in {CT_ARRAY, CT_BITMAP, CT_RUN}, f.card \in Nat, f.size \in Nat,
         f.card <= 65536, record(i, f, side)
  PROVE  TotalInv'
<1>1. CASE f.card = 0
  BY <1>1 DEF record, TotalInv
<1>2. CASE f.card # 0
  <2> DEFINE e == entry(i, f, side)
  <2>1. out \in Seq(Recorded) /\ e \in Recorded /\ e.card = f.card
    BY PlanFacts DEF TypeOK, Recorded, entry
  <2>2. out' = Append(out, e) /\ total_card' = total_card + f.card
    BY <1>2 DEF record
  <2> HIDE DEF e
  <2>3. PICK n \in Nat : n = Len(out)
    BY <2>1
  <2>4. /\ Len(out') = n + 1 /\ out'[n + 1] = e
        /\ \A k \in 1 .. n : out'[k] = out[k]
    BY <2>1, <2>2, <2>3
  <2>5. PICK m \in Nat : m = n + 1
    OBVIOUS
  <2>6. \A k : k \in 1 .. m <=> k \in 1 .. n \/ k = m
    BY <2>5
  <2>7. \A k \in 1 .. m : 0 < out'[k].card /\ out'[k].card <= 65536
    <3>1. 0 < f.card
      BY <1>2
    <3>2. \A k \in 1 .. n : 0 < out'[k].card /\ out'[k].card <= 65536
      BY <2>3, <2>4 DEF TotalInv
    <3>3. 0 < out'[m].card /\ out'[m].card <= 65536
      BY <3>1, <2>1, <2>4, <2>5
    <3> QED
      BY <2>6, <3>2, <3>3
  <2> DEFINE c == CardsOf(out)
             d == CardsOf(out')
  <2>8. /\ d[m] = f.card
        /\ \A k \in 1 .. n : c[k] = d[k]
    <3>1. d = [k \in 1 .. m |-> out'[k].card] /\ c = [k \in 1 .. n |-> out[k].card]
      BY <2>3, <2>4, <2>5 DEF CardsOf
    <3> QED
      BY <3>1, <2>1, <2>4, <2>5, <2>6
  <2>9. total_card = Total(c, n)
    BY <2>3 DEF TotalInv
  <2> HIDE DEF c, d
  <2>10. Total(d, m) = Total(d, n) + f.card /\ Total(d, n) = Total(c, n)
    BY <2>5, <2>8, TotalFacts
  <2>11. total_card' = Total(d, m)
    BY <2>2, <2>9, <2>10
  <2> QED
    BY <2>4, <2>5, <2>7, <2>11 DEF TotalInv, d
<1> QED
  BY <1>1, <1>2

LEMMA FormCard ==
  ASSUME NEW c \in Cardinalities
  PROVE  c \in Nat /\ c <= 65536
<1>1. PICK f \in Forms : c = f.card
  BY DEF Cardinalities
<1>2. f \in Form /\ WellFormed(f)
  BY PlansAssumption
<1>3. f.card \in Nat
  BY <1>2 DEF Form
<1> QED
  BY <1>1, <1>2, <1>3 DEF WellFormed

LEMMA TotalStep ==
  ASSUME RInv, TotalInv, Next
  PROVE  TotalInv'
<1>1. CASE LayoutSlot \/ LayoutDone \/ FoldDone \/ CompactNext \/ Finish
  BY <1>1 DEF LayoutSlot, LayoutDone, FoldDone, CompactNext, Finish, foldVars, TotalInv
<1>2. CASE Fold
  <2>1. PICK i \in 1 .. NumSlots, f \in Forms :
          \/ FoldKey(i, f)
          \/ SeedSlot(i, f)
          \/ \E merge \in BOOLEAN : ApplySlot(i, f, merge)
    BY <1>2 DEF Fold
  <2>2. CASE FoldKey(i, f)
    <3>1. record(i, f, 0) /\ phase # "layout"
      BY <2>2 DEF FoldKey
    <3>2. off_of(i, 0) \in Nat
      BY <3>1, Inside DEF RInv, IInv
    <3>3. f.card <= 65536
      BY FormSized, FormCard
    <3> QED
      BY <3>1, <3>2, <3>3, FormFacts, RecordTotals DEF RInv, IInv
  <2>3. CASE SeedSlot(i, f) \/ \E merge \in BOOLEAN : ApplySlot(i, f, merge)
    BY <2>3 DEF SeedSlot, ApplySlot, TotalInv
  <2> QED
    BY <2>1, <2>2, <2>3
<1>3. CASE FinalizeSlot
  <2> DEFINE st == state[fin]
  <2>1. /\ fin <= NumSlots /\ phase # "layout"
        /\ IF st.typ = UNSEEDED THEN UNCHANGED << out, total_card >> ELSE record(fin, st, st.side)
    BY <1>3 DEF FinalizeSlot
  <2>2. CASE st.typ = UNSEEDED
    BY <2>1, <2>2 DEF TotalInv
  <2>3. CASE st.typ # UNSEEDED
    <3>1. NumSlots \in Nat
      BY PlanFacts DEF RInv, IInv
    <3>2. fin \in 1 .. NumSlots
      BY <2>1, <3>1 DEF RInv, IInv, TypeOK
    <3>3. st \in [typ : {CT_ARRAY, CT_BITMAP, CT_RUN, UNSEEDED},
                  side : {0, 1}, card : Nat, size : Nat]
      BY <3>2 DEF RInv, IInv, TypeOK
    <3>4. /\ st.typ \in {CT_ARRAY, CT_BITMAP, CT_RUN} /\ st.side \in {0, 1}
          /\ st.card \in Nat /\ st.size \in Nat
      BY <2>3, <3>3
    <3>5. st.card \in Cardinalities
      BY <2>3, <3>2 DEF RInv, SizedInv
    <3>6. off_of(fin, st.side) \in Nat
      BY <2>1, <3>2, <3>4, Inside DEF RInv, IInv
    <3>7. record(fin, st, st.side) /\ st.card <= 65536
      BY <2>1, <2>3, <3>5, FormCard
    <3> HIDE DEF st
    <3> QED
      BY <3>2, <3>4, <3>6, <3>7, RecordTotals DEF RInv, IInv
  <2> QED
    BY <2>2, <2>3
<1>4. CASE \E compact \in BOOLEAN : Serialize(compact)
  <2>1. PICK compact \in BOOLEAN : Serialize(compact)
    BY <1>4
  <2>2. /\ out' = (IF compact THEN [k \in 1 .. Len(out) |-> Transcoded(out[k])] ELSE out)
        /\ total_card' = total_card
    BY <2>1, AlreadySorted DEF Serialize, RInv
  <2>3. out \in Seq(Recorded) /\ Len(out) \in Nat
    BY DEF RInv, IInv, TypeOK, Recorded
  <2>4. CASE ~ compact
    BY <2>2, <2>4 DEF TotalInv
  <2>5. CASE compact
    <3>1. out' = [k \in 1 .. Len(out) |-> Transcoded(out[k])]
      BY <2>2, <2>5
    <3>2. Len(out') = Len(out)
      BY <2>3, <3>1
    <3>3. ASSUME NEW k \in 1 .. Len(out)
          PROVE  out'[k].card = out[k].card
      <4>1. PICK e \in Recorded : e = out[k]
        BY <2>3, ElementOfSeq
      <4>2. Transcoded(e).card = e.card
        BY DEF Transcoded, Recorded
      <4> QED
        BY <3>1, <4>1, <4>2
    <3>4. CardsOf(out') = CardsOf(out)
      BY <3>2, <3>3 DEF CardsOf
    <3> QED
      BY <2>2, <3>2, <3>3, <3>4 DEF TotalInv
  <2> QED
    BY <2>4, <2>5
<1> QED
  BY <1>1, <1>2, <1>3, <1>4 DEF Next

----------------------------------------------------------------------------
\* Where a key's bytes are.

LEMMA KernelWriteOne ==
  ASSUME \A s, t \in mem : s.id = t.id => s = t, NEW id, NEW lo, NEW size
  PROVE  \A s, t \in KernelWrite(mem, id, lo, size) : s.id = t.id => s = t
<1>1. \A s \in KernelWrite(mem, id, lo, size) :
        (s \in mem /\ s.id # id) \/ s = Segment(id, lo, size)
  BY DEF KernelWrite, ClobberAll
<1>2. Segment(id, lo, size).id = id
  BY DEF Segment
<1> QED
  BY <1>1, <1>2

LEMMA UniqueSerialize ==
  ASSUME RInv, UniqueInv, NEW compact \in BOOLEAN, Serialize(compact)
  PROVE  UniqueInv'
<1>1. /\ phase \in {"fold", "finalize"} /\ phase' = "compact"
      /\ out' = (IF compact THEN [k \in 1 .. Len(out) |-> Transcoded(out[k])] ELSE out)
      /\ mem' = (IF compact THEN TranscodeMem(mem, out) ELSE mem)
  BY AlreadySorted DEF Serialize, RInv
<1>2. out \in Seq(Recorded) /\ Len(out) \in Nat
  BY DEF RInv, IInv, TypeOK, Recorded
<1>3. \A s, t \in mem : s.id = t.id => s = t
  BY <1>1 DEF UniqueInv
<1>4. \A k \in 1 .. Len(out) : Payload(out[k]) \in mem /\ Payload(out[k]).id = out[k].key
  BY <1>1 DEF RInv, IInv, MemInv, Payload, Segment
<1>5. ASSUME NEW k \in 1 .. Len(out), NEW s \in mem', s.id = out'[k].key
      PROVE  s = Payload(out'[k])
  <2>1. CASE ~ compact
    BY <1>1, <1>3, <1>4, <1>5, <2>1
  <2>2. CASE compact
    <3>1. \A q \in 1 .. Len(out) : out'[q] = Transcoded(out[q])
      BY <1>1, <2>2
    <3>2. ASSUME NEW q \in 1 .. Len(out)
          PROVE  /\ Transcoded(out[q]).key = out[q].key
                 /\ ~ sparse(out[q]) => Transcoded(out[q]) = out[q]
      <4>1. PICK e \in Recorded : e = out[q]
        BY <1>2, ElementOfSeq
      <4>2. Transcoded(e).key = e.key /\ (~ sparse(e) => Transcoded(e) = e)
        BY DEF Transcoded, Recorded
      <4> QED
        BY <4>1, <4>2
    <3>3. s.id = out[k].key
      BY <1>5, <3>1, <3>2
    <3>4. \/ s \in mem /\ \A q \in 1 .. Len(out) : sparse(out[q]) => s # Payload(out[q])
          \/ \E q \in 1 .. Len(out) : s = Payload(Transcoded(out[q]))
      BY <1>1, <2>2 DEF TranscodeMem
    <3>5. CASE s \in mem /\ \A q \in 1 .. Len(out) : sparse(out[q]) => s # Payload(out[q])
      <4>1. s = Payload(out[k])
        BY <1>3, <1>4, <3>3, <3>5
      <4> QED
        BY <3>1, <3>2, <3>5, <4>1
    <3>6. CASE \E q \in 1 .. Len(out) : s = Payload(Transcoded(out[q]))
      <4>1. PICK q \in 1 .. Len(out) : s = Payload(Transcoded(out[q]))
        BY <3>6
      <4>2. s.id = out[q].key
        BY <3>2, <4>1 DEF Payload, Segment
      <4>3. q = k
        BY <3>3, <4>2, AlreadySorted DEF RInv
      <4> QED
        BY <3>1, <4>1, <4>3
    <3> QED
      BY <3>4, <3>5, <3>6
  <2> QED
    BY <2>1, <2>2
<1>6. Len(out') = Len(out)
  BY <1>1, <1>2
<1>7. \A k \in 1 .. Len(out') : \A s \in mem' : s.id = out'[k].key => s = (Payload(out[k]))'
  BY <1>5, <1>6 DEF Payload
<1> QED
  BY <1>1, <1>7 DEF UniqueInv

LEMMA UniqueCompact ==
  ASSUME RInv, UniqueInv, CompactNext
  PROVE  UniqueInv'
<1> DEFINE e == out[pos]
           there == Segment(e.key, Dst, e.data_size)
           entry_at == [key |-> e.key, typ |-> e.typ,
                        cardinality |-> e.card, data_offset |-> DataOffset]
<1>1. /\ phase = "compact" /\ phase' = phase /\ pos <= Len(out) /\ pos' = pos + 1
      /\ index' = Append(index, entry_at)
      /\ \A s \in mem' : s \in mem \/ s = there
      /\ UNCHANGED << out, data_base >>
  BY DEF CompactNext, foldVars, Moved, Clobber, ClobberAll
<1>2. /\ pos \in 1 .. Len(out) /\ pos \in Nat /\ Len(out) \in Nat /\ Len(index) = pos - 1
      /\ index \in Seq([key : Nat, typ : {CT_ARRAY, CT_BITMAP, CT_RUN},
                        cardinality : Nat, data_offset : Nat])
  BY <1>1 DEF RInv, IInv, TypeOK, MovedInv
<1>3. entry_at.data_offset = DataOffset /\ there.id = e.key
  BY DEF Segment
<1> HIDE DEF entry_at
<1>4. /\ index'[pos] = entry_at
      /\ \A k \in 1 .. pos - 1 : index'[k] = index[k]
  <2>1. index'[Len(index) + 1] = entry_at
        /\ \A k \in 1 .. Len(index) : index'[k] = index[k]
    BY <1>1, <1>2
  <2> QED
    BY <1>2, <2>1
<1>5. ASSUME NEW k \in 1 .. Len(out), NEW s \in mem', s.id = out[k].key
      PROVE  s = (Payload(out[k]))' \/ (k < pos' /\ s = (Landed(k))')
  <2>1. (Payload(out[k]))' = Payload(out[k])
    BY <1>1 DEF Payload
  <2>2. CASE s \in mem
    <3>1. s = Payload(out[k]) \/ (k < pos /\ s = Landed(k))
      BY <1>1, <1>5, <2>2 DEF UniqueInv
    <3>2. k < pos => k < pos' /\ (Landed(k))' = Landed(k)
      BY <1>1, <1>2, <1>4 DEF Landed
    <3> QED
      BY <2>1, <3>1, <3>2
  <2>3. CASE s = there
    <3>1. k = pos
      <4>1. out[k].key = out[pos].key
        BY <1>3, <1>5, <2>3
      <4> QED
        BY <1>2, <4>1, AlreadySorted DEF RInv
    <3>2. (Landed(k))' = there
      BY <1>1, <1>3, <1>4, <3>1 DEF Landed, Dst
    <3>3. k < pos'
      BY <1>1, <1>2, <3>1
    <3> QED
      BY <2>3, <3>2, <3>3
  <2> QED
    BY <1>1, <2>2, <2>3
<1> QED
  BY <1>1, <1>5 DEF UniqueInv

LEMMA UniqueStep ==
  ASSUME RInv, UniqueInv, Next
  PROVE  UniqueInv'
<1>1. CASE LayoutSlot \/ LayoutDone \/ FoldDone \/ FinalizeSlot
  BY <1>1 DEF LayoutSlot, LayoutDone, FoldDone, FinalizeSlot, UniqueInv
<1>2. CASE Fold
  <2>1. PICK id, lo, size : /\ phase = "fold" /\ phase' = "fold"
                            /\ mem' = KernelWrite(mem, id, lo, size)
    BY <1>2 DEF Fold, FoldKey, SeedSlot, ApplySlot
  <2> QED
    BY <2>1, KernelWriteOne DEF UniqueInv
<1>3. CASE \E compact \in BOOLEAN : Serialize(compact)
  BY <1>3, UniqueSerialize
<1>4. CASE CompactNext
  BY <1>4, UniqueCompact
<1>5. CASE Finish
  BY <1>5 DEF Finish, UniqueInv
<1> QED
  BY <1>1, <1>2, <1>3, <1>4, <1>5 DEF Next

----------------------------------------------------------------------------
\* What has been written.

LEMMA WrittenCompact ==
  ASSUME RInv, CapacitiesBounded, WrittenInv, CompactNext
  PROVE  WrittenInv'
<1> DEFINE e == out[pos]
           entry_at == [key |-> e.key, typ |-> e.typ,
                        cardinality |-> e.card, data_offset |-> DataOffset]
           end == Dst + e.data_size
<1>1. /\ phase = "compact" /\ phase' = phase /\ pos <= Len(out) /\ pos' = pos + 1
      /\ index' = Append(index, entry_at)
      /\ written' = written \cup index_entry_ranges(Len(out), pos) \cup {<< prev_end, Dst >>}
                      \cup {<< Dst, end >>}
      /\ prev_end' = end
      /\ UNCHANGED << out, data_base >>
  BY DEF CompactNext, foldVars, gap_fill
<1>2. /\ pos \in 1 .. Len(out) /\ Len(out) \in Nat /\ Len(index) = pos - 1
      /\ index \in Seq([key : Nat, typ : {CT_ARRAY, CT_BITMAP, CT_RUN},
                        cardinality : Nat, data_offset : Nat])
      /\ dc \in Nat
      /\ data_base = data_section_off(Len(out), has_type(out, CT_BITMAP))
  BY <1>1 DEF RInv, IInv, TypeOK, MovedInv, CompactInv
<1>3. /\ data_base \in Nat /\ prev_end \in Nat /\ Dst \in Nat /\ prev_end <= Dst
      /\ DataOffset \in Nat /\ Dst = data_base + DataOffset
      /\ e \in Recorded
  BY <1>1, CompactFacts DEF RInv
<1>4. end \in Nat
  <2>1. e.data_size \in Nat
    BY <1>3 DEF Recorded
  <2> HIDE DEF e
  <2> QED
    BY <1>3, <2>1
<1>5. entry_at.data_offset = DataOffset
  OBVIOUS
<1> HIDE DEF entry_at, end, e
<1>6. /\ index'[pos] = entry_at
      /\ \A k \in 1 .. pos - 1 : index'[k] = index[k]
  <2>1. index'[Len(index) + 1] = entry_at
        /\ \A k \in 1 .. Len(index) : index'[k] = index[k]
    BY <1>1, <1>2
  <2> QED
    BY <1>2, <2>1
<1>7. e.typ = CT_BITMAP => Dst % BUF_ALIGN = 0
  <2> SUFFICES ASSUME e.typ = CT_BITMAP PROVE Dst % BUF_ALIGN = 0
    OBVIOUS
  <2>1. has_type(out, CT_BITMAP) /\ has_type(out, CT_BITMAP) \in BOOLEAN
    BY <1>2 DEF has_type, e
  <2>2. data_base % BUF_ALIGN = 0
    BY <1>2, <2>1, DataSection
  <2>3. DataOffset = align_up(dc, BUF_ALIGN)
    BY DEF DataOffset, payload_align, e
  <2>4. DataOffset % BUF_ALIGN = 0
    BY <1>2, <2>3, AlignUp DEF Alignments
  <2>5. \A a, b \in Nat : a % 64 = 0 /\ b % 64 = 0 => (a + b) % 64 = 0
    OBVIOUS
  <2> QED
    BY <1>3, <2>2, <2>4, <2>5 DEF BUF_ALIGN
<1>8. ASSUME NEW k \in 1 .. pos' - 1
      PROVE  /\ index_entry_ranges(Len(out), k) \subseteq written'
             /\ out[k].typ = CT_BITMAP => (data_base + index'[k].data_offset) % BUF_ALIGN = 0
  <2>1. CASE k = pos
    BY <1>1, <1>3, <1>5, <1>6, <1>7, <2>1 DEF e
  <2>2. CASE k # pos
    <3>1. k \in 1 .. pos - 1
      BY <1>1, <1>2, <2>2
    <3> QED
      BY <1>1, <1>6, <3>1 DEF WrittenInv
  <2> QED
    BY <2>1, <2>2
<1>9. ASSUME NEW p \in Nat, data_base <= p, p < end
      PROVE  \E r \in written' : r[1] <= p /\ p < r[2]
  <2>1. CASE p < prev_end
    <3>1. \E r \in written : r[1] <= p /\ p < r[2]
      BY <1>1, <1>9, <2>1 DEF WrittenInv
    <3> QED
      BY <1>1, <3>1
  <2>2. CASE prev_end <= p /\ p < Dst
    <3>1. << prev_end, Dst >> \in written'
      BY <1>1
    <3> QED
      BY <2>2, <3>1
  <2>3. CASE Dst <= p
    <3>1. << Dst, end >> \in written'
      BY <1>1
    <3> QED
      BY <1>9, <2>3, <3>1
  <2> QED
    BY <1>3, <2>1, <2>2, <2>3
<1> QED
  BY <1>1, <1>8, <1>9 DEF WrittenInv

LEMMA WrittenStep ==
  ASSUME RInv, CapacitiesBounded, WrittenInv, Next
  PROVE  WrittenInv'
<1>1. CASE LayoutSlot \/ LayoutDone \/ FoldDone \/ FinalizeSlot
  BY <1>1 DEF LayoutSlot, LayoutDone, FoldDone, FinalizeSlot, WrittenInv, RInv, IInv, FoldInv
<1>2. CASE Fold
  BY <1>2 DEF Fold, FoldKey, SeedSlot, ApplySlot, WrittenInv
<1>3. CASE \E compact \in BOOLEAN : Serialize(compact)
  <2>1. /\ phase \in {"fold", "finalize"} /\ prev_end' = data_base' /\ pos' = pos
        /\ data_base' = data_section_off(Len(out), has_type(out', CT_BITMAP))
    BY <1>3 DEF Serialize
  <2>2. pos = 1
    BY <2>1 DEF RInv, IInv, CompactInv
  <2>3. data_base' \in Nat
    <3>1. Len(out) \in Nat /\ has_type(out', CT_BITMAP) \in BOOLEAN
      BY DEF RInv, IInv, TypeOK, has_type
    <3> QED
      BY <2>1, <3>1, DataSection
  <2>4. pos' - 1 = 0
    BY <2>1, <2>2
  <2> QED
    BY <2>1, <2>3, <2>4 DEF WrittenInv
<1>4. CASE CompactNext
  BY <1>4, WrittenCompact
<1>5. CASE Finish
  BY <1>5 DEF Finish, WrittenInv
<1> QED
  BY <1>1, <1>2, <1>3, <1>4, <1>5 DEF Next

\* The index entries leave no hole between the header and their end.
LEMMA IndexCovered ==
  ASSUME NEW n \in Nat, NEW p \in Nat, HEADER_SIZE <= p, p < HEADER_SIZE + index_size(n)
  PROVE  \E i \in 1 .. n : \E r \in index_entry_ranges(n, i) : r[1] <= p /\ p < r[2]
<1>1. 16 <= p /\ p < 16 + 8 * n
  BY DEF HEADER_SIZE, index_size
<1>2. CASE p < 16 + 2 * n
  <2>1. PICK i \in 1 .. n : 16 + 2 * (i - 1) <= p /\ p < 16 + 2 * i
    <3>1. /\ (p - 16) \div 2 + 1 \in 1 .. n
          /\ 16 + 2 * (((p - 16) \div 2 + 1) - 1) <= p
          /\ p < 16 + 2 * ((p - 16) \div 2 + 1)
      BY <1>1, <1>2
    <3> QED
      BY <3>1
  <2>2. << keys_off + 2 * (i - 1), keys_off + 2 * i >> \in index_entry_ranges(n, i)
    BY DEF index_entry_ranges
  <2> QED
    BY <2>1, <2>2 DEF keys_off, HEADER_SIZE
<1>3. CASE 16 + 2 * n <= p /\ p < 16 + 4 * n
  <2>1. PICK i \in 1 .. n : 16 + 2 * n + 2 * (i - 1) <= p /\ p < 16 + 2 * n + 2 * i
    <3>1. PICK q \in Nat : q = p - (16 + 2 * n)
      BY <1>3
    <3>2. /\ q \div 2 + 1 \in 1 .. n
          /\ 16 + 2 * n + 2 * ((q \div 2 + 1) - 1) <= p
          /\ p < 16 + 2 * n + 2 * (q \div 2 + 1)
      BY <1>3, <3>1
    <3> QED
      BY <3>2
  <2>2. << cards_off(n) + 2 * (i - 1), cards_off(n) + 2 * i >> \in index_entry_ranges(n, i)
    BY DEF index_entry_ranges
  <2> QED
    BY <2>1, <2>2 DEF cards_off, HEADER_SIZE
<1>4. CASE 16 + 4 * n <= p
  <2>1. PICK i \in 1 .. n : 16 + 4 * n + 4 * (i - 1) <= p /\ p < 16 + 4 * n + 4 * i
    <3>1. PICK q \in Nat : q = p - (16 + 4 * n)
      BY <1>4
    <3>2. /\ q \div 4 + 1 \in 1 .. n
          /\ 16 + 4 * n + 4 * ((q \div 4 + 1) - 1) <= p
          /\ p < 16 + 4 * n + 4 * (q \div 4 + 1)
      BY <1>1, <1>4, <3>1
    <3> QED
      BY <3>2
  <2>2. << type_offsets_off(n) + 4 * (i - 1), type_offsets_off(n) + 4 * i >>
          \in index_entry_ranges(n, i)
    BY DEF index_entry_ranges
  <2> QED
    BY <2>1, <2>2 DEF type_offsets_off, HEADER_SIZE
<1> QED
  BY <1>2, <1>3, <1>4

\* What the reader takes an entry's payload to be is what was put there.
LEMMA EntrySizes ==
  ASSUME RInv, UniqueInv, Finish, NEW k \in 1 .. Len(out)
  PROVE  (Entry_size(index[k]))' = out[k].data_size
<1>1. /\ phase = "compact" /\ pos > Len(out) /\ \A s \in mem' : s \in mem
      /\ UNCHANGED << out, index, data_base >>
  BY DEF Finish, foldVars, ClobberAll
<1>2. pos \in 1 .. Len(out) + 1 /\ out \in Seq(Recorded) /\ data_base \in Nat
  BY DEF RInv, IInv, TypeOK, Recorded
<1>3. Delivered(k, prev_end) /\ Sized(out[k].typ, out[k].card, out[k].data_size)
  <2>1. k \in 1 .. pos - 1
    BY <1>1, <1>2
  <2> QED
    BY <1>1, <2>1 DEF RInv, MovedInv, SizedInv
<1>4. PICK c \in Recorded : c = out[k]
  BY <1>2, ElementOfSeq
<1>5. PICK e : e = index[k]
  OBVIOUS
<1>6. /\ e.key = c.key /\ e.typ = c.typ /\ e.cardinality = c.card /\ e.data_offset \in Nat
      /\ c.data_size \in Nat /\ c.card \in Nat /\ c.off \in Nat
      /\ c.typ \in {CT_ARRAY, CT_BITMAP, CT_RUN}
      /\ Sized(c.typ, c.card, c.data_size)
  BY <1>3, <1>4, <1>5 DEF Delivered, Recorded
<1>7. (Entry_size(e))' = c.data_size
  <2>1. CASE c.typ = CT_ARRAY
    <3>1. stored_bytes(e.typ, e.cardinality, 0) = c.card * 2 /\ c.data_size = c.card * 2
      BY <1>6, <2>1 DEF stored_bytes, Sized, CT_ARRAY, CT_BITMAP, CT_RUN
    <3> QED
      BY <1>6, <2>1, <3>1 DEF Entry_size, CT_ARRAY, CT_RUN
  <2>2. CASE c.typ = CT_BITMAP
    <3>1. stored_bytes(e.typ, e.cardinality, 0) = BITMAP_BYTES /\ c.data_size = BITMAP_BYTES
      BY <1>6, <2>2 DEF stored_bytes, Sized, CT_ARRAY, CT_BITMAP, CT_RUN
    <3> QED
      BY <1>6, <2>2, <3>1 DEF Entry_size, CT_BITMAP, CT_RUN
  <2>3. CASE c.typ = CT_RUN
    <3> DEFINE at == data_base + e.data_offset
               found == CHOOSE s \in mem' : s.id = e.key /\ s.lo = at
    <3>1. \E s \in mem' : s.id = e.key /\ s.lo = at
      <4>1. (Present(e))'
        <5>1. (Present(index[k]))'
          BY AllPresent
        <5> QED
          BY <1>1, <1>5, <5>1 DEF Present, Entry_size
      <4> QED
        BY <1>1, <4>1 DEF Present
    <3>2. at \in Nat
      BY <1>2, <1>6
    <3>3. (Entry_size(e))' = found.hi - at
      BY <1>1, <1>6, <2>3 DEF Entry_size
    <3> HIDE DEF at
    <3>4. found \in mem' /\ found.id = e.key /\ found.lo = at
      BY <3>1
    <3> HIDE DEF found
    <3>5. found \in mem /\ found.id = out[k].key
      BY <1>1, <1>4, <1>6, <3>4
    <3>6. found = Payload(out[k]) \/ found = Landed(k)
      BY <1>1, <3>5 DEF UniqueInv
    <3>7. found.hi = at + c.data_size
      <4>1. CASE found = Payload(out[k])
        BY <1>4, <3>4, <4>1 DEF Payload, Segment
      <4>2. CASE found = Landed(k)
        BY <1>4, <1>5, <4>2 DEF Landed, Segment, at
      <4> QED
        BY <3>6, <4>1, <4>2
    <3> QED
      BY <1>6, <3>2, <3>3, <3>7
  <2> QED
    BY <1>6, <2>1, <2>2, <2>3
<1> QED
  BY <1>1, <1>4, <1>5, <1>7 DEF Entry_size

\* No byte of the result is left over from an earlier operation.
LEMMA AllWritten ==
  ASSUME RInv, WrittenInv, Finish
  PROVE  Covers(written', buf_len')
<1>1. /\ phase = "compact" /\ pos > Len(out)
      /\ written' = written \cup {<< 0, HEADER_SIZE >>,
                                  << HEADER_SIZE + index_size(Len(out)), data_base >>}
      /\ buf_len' = data_base + dc
  BY DEF Finish
<1>2. /\ Len(out) \in Nat /\ pos \in 1 .. Len(out) + 1 /\ data_base \in Nat /\ dc \in Nat
      /\ prev_end = data_base + dc
      /\ \A r \in written : r[1] \in Nat /\ r[2] \in Nat
  BY <1>1 DEF RInv, IInv, TypeOK, CompactInv
<1>3. HEADER_SIZE + index_size(Len(out)) \in Nat /\ HEADER_SIZE \in Nat
  BY <1>2 DEF HEADER_SIZE, index_size
<1>4. \A r \in written' : r[1] \in Nat /\ r[2] \in Nat
  BY <1>1, <1>2, <1>3
<1>5. buf_len' \in Nat /\ buf_len' = prev_end
  BY <1>1, <1>2
<1>6. ASSUME NEW p \in Nat, p < buf_len'
      PROVE  \E r \in written' : r[1] <= p /\ p < r[2]
  <2>1. CASE p < HEADER_SIZE
    <3>1. << 0, HEADER_SIZE >> \in written'
      BY <1>1
    <3> QED
      BY <2>1, <3>1
  <2>2. CASE HEADER_SIZE <= p /\ p < HEADER_SIZE + index_size(Len(out))
    <3>1. PICK i \in 1 .. Len(out) :
            \E r \in index_entry_ranges(Len(out), i) : r[1] <= p /\ p < r[2]
      BY <1>2, <2>2, IndexCovered
    <3>2. i \in 1 .. pos - 1
      BY <1>1, <1>2, <3>1
    <3>3. index_entry_ranges(Len(out), i) \subseteq written'
      BY <1>1, <3>2 DEF WrittenInv
    <3> QED
      BY <3>1, <3>3
  <2>3. CASE HEADER_SIZE + index_size(Len(out)) <= p /\ p < data_base
    <3>1. << HEADER_SIZE + index_size(Len(out)), data_base >> \in written'
      BY <1>1
    <3> QED
      BY <2>3, <3>1
  <2>4. CASE data_base <= p
    <3>1. \E r \in written : r[1] <= p /\ p < r[2]
      BY <1>1, <1>5, <1>6, <2>4 DEF WrittenInv
    <3> QED
      BY <1>1, <3>1
  <2> QED
    BY <1>2, <1>3, <2>1, <2>2, <2>3, <2>4
<1> DEFINE proper == {r \in written' : r[1] < r[2]}
<1>7. ASSUME NEW p \in {0} \cup {r[2] : r \in proper}
      PROVE  p >= buf_len' \/ \E r \in proper : r[1] <= p /\ p < r[2]
  <2>1. p \in Nat
    BY <1>4
  <2>2. CASE p < buf_len'
    <3>1. PICK r \in written' : r[1] <= p /\ p < r[2]
      BY <1>6, <2>1, <2>2
    <3>2. r[1] < r[2]
      BY <1>4, <2>1, <3>1
    <3> QED
      BY <3>1, <3>2
  <2> QED
    BY <1>5, <2>1, <2>2
<1> QED
  BY <1>7 DEF Covers

\* What the reader asks of an entry.
Readable(e) ==
  /\ 0 < e.cardinality /\ e.cardinality <= 65536
  /\ Present(e)
  /\ data_base + e.data_offset + Entry_size(e) <= buf_len
  /\ e.typ = CT_BITMAP => (data_base + e.data_offset) % BUF_ALIGN = 0

LEMMA FinishParses ==
  ASSUME RInv, TotalInv, UniqueInv, WrittenInv, Finish
  PROVE  ResultParses'
<1>1. /\ phase = "compact" /\ phase' = "done" /\ pos > Len(out)
      /\ buf_len' = data_base + dc
      /\ UNCHANGED << out, total_card, index, data_base >>
  BY DEF Finish, foldVars
<1>2. /\ Len(out) \in Nat /\ pos \in 1 .. Len(out) + 1 /\ data_base \in Nat /\ dc \in Nat
      /\ prev_end = data_base + dc /\ out \in Seq(Recorded)
      /\ data_base = data_section_off(Len(out), has_type(out, CT_BITMAP))
  BY <1>1 DEF RInv, IInv, TypeOK, CompactInv, Recorded
<1>3. /\ Len(index) = Len(out)
      /\ \A k \in 1 .. Len(out) : k \in 1 .. pos - 1 /\ Delivered(k, prev_end)
  <2>1. pos - 1 = Len(out)
    BY <1>1, <1>2
  <2> QED
    BY <1>1, <2>1 DEF RInv, MovedInv
<1>4. \A k \in 1 .. Len(out) :
        index[k].key = out[k].key /\ index[k].typ = out[k].typ /\ index[k].cardinality = out[k].card
  BY <1>3 DEF Delivered
<1>5. Covers(written', buf_len')
  BY AllWritten
<1>6. data_base = data_section_off(Len(index), has_type(index, CT_BITMAP))
  <2>1. has_type(index, CT_BITMAP) = has_type(out, CT_BITMAP)
    BY <1>3, <1>4 DEF has_type
  <2> QED
    BY <1>2, <1>3, <2>1
<1>7. data_base <= buf_len' /\ buf_len' = prev_end
  BY <1>1, <1>2
<1>8. KeySorted(index)
  BY <1>3, <1>4, AlreadySorted DEF KeySorted, RInv
<1>9. total_card = Total([k \in 1 .. Len(index) |-> index[k].cardinality], Len(index))
  <2> DEFINE c == CardsOf(out)
             d == [k \in 1 .. Len(index) |-> index[k].cardinality]
  <2>1. \A k \in 1 .. Len(out) : c[k] = d[k]
    BY <1>3, <1>4 DEF CardsOf
  <2>2. total_card = Total(c, Len(out))
    BY DEF TotalInv
  <2> HIDE DEF c, d
  <2>3. Total(d, Len(out)) = Total(c, Len(out))
    BY <1>2, <2>1, TotalFacts
  <2> QED
    BY <1>3, <2>2, <2>3 DEF d
<1>10. ASSUME NEW k \in 1 .. Len(out)
       PROVE  /\ 0 < index[k].cardinality /\ index[k].cardinality <= 65536
              /\ (Present(index[k]))'
              /\ data_base + index[k].data_offset + (Entry_size(index[k]))' <= buf_len'
              /\ index[k].typ = CT_BITMAP => (data_base + index[k].data_offset) % BUF_ALIGN = 0
  <2>1. 0 < index[k].cardinality /\ index[k].cardinality <= 65536
    BY <1>4 DEF TotalInv
  <2>2. (Present(index[k]))'
    BY AllPresent
  <2>3. (Entry_size(index[k]))' = out[k].data_size
    BY EntrySizes
  <2>4. data_base + index[k].data_offset + out[k].data_size <= prev_end
    BY <1>3 DEF Delivered
  <2>5. index[k].typ = CT_BITMAP => (data_base + index[k].data_offset) % BUF_ALIGN = 0
    BY <1>1, <1>3, <1>4 DEF WrittenInv
  <2> QED
    BY <1>7, <2>1, <2>2, <2>3, <2>4, <2>5
<1>11. ASSUME NEW k \in 1 .. Len(index')
       PROVE  (Readable(index[k]))'
  <2>1. k \in 1 .. Len(out)
    BY <1>1, <1>3
  <2> QED
    BY <1>1, <1>10, <2>1 DEF Readable
<1>12. (Covers(written, buf_len))' /\ (KeySorted(index))'
  <2>1. (Covers(written, buf_len))'
    BY <1>5 DEF Covers
  <2>2. (KeySorted(index))'
    BY <1>1, <1>8 DEF KeySorted
  <2> QED
    BY <2>1, <2>2
<1>13. (data_base = data_section_off(Len(index), has_type(index, CT_BITMAP)))'
  BY <1>1, <1>6 DEF has_type
<1>14. (data_base <= buf_len)' /\ (total_card = Total([k \in 1 .. Len(index) |-> index[k].cardinality], Len(index)))'
  BY <1>1, <1>7, <1>9
<1> QED
  BY <1>11, <1>12, <1>13, <1>14 DEF ResultParses, Readable

LEMMA PInductive ==
  ASSUME CapacitiesBounded
  PROVE  Spec => []PInv
<1>1. Init => PInv
  <2> SUFFICES ASSUME Init PROVE PInv
    OBVIOUS
  <2>1. out = << >> /\ mem = {} /\ phase = "layout" /\ total_card = 0
    BY DEF Init
  <2>2. TotalInv
    <3>1. Len(out) = 0
      BY <2>1
    <3>2. Total(CardsOf(out), 0) = 0
      BY TotalFacts
    <3> QED
      BY <2>1, <3>1, <3>2 DEF TotalInv
  <2> QED
    BY <2>1, <2>2, InitRInv DEF PInv, UniqueInv, WrittenInv, ResultParses
<1>2. ASSUME RInv, RInv', CapacitiesBounded, PInv, Next
      PROVE  PInv'
  <2>1. TotalInv' /\ UniqueInv' /\ WrittenInv'
    BY <1>2, TotalStep, UniqueStep, WrittenStep DEF PInv
  <2>2. CASE Finish
    BY <1>2, <2>1, <2>2, FinishParses DEF PInv
  <2>3. CASE ~ Finish
    <3>1. phase' # "done"
      BY <1>2, <2>3 DEF Next, LayoutSlot, LayoutDone, Fold, FoldKey, SeedSlot, ApplySlot,
                        FoldDone, FinalizeSlot, Serialize, CompactNext
    <3> QED
      BY <1>2, <2>1, <3>1 DEF PInv, ResultParses
  <2> QED
    BY <2>2, <2>3
<1>3. ASSUME RInv', PInv, UNCHANGED vars
      PROVE  PInv'
  <2>1. UNCHANGED << plan, phase, out, total_card, index, pos, prev_end, data_base, buf_len, mem, written >>
    BY <1>3 DEF vars, layoutVars, foldVars, compactVars
  <2>2. TotalInv'
    BY <1>3, <2>1 DEF PInv, TotalInv
  <2>3. UniqueInv'
    BY <1>3, <2>1 DEF PInv, UniqueInv, Payload, Landed
  <2>4. WrittenInv'
    BY <1>3, <2>1 DEF PInv, WrittenInv
  <2>5. ResultParses'
    BY <1>3, <2>1 DEF PInv, ResultParses, Present, Entry_size
  <2> QED
    BY <1>3, <2>2, <2>3, <2>4, <2>5 DEF PInv
<1>4. PInv => RInv
  BY DEF PInv
<1>5. RInv /\ RInv' /\ PInv /\ [Next]_vars => PInv'
  BY <1>2, <1>3
<1> QED
  BY <1>1, <1>4, <1>5, RInductive, PTL DEF Spec

\* For every such plan the finished result is one the reader accepts: the index
\* ascends, every entry's payload is inside the buffer, where the entry says,
\* and on its alignment; the cardinalities add up to the one handed out; and
\* every byte of the pooled buffer was written by this operation.
THEOREM ResultIsReadable ==
  ASSUME CapacitiesBounded
  PROVE  Spec => []ResultParses
<1>1. PInv => ResultParses
  BY DEF PInv
<1> QED
  BY <1>1, PInductive, PTL

=============================================================================
