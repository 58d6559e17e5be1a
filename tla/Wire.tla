-------------------------------- MODULE Wire --------------------------------
(***************************************************************************)
(* Frozen bytes: how the builder writes a set (src/api/builder.rs,         *)
(* src/format.rs) and how a reader finds its way in them (src/api/view.rs, *)
(* src/container.rs).  The layout arithmetic is FrozenFormat's; the widths *)
(* are scaled.  A u16 takes LOWS values, a key KEYS, a u32 value is a key  *)
(* and a low, and a bitmap word is one cell of WORD_BITS lows.             *)
(*                                                                         *)
(* Bytes are a record of the fields the layout places, with len the length *)
(* in bytes:                                                               *)
(*   [magic |-> "FI", count, vals, len]                                    *)
(*   [magic |-> "FROZ", version, flags, num, card, keys, cards,            *)
(*    type_offsets, data, len]                                             *)
(* data holds the u16 cells from the start of the data section on.         *)
(***************************************************************************)
EXTENDS FrozenFormat, Sequences, FiniteSets, SequencesExt, FiniteSetsExt

CONSTANTS
  LOWS,       \* 2^16: the lows of one key
  KEYS,       \* 2^16: the keys
  WORD_BITS   \* the lows of one bitmap word

ASSUME WireAssumption ==
  /\ LOWS \in Nat \ {0} /\ KEYS \in Nat \ {0} /\ WORD_BITS \in Nat \ {0}
  /\ LOWS % WORD_BITS = 0 /\ 2 ^ WORD_BITS <= LOWS

Lows   == 0 .. LOWS - 1
Keys   == 0 .. KEYS - 1
U32    == KEYS * LOWS
Values == 0 .. U32 - 1

u16(n) == n % LOWS
u32(n) == n % U32

key_of(v) == v \div LOWS
low_of(v) == v % LOWS

\* What is read where nothing is stored.
NONE == -1

\* A bitmap payload, and the most runs that are no larger.
bitmap_cells == LOWS \div WORD_BITS
bitmap_bytes == 2 * bitmap_cells
max_runs     == (bitmap_bytes - 2) \div 4

\* The lows of a set in ascending order.
sorted(s) == SelectSeq([i \in 1 .. U32 |-> i - 1], LAMBDA v : v \in s)

----------------------------------------------------------------------------
\* Payloads, as cells: an array its lows, a bitmap its words, a run container
\* its run count and a start and a length for each run.
bit(word, b) == (word \div 2 ^ b) % 2 = 1

bits(word) == {b \in 0 .. WORD_BITS - 1 : bit(word, b)}

count_ones(word) == Cardinality(bits(word))

runs(cells) ==
  [j \in 1 .. cells[1] |-> [start |-> cells[2 * j], len |-> cells[2 * j + 1]]]

\* Run::end adds in u16.
end(r) == u16(r.start + r.len)

\* Data::for_each: every low of a payload in the order it is visited.
for_each(typ, cells) ==
  CASE typ = CT_ARRAY  -> cells
    [] typ = CT_BITMAP ->
         sorted({v \in Lows : bit(cells[(v \div WORD_BITS) + 1], v % WORD_BITS)})
    [] typ = CT_RUN    ->
         FlattenSeq([j \in 1 .. cells[1] |->
           LET r == runs(cells)[j]
           IN  [v \in 1 .. end(r) - r.start + 1 |-> r.start + v - 1]])

\* Data::contains.  The searches are over sorted slices.
contains_low(typ, cells, lo) ==
  CASE typ = CT_ARRAY  -> lo \in Range(cells)
    [] typ = CT_BITMAP -> bit(cells[(lo \div WORD_BITS) + 1], lo % WORD_BITS)
    [] typ = CT_RUN    ->
         LET i == Cardinality({j \in 1 .. cells[1] : runs(cells)[j].start <= lo})
         IN  i > 0 /\ lo <= end(runs(cells)[i])

----------------------------------------------------------------------------
\* Finishing a container.
\* Mutant: a gap of one low joins two runs.
run_starts_joining(vals) ==
  {i \in DOMAIN vals : i = 1 \/ vals[i] > vals[i - 1] + 2}

\* The places in vals where a run begins, and where one ends.
run_starts(vals) ==
  {i \in DOMAIN vals : i = 1 \/ vals[i] # u16(vals[i - 1] + 1)}

run_ends(vals) ==
  {i \in DOMAIN vals : i = Len(vals) \/ i + 1 \in run_starts(vals)}

count_runs(vals) == Cardinality(run_starts(vals))

extract_runs(vals) ==
  LET at(s) == SelectSeq([i \in DOMAIN vals |-> i], LAMBDA i : i \in s)
  IN  << u16(count_runs(vals)) >> \o
      FlattenSeq([j \in 1 .. count_runs(vals) |->
        << vals[at(run_starts(vals))[j]],
           vals[at(run_ends(vals))[j]] - vals[at(run_starts(vals))[j]] >>])

bitmap_words(vals) ==
  [w \in 1 .. bitmap_cells |->
    MapThenSumSet(LAMBDA v : 2 ^ (v % WORD_BITS),
                  {v \in Range(vals) : v \div WORD_BITS = w - 1})]

\* Mutant: runs are compared with the array alone.
smallest_run_or_array(array_cost, run_cost) ==
  IF run_cost <= array_cost THEN CT_RUN
  ELSE IF array_cost <= bitmap_bytes THEN CT_ARRAY
  ELSE CT_BITMAP

\* The smallest of the three payloads, by byte costs.
smallest(array_cost, run_cost) ==
  IF run_cost <= array_cost /\ run_cost <= bitmap_bytes THEN CT_RUN
  ELSE IF array_cost <= bitmap_bytes THEN CT_ARRAY
  ELSE CT_BITMAP

build_container(key, vals) ==
  LET typ == smallest(2 * Len(vals), run_bytes(count_runs(vals)))
  IN  [ key   |-> key,
        typ   |-> typ,
        card  |-> Len(vals),
        cells |-> CASE typ = CT_RUN    -> extract_runs(vals)
                    [] typ = CT_ARRAY  -> vals
                    [] typ = CT_BITMAP -> bitmap_words(vals) ]

----------------------------------------------------------------------------
\* Serializing the finished containers c of a set of total_card values.
some_typ(c, typ) == \E i \in DOMAIN c : c[i].typ = typ

\* Mutant: payloads follow each other without alignment.
ends_packed(c) ==
  LET to[i \in 0 .. Len(c)] == IF i = 0 THEN 0 ELSE to[i - 1] + 2 * Len(c[i].cells)
  IN  to

\* Where each payload ends, counted from the data section.
ends(c) ==
  LET to[i \in 0 .. Len(c)] ==
        IF i = 0 THEN 0
        ELSE align_up(to[i - 1], payload_align(c[i].typ)) + 2 * Len(c[i].cells)
  IN  to

offset(c, i) == ends(c)[i] - 2 * Len(c[i].cells)

layout(c) ==
  data_section_off(Len(c), some_typ(c, CT_BITMAP)) + ends(c)[Len(c)]

\* Mutant: a full set is not flagged.
header_flags_never_full(c, total_card) ==
  { f \in {"HAS_RUNS", "HAS_BITMAP"} :
      CASE f = "HAS_RUNS"   -> some_typ(c, CT_RUN)
        [] f = "HAS_BITMAP" -> some_typ(c, CT_BITMAP) }

header_flags(c, total_card) ==
  { f \in {"HAS_RUNS", "HAS_BITMAP", "FULL"} :
      CASE f = "HAS_RUNS"   -> some_typ(c, CT_RUN)
        [] f = "HAS_BITMAP" -> some_typ(c, CT_BITMAP)
        [] f = "FULL"       -> total_card = U32 }

VERSION == 3

serialize_standard(c, total_card) ==
  [ magic   |-> "FROZ",
    version |-> VERSION,
    flags   |-> header_flags(c, total_card),
    num     |-> Len(c),
    card    |-> u32(total_card),
    keys    |-> [i \in DOMAIN c |-> c[i].key],
    cards   |-> [i \in DOMAIN c |-> u16(c[i].card - 1)],
    type_offsets |-> [i \in DOMAIN c |-> [typ |-> c[i].typ, off |-> offset(c, i)]],
    data    |-> [ j \in 1 .. ends(c)[Len(c)] \div 2 |->
                  LET own == {i \in DOMAIN c :
                                offset(c, i) < 2 * j /\ 2 * j <= ends(c)[i]}
                  IN  IF own = {} THEN 0
                      ELSE LET i == CHOOSE i \in own : TRUE
                           IN  c[i].cells[j - offset(c, i) \div 2] ],
    len     |-> layout(c) ]

serialize_inline(c, count) ==
  [ magic |-> "FI",
    count |-> u16(count),
    vals  |-> FlattenSeq([i \in DOMAIN c |->
                LET lows == for_each(c[i].typ, c[i].cells)
                IN  [j \in DOMAIN lows |-> c[i].key * LOWS + lows[j]]]),
    len   |-> inline_size(count) ]

\* Mutant: the count's width is forgotten.
inline_max_any == U32

\* The most values an inline count can say.
inline_max == LOWS - 1

finish(c, total_card) ==
  IF total_card <= inline_max /\ inline_size(total_card) < layout(c)
  THEN serialize_inline(c, total_card)
  ELSE serialize_standard(c, total_card)

----------------------------------------------------------------------------
\* Reading.  Header::parse gives the cardinality, read_index_entry a slot.
has_inline_magic(b) == b.magic = "FI"

header_cardinality(b) == IF "FULL" \in b.flags THEN U32 ELSE b.card

data_base(b) == data_section_off(b.num, "HAS_BITMAP" \in b.flags)

entry(b, i) ==
  [ key         |-> b.keys[i],
    typ         |-> b.type_offsets[i].typ,
    cardinality |-> b.cards[i] + 1,
    data_offset |-> b.type_offsets[i].off ]

\* The u16 at byte o of the data section.  At an odd byte two cells share it;
\* no reader gets there, the casts are of aligned payloads.
cell(b, o) ==
  IF o % 2 = 0 /\ o \div 2 + 1 \in DOMAIN b.data THEN b.data[o \div 2 + 1] ELSE NONE

\* The payload of entry e, size bytes long.
payload(b, e, size) ==
  [j \in 1 .. size \div 2 |-> cell(b, e.data_offset + 2 * (j - 1))]

payload_size(b, e) ==
  CASE e.typ = CT_ARRAY  -> 2 * e.cardinality
    [] e.typ = CT_BITMAP -> bitmap_bytes
    [] e.typ = CT_RUN    -> run_bytes(cell(b, e.data_offset))

=============================================================================
