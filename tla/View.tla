-------------------------------- MODULE View --------------------------------
(***************************************************************************)
(* FrozenBitmapView and Iter (src/api/view.rs): bytes are accepted or      *)
(* refused once, and every later query and iteration reads them in place   *)
(* on the strength of that.  Bytes the program made itself are wrapped     *)
(* without the examination.                                                *)
(***************************************************************************)
EXTENDS Wire

CONSTANTS
  Candidates,  \* bytes that are opened from outside, as << bytes, address % 8 >>:
               \* a sequence of sets of them
  EXTRA        \* the bound on calls of next after the first None

ASSUME ViewAssumption ==
  EXTRA \in Nat /\ \A i \in DOMAIN Candidates : \A c \in Candidates[i] : c[2] \in 0 .. 7

VARIABLES
  buf,        \* the bytes; NoBytes before any
  base,       \* their address modulo 8
  view,       \* NotOpened, Refused, or the view
  mode,       \* the iterator: NotIterating, or its Mode
  remaining,  \* Iter::remaining
  yielded,    \* ghost: the values next returned
  nones       \* ghost: how often it returned None

viewVars == << buf, base, view, mode, remaining, yielded, nones >>

NoBytes      == [magic |-> "none"]
NotOpened    == [repr |-> "not opened"]
Refused      == [repr |-> "refused"]
NotIterating == [kind |-> "none"]

Opened == view.repr \in {"Inline", "Standard"}

----------------------------------------------------------------------------
\* Examining bytes b at an address a.
parse_inline(b, a) ==
  /\ b.len >= INLINE_HEADER_SIZE
  /\ b.len >= INLINE_HEADER_SIZE + 4 * b.count
  /\ b.count > 0 => a % 4 = 0
  /\ \A i \in 2 .. b.count : b.vals[i] > b.vals[i - 1]

header_parses(b) ==
  /\ b.len >= HEADER_SIZE
  /\ b.magic = "FROZ"
  /\ b.version = VERSION

array_is_valid(p) == \A j \in 2 .. Len(p) : p[j - 1] < p[j]

bitmap_is_valid(p, card) ==
  MapThenSumSet(LAMBDA w : count_ones(p[w]), DOMAIN p) = card

\* Mutant: the end of a run is computed in u16, as Run::end does.
run_past_u16(r, pe) == u16(r.start + r.len) <= LOWS - 1 /\ r.start > pe

\* Mutant: a run may begin at the end of the one before.
run_past_touching(r, pe) == r.start + r.len <= LOWS - 1 /\ r.start >= pe

\* A run in range and past the end of the one before.
run_past(r, pe) == r.start + r.len <= LOWS - 1 /\ r.start > pe

runs_are_valid(p, card) ==
  /\ p[1] \in 1 .. max_runs
  /\ \A j \in 1 .. p[1] :
       run_past(runs(p)[j],
                IF j = 1 THEN NONE ELSE runs(p)[j - 1].start + runs(p)[j - 1].len)
  /\ MapThenSumSet(LAMBDA j : runs(p)[j].len + 1, 1 .. p[1]) = card

\* Mutant: only the bytes of a payload are looked at, not their sense.
payload_is_valid_unread(p, start, typ, card) == start % 2 = 0

\* The contents of a payload p that starts at byte start.
payload_is_valid(p, start, typ, card) ==
  CASE typ = CT_ARRAY  -> start % 2 = 0 /\ array_is_valid(p)
    [] typ = CT_BITMAP -> start % WORD_ALIGN = 0 /\ bitmap_is_valid(p, card)
    [] typ = CT_RUN    -> start % 2 = 0 /\ runs_are_valid(p, card)

container_is_valid(b, e) ==
  LET start == data_base(b) + e.data_offset
  IN  /\ e.typ \in {CT_ARRAY, CT_BITMAP, CT_RUN}
      /\ e.typ = CT_RUN => start + 2 <= b.len
      /\ start + payload_size(b, e) <= b.len
      /\ payload_is_valid(payload(b, e, payload_size(b, e)), start, e.typ, e.cardinality)

\* Mutant: keys may repeat.
keys_ascend_weakly(b) == \A i \in 2 .. b.num : b.keys[i] >= b.keys[i - 1]

keys_ascend(b) == \A i \in 2 .. b.num : b.keys[i] > b.keys[i - 1]

\* Mutant: the slots' cardinalities are not added up.
cards_agree_never_asked(b) == TRUE

cards_agree(b) ==
  MapThenSumSet(LAMBDA i : entry(b, i).cardinality, 1 .. b.num) = header_cardinality(b)

parse_standard(b, a) ==
  /\ a % WORD_ALIGN = 0
  /\ header_parses(b)
  /\ b.len >= HEADER_SIZE + index_size(b.num)
  /\ b.len >= data_base(b)
  /\ keys_ascend(b)
  /\ \A i \in 1 .. b.num : container_is_valid(b, entry(b, i))
  /\ cards_agree(b)

from_bytes_trusted(b) ==
  IF has_inline_magic(b)
  THEN [repr |-> "Inline", n |-> b.count, cardinality |-> b.count]
  ELSE [repr |-> "Standard", n |-> b.num, cardinality |-> header_cardinality(b)]

from_bytes(b, a) ==
  IF IF has_inline_magic(b) THEN parse_inline(b, a) ELSE parse_standard(b, a)
  THEN from_bytes_trusted(b)
  ELSE Refused

----------------------------------------------------------------------------
\* Queries of a view v over bytes b.
contains(b, v, value) ==
  IF v.repr = "Inline"
  THEN \E i \in 1 .. v.n : b.vals[i] = value
  ELSE \E i \in 1 .. v.n :
         LET e == entry(b, i)
         IN  /\ e.key = key_of(value)
             /\ contains_low(e.typ, payload(b, e, payload_size(b, e)), low_of(value))

\* The words of a bitmap payload that are not zero, counted from 0.
used_words(b, e) ==
  {w \in 0 .. bitmap_cells - 1 : bits(cell(b, e.data_offset + 2 * w)) # {}}

bitmap_first(b, e) ==
  IF used_words(b, e) = {} THEN 0
  ELSE LET w == Min(used_words(b, e))
       IN  w * WORD_BITS + Min(bits(cell(b, e.data_offset + 2 * w)))

\* Mutant: the last word's first bit.
bitmap_last_trailing(b, e) ==
  IF used_words(b, e) = {} THEN 0
  ELSE LET w == Max(used_words(b, e))
       IN  w * WORD_BITS + Min(bits(cell(b, e.data_offset + 2 * w)))

bitmap_last(b, e) ==
  IF used_words(b, e) = {} THEN 0
  ELSE LET w == Max(used_words(b, e))
       IN  w * WORD_BITS + Max(bits(cell(b, e.data_offset + 2 * w)))

container_min(b, e) ==
  CASE e.typ = CT_ARRAY  -> cell(b, e.data_offset)
    [] e.typ = CT_RUN    -> cell(b, e.data_offset + 2)
    [] e.typ = CT_BITMAP -> bitmap_first(b, e)

container_max(b, e) ==
  CASE e.typ = CT_ARRAY  -> cell(b, e.data_offset + 2 * (e.cardinality - 1))
    [] e.typ = CT_RUN    ->
         LET off == e.data_offset + 2 + 4 * (cell(b, e.data_offset) - 1)
         IN  u16(cell(b, off) + cell(b, off + 2))
    [] e.typ = CT_BITMAP -> bitmap_last(b, e)

min_value(b, v) ==
  CASE v.n = 0           -> NONE
    [] v.repr = "Inline" -> b.vals[1]
    [] OTHER             -> entry(b, 1).key * LOWS + container_min(b, entry(b, 1))

max_value(b, v) ==
  CASE v.n = 0           -> NONE
    [] v.repr = "Inline" -> b.vals[v.n]
    [] OTHER             -> entry(b, v.n).key * LOWS + container_max(b, entry(b, v.n))

----------------------------------------------------------------------------
\* Iteration.  Cont is where it is inside one container.
Done == [typ |-> NONE]

cont_of(e) ==
  CASE e.typ = CT_ARRAY  ->
         [typ |-> CT_ARRAY, at |-> e.data_offset, card |-> e.cardinality, i |-> 0]
    [] e.typ = CT_BITMAP ->
         [typ |-> CT_BITMAP, at |-> e.data_offset, word_idx |-> 0,
          word |-> bits(cell(buf, e.data_offset))]
    [] e.typ = CT_RUN    ->
         [typ |-> CT_RUN, at |-> e.data_offset, nr |-> cell(buf, e.data_offset), ri |-> 0,
          cur |-> cell(buf, e.data_offset + 2),
          end |-> cell(buf, e.data_offset + 2) + cell(buf, e.data_offset + 4)]

\* next_lo: the next low of a container, or NONE, and where it is then.
array_next(c) ==
  IF c.i >= c.card THEN << NONE, c >>
  ELSE << cell(buf, c.at + 2 * c.i), [c EXCEPT !.i = @ + 1] >>

\* The word the loop stops at: the next one with a bit left.
word_from(c) ==
  LET later == {w \in c.word_idx + 1 .. bitmap_cells - 1 : bits(cell(buf, c.at + 2 * w)) # {}}
  IN  IF c.word # {} THEN c
      ELSE IF later = {}
      THEN [c EXCEPT !.word_idx = Max({bitmap_cells, c.word_idx + 1})]
      ELSE [c EXCEPT !.word_idx = Min(later), !.word = bits(cell(buf, c.at + 2 * Min(later)))]

bitmap_next(c) ==
  LET d == word_from(c)
  IN  IF d.word = {} THEN << NONE, d >>
      ELSE << d.word_idx * WORD_BITS + Min(d.word),
              [d EXCEPT !.word = @ \ {Min(@)}] >>

\* Mutant: a run is left at its last value.
run_over_at_end(c) == c.cur >= c.end

\* A run's last value may be the last low: one past it is still a u32.
run_over(c) == c.cur > c.end

run_next(c) ==
  LET turn == run_over(c)
      off  == c.at + 2 + 4 * (c.ri + 1)
      d    == IF turn
              THEN [c EXCEPT !.ri = @ + 1, !.cur = cell(buf, off),
                             !.end = cell(buf, off) + cell(buf, off + 2)]
              ELSE c
  IN  IF turn /\ c.ri + 1 >= c.nr THEN << NONE, [c EXCEPT !.ri = @ + 1] >>
      ELSE << d.cur, [d EXCEPT !.cur = @ + 1] >>

next_lo(c) ==
  CASE c.typ = CT_ARRAY  -> array_next(c)
    [] c.typ = CT_BITMAP -> bitmap_next(c)
    [] c.typ = CT_RUN    -> run_next(c)
    [] OTHER             -> << NONE, c >>

Parse ==
  /\ view = NotOpened
  /\ buf # NoBytes
  /\ view' = from_bytes(buf, base)
  /\ UNCHANGED << buf, base, mode, remaining, yielded, nones >>

Iterate ==
  /\ Opened
  /\ mode = NotIterating
  /\ mode' = IF view.repr = "Inline"
             THEN [kind |-> "Inline", pos |-> 0]
             ELSE [kind |-> "Standard", ci |-> 0, hi |-> 0, cont |-> Done]
  /\ remaining' = view.cardinality
  /\ UNCHANGED << buf, base, view, yielded, nones >>

Yield(v) ==
  /\ yielded' = Append(yielded, v)
  /\ remaining' = remaining - 1
  /\ UNCHANGED << buf, base, view, nones >>

ReturnNone ==
  /\ nones <= EXTRA
  /\ nones' = nones + 1
  /\ UNCHANGED << buf, base, view, remaining, yielded >>

\* One call of next over inline values.
NextInline ==
  /\ mode.kind = "Inline"
  /\ IF mode.pos >= view.n
     THEN ReturnNone /\ UNCHANGED mode
     ELSE /\ mode' = [mode EXCEPT !.pos = @ + 1]
          /\ Yield(buf.vals[mode.pos + 1])

\* The turns of next's loop over containers: the open container gives a low,
\* or is left for the next one, or there is no next one.
NextLow ==
  /\ mode.kind = "Standard"
  /\ LET r == next_lo(mode.cont)
     IN  /\ r[1] # NONE
         /\ mode' = [mode EXCEPT !.cont = r[2]]
         /\ Yield(mode.hi + r[1])

NextContainer ==
  /\ mode.kind = "Standard"
  /\ next_lo(mode.cont)[1] = NONE
  /\ mode.ci < view.n
  /\ LET e == entry(buf, mode.ci + 1)
     IN  mode' = [mode EXCEPT !.ci = @ + 1, !.hi = e.key * LOWS, !.cont = cont_of(e)]
  /\ UNCHANGED << buf, base, view, remaining, yielded, nones >>

\* Mutant: the end of the index is looked for one slot late.
NextNone_late ==
  /\ mode.kind = "Standard"
  /\ next_lo(mode.cont)[1] = NONE
  /\ mode.ci > view.n
  /\ mode' = [mode EXCEPT !.cont = next_lo(@)[2]]
  /\ ReturnNone

NextNone ==
  /\ mode.kind = "Standard"
  /\ next_lo(mode.cont)[1] = NONE
  /\ mode.ci >= view.n
  /\ mode' = [mode EXCEPT !.cont = next_lo(@)[2]]
  /\ ReturnNone

IterNext == NextInline \/ NextLow \/ NextContainer \/ NextNone

ViewInit ==
  /\ \E i \in DOMAIN Candidates : \E c \in Candidates[i] : buf = c[1] /\ base = c[2]
  /\ view = NotOpened
  /\ mode = NotIterating
  /\ remaining = 0
  /\ yielded = << >>
  /\ nones = 0

ViewNext == Parse \/ Iterate \/ IterNext

\* One caller, on one thread, calls next until it has what it wants.
ViewSpec == ViewInit /\ [][ViewNext]_viewVars /\ WF_viewVars(ViewNext)

----------------------------------------------------------------------------
\* The set that bytes denote, read off the format's definition.
denotes(b) ==
  IF has_inline_magic(b) THEN {b.vals[i] : i \in 1 .. b.count}
  ELSE UNION { LET e    == entry(b, i)
                   p    == payload(b, e, payload_size(b, e))
                   lows == CASE e.typ = CT_ARRAY  -> Range(p)
                             [] e.typ = CT_BITMAP ->
                                  {lo \in Lows : lo % WORD_BITS
                                                   \in bits(p[(lo \div WORD_BITS) + 1])}
                             [] e.typ = CT_RUN    ->
                                  UNION {runs(p)[j].start .. runs(p)[j].start + runs(p)[j].len :
                                           j \in 1 .. p[1]}
               IN  {e.key * LOWS + lo : lo \in lows} : i \in 1 .. b.num }

\* An iterator's count of what is left never goes below zero
\* (a u64, in next), and neither a value nor a place is read off the data.
ViewTypeOK ==
  /\ view.repr \in {"not opened", "refused", "Inline", "Standard"}
  /\ Opened => view.n \in 0 .. U32 /\ view.cardinality \in 0 .. U32
  /\ remaining \in 0 .. U32
  /\ Range(yielded) \subseteq Values
  /\ nones \in 0 .. EXTRA + 1
  /\ mode.kind = "Standard" /\ mode.cont.typ = CT_RUN =>
       /\ mode.cont.nr \in 1 .. max_runs
       /\ mode.cont.cur \in 0 .. LOWS /\ mode.cont.end \in Lows

\* Invariant: what from_bytes accepts, every query reads right: contains for
\* each value there is, min, max and len give the set the bytes denote, with
\* the u16 arithmetic and the searches that take order for granted.
QueriesExact ==
  Opened =>
    LET s == denotes(buf)
    IN  /\ \A v \in Values : contains(buf, view, v) <=> v \in s
        /\ min_value(buf, view) = IF s = {} THEN NONE ELSE Min(s)
        /\ max_value(buf, view) = IF s = {} THEN NONE ELSE Max(s)
        /\ view.cardinality = Cardinality(s)

\* Invariant: size_hint is exact at every point of an iteration, so the count it
\* is made of never wraps, and places stay within the container they are in.
RemainingExact ==
  /\ ViewTypeOK
  /\ mode # NotIterating => remaining + Len(yielded) = Cardinality(denotes(buf))

\* What the program says of accepted bytes: no stored container exceeds a
\* bitmap, which is what keeps the capacity of every slot within one.
ContainersFitBitmap ==
  Opened /\ view.repr = "Standard" =>
    \A i \in 1 .. view.n : payload_size(buf, entry(buf, i)) <= bitmap_bytes

\* Refinement: an accepted view is a frozen set, and its iterator gives that
\* set's values in order, each once, and says it is over only after the last.
Reading == INSTANCE ValueSet WITH
  Elements <- Values,
  set      <- IF from_bytes(buf, base) = Refused THEN {} ELSE denotes(buf),
  frozen   <- TRUE,
  given    <- yielded,
  over     <- nones > 0

ImplementsReading == Reading!ReadSpec

\* Liveness: bytes are accepted or refused, and an iterator of accepted bytes
\* comes to its end.
IterationEnds ==
  /\ view = NotOpened ~> view # NotOpened
  /\ Opened ~> nones > 0

=============================================================================
