------------------------------- MODULE MCView -------------------------------
(***************************************************************************)
(* Small instances of View: the bytes that are opened.                     *)
(***************************************************************************)
EXTENDS View

Cells(n, s) == UNION {[1 .. m -> s] : m \in 0 .. n}

Slot(key, card, typ, off) ==
  [key |-> key, card |-> card, type_offset |-> [typ |-> typ, off |-> off]]

\* Standard bytes with these slots and data, and this in the header.
Standard(slots, data, card, flags, short) ==
  [ magic   |-> "FROZ",
    version |-> VERSION,
    flags   |-> flags,
    num     |-> Len(slots),
    card    |-> card,
    keys    |-> [i \in DOMAIN slots |-> slots[i].key],
    cards   |-> [i \in DOMAIN slots |-> slots[i].card],
    type_offsets |-> [i \in DOMAIN slots |-> slots[i].type_offset],
    data    |-> data,
    len     |-> data_section_off(Len(slots), "HAS_BITMAP" \in flags)
                + 2 * Len(data) - short ]

\* One slot over data of any length, the payload where the slot says or not.
One(typ, card, off, data, flags) ==
  << Standard(<< Slot(0, card, typ, off) >>, data, u32(card + 1), flags, 0), 0 >>

Arrays  == {One(CT_ARRAY, c, 0, d, {}) : c \in Lows, d \in Cells(4, Lows)}
Runs    == {One(CT_RUN, c, 0, << nr >> \o d, {"HAS_RUNS"}) :
              c \in Lows, nr \in 0 .. 3, d \in Cells(4, Lows)}
Bitmaps == {One(CT_BITMAP, c, 0, d, {"HAS_BITMAP"}) : c \in Lows, d \in Cells(5, {0, 1})}
Elsewhere ==
  {One(typ, c, off, d, {}) :
     typ \in CT_ARRAY .. CT_INLINE, c \in Lows, off \in {1, 2, 8}, d \in Cells(3, {0, 1, 3})}

\* Headers that count wrongly, or say the set is full.
Counted ==
  {<< Standard(<< Slot(0, c, typ, 0) >>, d, n, flags, 0), 0 >> :
     typ \in {CT_ARRAY, CT_RUN}, c \in Lows, n \in {0, 1, 4}, flags \in {{}, {"FULL"}},
     d \in {<< 0, 1, 2, 3, 4 >>, << 0, 1, 2, 4, 3 >>, << 1, 0, 4 >>, << 1, 2, 0 >>}}

\* Inline values in and out of order, in room for two or one, at any address.
Inline ==
  {<< [magic |-> "FI", count |-> n, vals |-> v, len |-> 4 * room], at >> :
     n \in 0 .. 2, v \in [1 .. 2 -> Values], room \in {2, 3}, at \in {0, 2, 4}}

\* Bytes that end too soon, begin at the wrong address or are something else.
Others ==
  {<< [Standard(<< >>, << >>, 0, f, n) EXCEPT !.version = v, !.magic = m], at >> :
     n \in {0, 1, 40}, f \in {{}, {"HAS_BITMAP"}}, v \in {2, 3}, m \in {"FROZ", "none"},
     at \in {0, 4}}

\* Two slots, keys and payloads in any order, apart or on the same cells.
TwoKeys ==
  {<< Standard(<< s, t >>, d, u32(s.card + t.card + 2), {}, 0), 0 >> :
     s, t \in {Slot(k, c, typ, off) :
                 k \in Keys, c \in {0, 1}, typ \in {CT_ARRAY, CT_RUN}, off \in {0, 4}},
     d \in [1 .. 4 -> {0, 1, 2, 3}]}

MCCandidates == << Arrays, Runs, Bitmaps, Elsewhere, Counted, Inline, Others, TwoKeys >>
=============================================================================
