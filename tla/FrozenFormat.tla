---------------------------- MODULE FrozenFormat ----------------------------
(***************************************************************************)
(* The wire-format arithmetic of frostbit (src/format.rs): the constants,  *)
(* container sizes, alignment and the offsets of the standard layout.      *)
(* Every operator is a pure function of naturals; the modules that lay out *)
(* or move payloads are built from these.                                  *)
(***************************************************************************)
EXTENDS Integers

----------------------------------------------------------------------------
\* Container types.  CT_INLINE marks a key group of an inline bitmap; it is
\* never stored.
CT_ARRAY  == 0
CT_BITMAP == 1
CT_RUN    == 2
CT_INLINE == 3

\* Container sizing.
BITMAP_WORDS   == 1024
BITMAP_BYTES   == BITMAP_WORDS * 8
ARRAY_MAX_SIZE == 4096
MAX_RUNS       == (BITMAP_BYTES - 2) \div 4

\* A u16 count, then nr (start, len) pairs.
run_bytes(nr) == 2 + nr * 4

\* Stored payload bytes of a container (an inline group is sized as an array).
stored_bytes(typ, card, nr) ==
  CASE typ = CT_BITMAP -> BITMAP_BYTES
    [] typ = CT_RUN    -> run_bytes(nr)
    [] OTHER           -> card * 2

----------------------------------------------------------------------------
\* Alignment.
BUF_ALIGN  == 64
WORD_ALIGN == 8

\* The least multiple of align that is >= n (the source masks the low bits of
\* n + align - 1, align being a power of two).
align_up(n, align) == ((n + align - 1) \div align) * align

\* Alignment of a payload inside the data section.
payload_align(typ) == IF typ = CT_BITMAP THEN BUF_ALIGN ELSE 2

----------------------------------------------------------------------------
\* The standard layout: 16-byte header, structure-of-arrays index, payloads.
HEADER_SIZE == 16

index_size(n) == 8 * n

data_section_off(n, has_bitmap) ==
  align_up(HEADER_SIZE + index_size(n),
           IF has_bitmap THEN BUF_ALIGN ELSE WORD_ALIGN)

keys_off            == HEADER_SIZE
cards_off(n)        == HEADER_SIZE + 2 * n
type_offsets_off(n) == HEADER_SIZE + 4 * n

\* The byte ranges write_index_entry touches for entry i (counted from 1) of n.
index_entry_ranges(n, i) ==
  { << keys_off + 2 * (i - 1), keys_off + 2 * i >>,
    << cards_off(n) + 2 * (i - 1), cards_off(n) + 2 * i >>,
    << type_offsets_off(n) + 4 * (i - 1), type_offsets_off(n) + 4 * i >> }

----------------------------------------------------------------------------
\* The inline layout: "FI", a u16 count, then packed u32 values.
INLINE_HEADER_SIZE == 4
INLINE_MAX_COUNT   == 65535

inline_size(n) == align_up(INLINE_HEADER_SIZE + 4 * n, WORD_ALIGN)

=============================================================================
