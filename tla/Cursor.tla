------------------------------- MODULE Cursor --------------------------------
(***************************************************************************)
(* The ascending cursor every planner and kernel walks its inputs with     *)
(* (src/ops/cursor.rs): over the containers of a standard bitmap, the      *)
(* values of an inline one, the records of an arena, or the entries of a   *)
(* predicted shape.  A cursor with a mask rests on live keys only.         *)
(***************************************************************************)
EXTENDS Integers, Sequences, FiniteSetsExt

CONSTANT KeyCount   \* container keys are 0 .. KeyCount - 1

ASSUME CursorAssumption == KeyCount \in Nat \ {0}

Keys == 0 .. KeyCount - 1

\* What an exhausted cursor's key is taken to be: no key, and above each.
END == KeyCount

\* `at` holds the key at every position: ascending, and in an inline bitmap,
\* where a position is a value, repeated for each value of the block.
cursor_over(kind, at, live) == [kind |-> kind, at |-> at, live |-> live, pos |-> 1]

peek_key(c) == IF c.pos <= Len(c.at) THEN c.at[c.pos] ELSE END

\* To the first position from c's on whose key is in K, or just past the end.
seek(c, K) ==
  [c EXCEPT !.pos = CHOOSE p \in @ .. Len(c.at) + 1 :
                       /\ p > Len(c.at) \/ c.at[p] \in K
                       /\ \A q \in @ .. p - 1 : c.at[q] \notin K]

\* Past the current container.
advance_raw(c) ==
  IF c.pos > Len(c.at) THEN c
  ELSE IF c.kind = "inline" THEN seek(c, Keys \ {peek_key(c)})
  ELSE [c EXCEPT !.pos = @ + 1]

skip_dead(c) == seek(c, c.live)

advance(c) == skip_dead(advance_raw(c))

\* Up to `target`: whether it is there is decided before dead keys are skipped.
advance_to(c, target) ==
  IF peek_key(c) = target
  THEN [hit |-> TRUE, c |-> c]
  ELSE LET d == seek(c, target .. END)
       IN  [hit |-> peek_key(d) = target, c |-> skip_dead(d)]

\* The container under the cursor: its key and the positions it spans.
\* Mutant: an inline container is its first value.
get_first(c) == [key |-> peek_key(c), from |-> c.pos, upto |-> c.pos]
get(c) ==
  [ key  |-> peek_key(c),
    from |-> c.pos,
    upto |-> IF c.kind = "inline" THEN seek(c, Keys \ {peek_key(c)}).pos - 1
             ELSE c.pos ]

min_key(cs) == Min({peek_key(cs[i]) : i \in DOMAIN cs} \cup {END})
=============================================================================
