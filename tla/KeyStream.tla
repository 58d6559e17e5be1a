----------------------------- MODULE KeyStream ------------------------------
(***************************************************************************)
(* What every walk of a fold promises, with no cursors in it: the kernels  *)
(* are handed each container they need exactly once, keys ascending within *)
(* each input, the minuend of a difference before what is subtracted from  *)
(* it; and the walk ends only when nothing is missing.                     *)
(***************************************************************************)
EXTENDS Integers, Sequences, SequencesExt, Functions

CONSTANTS
  Keys,    \* container keys
  Inputs   \* positions of the inputs

VARIABLES
  wanted,   \* for each key, the inputs whose container the result depends on
  lead,     \* the input that comes first at each key, 0 if any order will do
  given,    \* for each key, the inputs handed over so far
  spent,    \* keys at which nothing is left to subtract from
  finished

streamVars == << wanted, lead, given, spent, finished >>

StreamInit ==
  /\ wanted \in [Keys -> SUBSET Inputs]
  /\ lead \in Inputs \cup {0}
  /\ given = [k \in Keys |-> << >>]
  /\ spent = {}
  /\ finished = FALSE

Deliver ==
  \E k \in Keys \ spent :
    \E s \in SetToAllKPermutations(wanted[k] \ Range(given[k])) :
      /\ ~finished
      /\ s # << >>
      /\ \A i \in Range(s), q \in Keys : i \in Range(given[q]) => q < k
      /\ lead # 0 /\ given[k] = << >> => s[1] = lead
      /\ given' = [given EXCEPT ![k] = @ \o s]
      /\ \/ UNCHANGED spent
         \/ lead # 0 /\ Len(given'[k]) > 1 /\ spent' = spent \cup {k}
      /\ UNCHANGED << wanted, lead, finished >>

Finish ==
  /\ ~finished
  /\ \A k \in Keys \ spent : Range(given[k]) = wanted[k]
  /\ finished' = TRUE
  /\ UNCHANGED << wanted, lead, given, spent >>

StreamNext == Deliver \/ Finish

StreamSpec == StreamInit /\ [][StreamNext]_streamVars
=============================================================================
