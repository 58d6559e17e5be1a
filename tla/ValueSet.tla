------------------------------ MODULE ValueSet ------------------------------
(***************************************************************************)
(* What a frozen bitmap promises, with no bytes in it: a set grows by      *)
(* ascending values, is frozen, and from then on is only read; one pass of *)
(* an iterator gives every value once, in ascending order, and says it is  *)
(* done when there is none left.                                           *)
(***************************************************************************)
EXTENDS Integers, Sequences, FiniteSets, Functions

CONSTANT Elements   \* the values a set may hold

VARIABLES
  set,      \* the values
  frozen,   \* whether the set can still grow
  given,    \* what the iterator gave
  over      \* whether it said there is no more

setVars == << set, frozen, given, over >>

ValueSetTypeOK ==
  /\ set \subseteq Elements
  /\ frozen \in BOOLEAN /\ over \in BOOLEAN
  /\ Range(given) \subseteq set

NotGiven == set \ Range(given)

Add ==
  /\ ~ frozen
  /\ \E v \in Elements :
       /\ \A u \in set : u < v
       /\ set' = set \cup {v}
  /\ UNCHANGED << frozen, given, over >>

Freeze ==
  /\ ~ frozen
  /\ frozen' = TRUE
  /\ UNCHANGED << set, given, over >>

Give ==
  /\ frozen
  /\ \E v \in NotGiven :
       /\ \A u \in NotGiven : v <= u
       /\ given' = Append(given, v)
  /\ UNCHANGED << set, frozen, over >>

Over ==
  /\ frozen
  /\ NotGiven = {}
  /\ over' = TRUE
  /\ UNCHANGED << set, frozen, given >>

ValueSetNext == Add \/ Freeze \/ Give \/ Over

\* A set being built, and a set that is already frozen.
BuildSpec ==
  /\ set = {} /\ frozen = FALSE /\ given = << >> /\ over = FALSE
  /\ [][ValueSetNext]_setVars

ReadSpec ==
  /\ set \subseteq Elements /\ frozen = TRUE /\ given = << >> /\ over = FALSE
  /\ [][ValueSetNext]_setVars
=============================================================================
