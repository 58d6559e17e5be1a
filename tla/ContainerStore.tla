--------------------------- MODULE ContainerStore ---------------------------
(***************************************************************************)
(* What the working arena of a set operation promises, with no bytes in    *)
(* it: a fold records containers in strictly ascending key order, and the  *)
(* one serialization at the end hands out exactly what was recorded.       *)
(***************************************************************************)
EXTENDS Integers, Sequences

CONSTANTS
  Keys,    \* container keys
  Cards    \* cardinalities a recorded container can have

VARIABLES
  recorded,  \* the containers recorded so far, as [key, card]
  handed     \* the serialized result: << >>, or << the containers it decodes to >>

storeVars == << recorded, handed >>

NoResult == << >>

StoreTypeOK ==
  /\ recorded \subseteq [key : Keys, card : Cards]
  /\ handed \in Seq(SUBSET [key : Keys, card : Cards]) /\ Len(handed) <= 1

StoreInit ==
  /\ recorded = {}
  /\ handed = NoResult

RecordContainer ==
  \E k \in Keys, c \in Cards :
    /\ handed = NoResult
    /\ \A r \in recorded : r.key < k
    /\ recorded' = recorded \cup {[key |-> k, card |-> c]}
    /\ UNCHANGED handed

HandOut ==
  /\ handed = NoResult
  /\ handed' = << recorded >>
  /\ UNCHANGED recorded

StoreNext == RecordContainer \/ HandOut

StoreSpec == StoreInit /\ [][StoreNext]_storeVars
=============================================================================
