------------------------------ MODULE Builder -------------------------------
(***************************************************************************)
(* FrozenBitmapBuilder (src/api/builder.rs): values are pushed in          *)
(* ascending order, the lows of one key collect in an open container, the  *)
(* next key closes it, and finish serializes what was closed.              *)
(***************************************************************************)
EXTENDS Wire

CONSTANT Pushable   \* the values pushed, the bound on what is built: besides
                    \* them, every value from 0 on in turn

ASSUME BuilderAssumption == Pushable \subseteq Values

VARIABLES
  containers,  \* the closed containers
  cur_key,     \* the key of the open container
  cur,         \* its lows
  have_cur,    \* whether there is one
  total,       \* the values in closed containers
  bytes,       \* the result of finish; NotBuilt before it
  pushed       \* ghost: the values push accepted

builderVars == << containers, cur_key, cur, have_cur, total, bytes, pushed >>

NotBuilt == [magic |-> "none"]

BuilderInit ==
  /\ containers = << >>
  /\ cur_key = 0
  /\ cur = << >>
  /\ have_cur = FALSE
  /\ total = 0
  /\ bytes = NotBuilt
  /\ pushed = {}

\* flush appends the open container; what it leaves in cur is empty.
flushed == Append(containers, build_container(cur_key, cur))

flushed_total == total + Len(cur)

\* Mutant: the buffer of lows is reused without being emptied.
after_flush_kept == cur

after_flush == << >>

\* A value of the open container's key joins it.  A value that does not ascend
\* panics before anything is changed.
PushSameKey(v) ==
  /\ have_cur /\ key_of(v) = cur_key
  /\ low_of(v) > Last(cur)
  /\ cur' = Append(cur, low_of(v))
  /\ UNCHANGED << containers, cur_key, have_cur, total >>

PushNextKey(v) ==
  /\ have_cur /\ key_of(v) > cur_key
  /\ containers' = flushed
  /\ total' = flushed_total
  /\ cur_key' = key_of(v)
  /\ cur' = Append(after_flush, low_of(v))
  /\ UNCHANGED have_cur

PushFirst(v) ==
  /\ ~ have_cur
  /\ cur_key' = key_of(v)
  /\ cur' = Append(cur, low_of(v))
  /\ have_cur' = TRUE
  /\ UNCHANGED << containers, total >>

\* After 0, 1, .. k - 1 were pushed, k is the number of them.
InTurn == Values \cap {Cardinality(pushed)}

Push ==
  \E v \in Pushable \cup InTurn :
    /\ bytes = NotBuilt
    /\ PushSameKey(v) \/ PushNextKey(v) \/ PushFirst(v)
    /\ pushed' = pushed \cup {v}
    /\ UNCHANGED bytes

\* finish and finish_standard take the builder.
Finish ==
  /\ bytes = NotBuilt
  /\ containers' = IF have_cur THEN flushed ELSE containers
  /\ total' = IF have_cur THEN flushed_total ELSE total
  /\ cur' = after_flush
  /\ bytes' \in {finish(containers', total'), serialize_standard(containers', total')}
  /\ UNCHANGED << cur_key, have_cur, pushed >>

BuilderNext == Push \/ Finish

----------------------------------------------------------------------------
\* Lows and cells are u16, the open container is within the
\* 64K lows its buffer is said to take, and a closed one has at least a value.
BuilderTypeOK ==
  /\ cur_key \in Keys /\ have_cur \in BOOLEAN /\ total \in 0 .. U32
  /\ Len(cur) <= LOWS /\ Range(cur) \subseteq Lows
  /\ \A i \in DOMAIN containers :
       /\ containers[i].key \in Keys /\ containers[i].card \in 1 .. LOWS
       /\ Range(containers[i].cells) \subseteq Lows
  /\ pushed \subseteq Values

\* The builder's state holds exactly the values pushed, and the open container
\* is never empty once there is one (push reads its last low).
Held ==
  UNION {{containers[i].key * LOWS + lo :
            lo \in Range(for_each(containers[i].typ, containers[i].cells))} :
         i \in DOMAIN containers}
  \cup {cur_key * LOWS + cur[j] : j \in DOMAIN cur}

\* Invariant: nothing pushed is lost, doubled or moved while containers open
\* and close (push, flush), and the total is of the closed ones: whichever
\* encoding finish then chooses, it is chosen for the whole set.
HoldsPushed ==
  /\ BuilderTypeOK
  /\ Held = pushed
  /\ total + Len(cur) = Cardinality(pushed)
  /\ have_cur /\ bytes = NotBuilt => cur # << >>

\* Invariant: each closed container is stored in a payload that no other type
\* would make smaller (build_container), counting the lows afresh.
PayloadsSmallest ==
  \A i \in DOMAIN containers :
    LET lows     == {v % LOWS : v \in {p \in pushed : key_of(p) = containers[i].key}}
        maximal  == {lo \in lows : lo = 0 \/ lo - 1 \notin lows}
        size     == 2 * Len(containers[i].cells)
    IN  /\ size <= 2 * Cardinality(lows)
        /\ size <= run_bytes(Cardinality(maximal))
        /\ size <= bitmap_bytes

=============================================================================
