------------------------------ MODULE Storage -------------------------------
(***************************************************************************)
(* A set from its first push to its last read: Builder composed with View. *)
(* What finish built is viewed in place (FrozenBitmap::view, from_buf), or *)
(* its bytes are stored, come back at some address and are examined        *)
(* (from_bytes), where the owned form copies them to an aligned buffer.    *)
(***************************************************************************)
EXTENDS Builder, View

vars == << builderVars, viewVars >>

Init ==
  /\ BuilderInit
  /\ buf = NoBytes
  /\ base = 0
  /\ view = NotOpened
  /\ mode = NotIterating
  /\ remaining = 0
  /\ yielded = << >>
  /\ nones = 0

Build == BuilderNext /\ UNCHANGED viewVars

\* FrozenBitmap::view.  The buffer is 64-aligned.
ViewBuilt ==
  /\ bytes # NotBuilt
  /\ buf = NoBytes
  /\ buf' = bytes
  /\ base' = 0
  /\ view' = from_bytes_trusted(bytes)
  /\ UNCHANGED << builderVars, mode, remaining, yielded, nones >>

\* The same bytes at another address, borrowed.
Reload ==
  /\ bytes # NotBuilt
  /\ buf = NoBytes
  /\ buf' = bytes
  /\ base' \in {0, 2, 4}
  /\ UNCHANGED << builderVars, view, mode, remaining, yielded, nones >>

\* FrozenBitmap::from_bytes copies refused or unexamined bytes first.
CopyAligned ==
  /\ buf # NoBytes
  /\ base # 0 /\ view \in {NotOpened, Refused}
  /\ base' = 0
  /\ view' = from_bytes(buf, 0)
  /\ UNCHANGED << builderVars, buf, mode, remaining, yielded, nones >>

Read == ViewNext /\ UNCHANGED builderVars

Next == Build \/ ViewBuilt \/ Reload \/ CopyAligned \/ Read

Spec == Init /\ [][Next]_vars

----------------------------------------------------------------------------
\* Invariant: whatever the builder finished, from_bytes accepts as the view the
\* trusted path gives, at any address it can be read in place at: writer and
\* examiner agree on run counts, widths, offsets and the count of a full set; and
\* every query of the view answers for the set that was pushed.
BuiltReadsBack ==
  /\ bytes # NotBuilt =>
       \A a \in {0, 4} :
         bytes.magic = "FI" \/ a = 0 => from_bytes(bytes, a) = from_bytes_trusted(bytes)
  /\ Opened => denotes(buf) = pushed
  /\ QueriesExact

\* Refinement: building, freezing, storing and reading a bitmap are a ValueSet's
\* steps: it grows by ascending values only, and the iterator gives them all.
Promise == INSTANCE ValueSet WITH
  Elements <- Values,
  set      <- pushed,
  frozen   <- bytes # NotBuilt,
  given    <- yielded,
  over     <- nones > 0

ImplementsValueSet == Promise!BuildSpec

=============================================================================
