----------------------------- MODULE MCStorage ------------------------------
(***************************************************************************)
(* Small instances of Storage.                                             *)
(***************************************************************************)
EXTENDS Storage

\* Lows of two keys, of each enough for a bitmap, and the last of all lows.
TwoBitmaps == {0, 1, 3, 4, 6, LOWS - 1} \cup {LOWS + lo : lo \in {0, 1, 2, 3, 5, 6, 8, LOWS - 1}}

NoCandidates == << >>
=============================================================================
