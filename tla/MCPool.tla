------------------------------- MODULE MCPool -------------------------------
(***************************************************************************)
(* Small instances of Pool.  Sizes are units: 1 a small buffer, 2 one it   *)
(* has to grow into.                                                       *)
(***************************************************************************)
EXTENDS Pool

\* One thread that repeats flat operations and copies, between configuration
\* calls of every kind.
Warm(t) ==
  [ threads |-> {t}, calls |-> {"flat", "copy", "configure", "prewarm", "clear"},
    sizes |-> {1, 2}, budgets |-> {1, 2}, policies |-> {"Allocate", "Fail"},
    sizeLists |-> {<< >>, << 2 >>, << 1, 2 >>}, buffers |-> 2, warmup |-> 3,
    maxArenas |-> 1, maxBitmaps |-> 1, maxLive |-> 0 ]

\* One thread that evaluates trees under every budget, none included.
Tree(t) ==
  [ threads |-> {t}, calls |-> {"flat", "tree", "configure"},
    sizes |-> {1}, budgets |-> {0, 1, 2}, policies |-> {"Allocate", "Fail"},
    sizeLists |-> {<< >>}, buffers |-> 2, warmup |-> 2,
    maxArenas |-> 2, maxBitmaps |-> 1, maxLive |-> 1 ]

\* Threads that copy bitmaps and send them to each other.
Sending(ts) ==
  [ threads |-> ts, calls |-> {"copy", "reject", "send", "configure"},
    sizes |-> {1}, budgets |-> {1, 2}, policies |-> {"Allocate"},
    sizeLists |-> {<< >>}, buffers |-> 1, warmup |-> 2,
    maxArenas |-> 1, maxBitmaps |-> 2, maxLive |-> 1 ]

\* Which of the threads is the one makes no difference.
MCUses ==
  LET t == CHOOSE t \in Threads : TRUE IN {Warm(t), Tree(t), Sending(Threads)}
=============================================================================
