---------------------------- MODULE MCRunKernels -----------------------------
(***************************************************************************)
(* Small instances of RunKernels: every kernel on every two run containers *)
(* over the values, with runs that touch and runs that do not, and longer  *)
(* folds of those that reach the last value.                               *)
(***************************************************************************)
EXTENDS RunKernels

\* The containers, from what each value is: no member, the start of a run, or
\* the continuation of one.
RunContainers ==
  LET marks == {f \in [Value -> {"out", "start", "more"}] :
                  \A v \in Value : f[v] = "more" => v # 0 /\ f[v - 1] # "out"}
      starts(f) == {v \in Value : f[v] = "start"}
      len(f, v) == Max({w \in v .. LAST : \A u \in v + 1 .. w : f[u] = "more"}) - v
  IN  { LET s == SetToSortSeq(starts(f), <)
        IN  [i \in DOMAIN s |-> [start |-> s[i], len |-> len(f, s[i])]] : f \in marks }

\* Containers of the last four values.
High == {s \in RunContainers : s # << >> /\ s[1].start >= LAST - 3}

\* What three containers can show beyond two is in the fold: the halves that
\* take turns, and where each kernel stops.
MCFolds ==
  {<< s >> : s \in RunContainers} \cup {<< s, t >> : s, t \in RunContainers}
    \cup {<< s, t, u >> : s, t, u \in High}
=============================================================================
