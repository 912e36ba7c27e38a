----------------------------- MODULE MCSessions -----------------------------
(***************************************************************************)
(* Sessions with the databases a path may hold when the program first runs.*)
(***************************************************************************)
EXTENDS Sessions

Held(source, rows) ==
  [gen |-> 0, intact |-> TRUE, newer |-> FALSE, source |-> source,
   start |-> 1, stop |-> 1, last |-> "ended", rows |-> rows]

\* Nothing, a real and a simulated history, one of a newer build.
AnyFile == {None, Held("real", {"real"}), Held("mock", {"mock"}),
            [Held("real", {"real"}) EXCEPT !.newer = TRUE]}

RealFile == {Held("real", {"real"})}
=============================================================================
