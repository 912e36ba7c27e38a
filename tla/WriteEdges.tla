----------------------------- MODULE WriteEdges -----------------------------
(***************************************************************************)
(* How the Recorder collapses store writes into edges                      *)
(* (crates/history/src/lib.rs: note_write, take_write_transition): the     *)
(* current failing streak, and the one edge waiting to be narrated.        *)
(***************************************************************************)
EXTENDS Naturals

Edges == {"none", "degraded", "recovered"}

\* failing: writes are failing now; streak: fails_in_streak;
\* pending, lost: the WriteTransition not yet taken, and what it carries.
WriteState == [failing : BOOLEAN, streak : Nat, pending : Edges, lost : Nat]

Healthy == [failing |-> FALSE, streak |-> 0, pending |-> "none", lost |-> 0]

\* The first write that succeeds after a streak.
Recover(w) ==
  [failing |-> FALSE, streak |-> 0, pending |-> "recovered", lost |-> w.streak]

\* Mutant: a failing streak that leaves the pending edge as it was.
Degrade_KeepsPending(w) ==
  [w EXCEPT !.failing = TRUE, !.streak = w.streak + 1]

\* A write that fails; only the first of a streak is an edge.
Degrade(w) ==
  IF w.failing THEN [w EXCEPT !.streak = w.streak + 1]
  ELSE [failing |-> TRUE, streak |-> w.streak + 1, pending |-> "degraded",
        lost |-> 0]

\* note_write: `ok` is what the store returned.
note_write(w, ok) ==
  IF ~ok THEN Degrade(w) ELSE IF w.failing THEN Recover(w) ELSE w

\* What is left once the pending edge is taken.
take_write_transition(w) ==
  [failing |-> w.failing, streak |-> w.streak, pending |-> "none", lost |-> 0]
=============================================================================
