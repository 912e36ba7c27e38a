------------------------------ MODULE LossLog ------------------------------
(***************************************************************************)
(* What the collection promises of a device that stops answering, whatever *)
(* its threads do: a log that alternates losses and returns, and a marker  *)
(* on screen that follows the log, one batch of edges after the other.     *)
(* A panicked tick drops what it derived of some devices; only their log   *)
(* may then miss an edge.                                                  *)
(***************************************************************************)
CONSTANT Devices

VARIABLES
  last,    \* the last edge in the log of each device
  shown,   \* whether the device is marked lost on screen
  dropped  \* devices of which the last edge was dropped

vars == <<last, shown, dropped>>

Edges == {"none", "lost", "returned"}

Init ==
  /\ last = [d \in Devices |-> "none"]
  /\ shown = [d \in Devices |-> FALSE]
  /\ dropped = {}

\* The screen follows the log.
InStep == \A d \in Devices : shown[d] <=> last[d] = "lost"

\* An edge continues the log of its device.
Continues(d, edge) == edge = "lost" <=> last[d] # "lost"

\* A tick's edges are logged, after those before are on screen.
Record ==
  /\ InStep
  /\ \E news \in [Devices -> Edges] :
       /\ \A d \in Devices \ dropped : news[d] # "none" => Continues(d, news[d])
       /\ last' = [d \in Devices |-> IF news[d] = "none" THEN last[d] ELSE news[d]]
  /\ UNCHANGED <<shown, dropped>>

\* The screen catches up; the edges just logged amend what was dropped.
Show ==
  /\ shown' = [d \in Devices |-> last[d] = "lost"]
  /\ dropped' \in SUBSET dropped
  /\ UNCHANGED last

\* A panic drops the edges of some devices.
Drop ==
  /\ dropped' \in {dropped \union D : D \in SUBSET Devices}
  /\ UNCHANGED <<last, shown>>

Next == Record \/ Show \/ Drop

Spec == Init /\ [][Next]_vars
=============================================================================
