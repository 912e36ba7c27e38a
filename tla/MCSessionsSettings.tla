------------------------- MODULE MCSessionsSettings -------------------------
(***************************************************************************)
(* Sessions in two settings: on a disk that takes every write, over all    *)
(* the invocations and instants of the configuration, and on one that      *)
(* fills and drains, over fewer.                                           *)
(***************************************************************************)
EXTENDS MCSessions

VARIABLE setting

\* Bounds on the invocations and the instants of the second setting.
DiskRuns == 2
DiskNow == 1

Init2 == Init /\ setting \in {"shared", "disk"}
Next2 == /\ Next
         /\ UNCHANGED setting
         /\ setting = "shared" => writable'
         /\ setting = "disk" => runs' <= DiskRuns /\ now' <= DiskNow
Spec2 == Init2 /\ [][Next2]_<<vars, setting>>

\* On a disk that takes writes only a damaged file is moved aside (open,
\* "Instance lock FIRST") and a start mark that says the previous session
\* crashed is right (with_backends): neither verdict is passed on a database
\* that is busy, newer or was merely left by a kill.
SharedVerdicts == setting = "shared" => OnlyDamagedQuarantined /\ NoFalseCrash

\* On a disk that takes writes a database that holds history is kept, in
\* place or aside (HistoryKept; open, "never deleted").
SharedHistoryKept == [][setting = "shared" => KeepsHistory]_store
=============================================================================
