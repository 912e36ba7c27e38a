------------------------- MODULE MCRecorderSettings -------------------------
(***************************************************************************)
(* Recorder in two settings: where the disk fails under a clock that runs, *)
(* and where the clock steps over all the sessions of the configuration on *)
(* a disk that works.                                                      *)
(***************************************************************************)
EXTENDS MCRecorder

VARIABLE setting

\* Bound on the sessions of the first setting.
DiskSessions == 1

Init2 == Init /\ setting \in {"disk", "clock"}
Next2 == /\ Next
         /\ UNCHANGED setting
         /\ setting = "disk" => /\ clock' \in {clock, clock + 1}
                               /\ session' <= DiskSessions
         /\ setting = "clock" => tally'.failed = 0
Spec2 == Init2 /\ [][Next2]_<<vars, setting>>

\* No frame is in two rows of a tier, and under a clock that runs a row is the
\* aggregate of all frames of its bucket and none of them is missing
\* (Recorder::observe, flush).
RowsAreTheFrames ==
  /\ NoFrameCountedTwice
  /\ setting = "disk" => RowsAreWholeBuckets /\ RowsComplete

\* Under a clock that runs only rows past their tier's retention are deleted
\* (PruneKeepsRetention).
RunningPruneKeeps == [][setting = "disk" => PrunesPastRetention]_vars
=============================================================================
