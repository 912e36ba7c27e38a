----------------------------- MODULE MCRecorder -----------------------------
(***************************************************************************)
(* Recorder on four 10s buckets, two to a minute, of which the 10s tier    *)
(* outlives two and the 1m tier all.                                       *)
(***************************************************************************)
EXTENDS Recorder

ShortRetention == [tier \in Tiers |-> IF tier = "10s" THEN 1 ELSE 3]
=============================================================================
