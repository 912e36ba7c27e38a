----------------------------- MODULE MCConsole -----------------------------
(***************************************************************************)
(* Console on a minute of two 10s buckets, and the databases it may open.  *)
(***************************************************************************)
EXTENDS Console

MCRungs == <<[span |-> 40, tier |-> "10s"], [span |-> 60, tier |-> "1m"]>>

Held(tier, bucket) ==
  [tier |-> tier, bucket |-> bucket, throttle |-> 0, observed |-> 0, saw |-> {None}, born |-> 0]
Evt(ts, n) == [ts |-> ts, n |-> n, born |-> 0, held |-> "disk"]

Fresh(p) == [viewer |-> FALSE, path |-> p, rows |-> {}, log |-> <<>>, now |-> 5]

\* A bucket from the session before.
Resumed == [viewer |-> FALSE, path |-> "ok", now |-> 15, log |-> <<>>,
            rows |-> {Held("10s", 0), Held("1m", 0)}]

\* Two buckets apart and an event past the second, one bucket, no rows.
Files ==
  {[viewer |-> TRUE, path |-> "ok", now |-> 60, rows |-> r.rows, log |-> r.log] :
     r \in {[rows |-> {Held("10s", 0), Held("10s", 30), Held("1m", 0), Held("1m", 20)},
             log |-> <<Evt(5, 1), Evt(45, 2), Evt(45, 3)>>],
            [rows |-> {Held("10s", 10), Held("1m", 0)}, log |-> <<>>],
            [rows |-> {}, log |-> <<Evt(5, 1)>>]}}

\* Where the console shows no recording, the thread is left to itself and
\* sees every reading; elsewhere the readings tell no rows apart.
MCReadings == [p \in {"ok", "none", "unreadable"} |->
                 IF p = "unreadable" THEN {TRUE, FALSE, None} ELSE {None}]

\* A write or two that fail, or all of them: the disk is full.
MCFailures == {{}, {"events"}, {"10s"}, Writes}

MCStarts == {Resumed, Fresh("none"), Fresh("unreadable")} \union Files
=============================================================================
