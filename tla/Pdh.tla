-------------------------------- MODULE Pdh --------------------------------
(***************************************************************************)
(* The one PDH query that the Windows backends share (core/src/wddm.rs,    *)
(* `SharedPdh`): a cached snapshot of the GPU counter instances, wildcard  *)
(* streams that see new instances by themselves, expanded ones (the        *)
(* fallback of non-English Windows) that see them when they are expanded   *)
(* again, and the process list that `refresh_processes` joins from it.     *)
(*                                                                         *)
(* Of the five streams the two of the process list are modelled; the       *)
(* others differ in the counter they name. Time is now_ms() in units the   *)
(* two constants of the cache are multiples of.                            *)
(***************************************************************************)
EXTENDS Integers

CONSTANTS
  Instances,   \* counter instances: records [pid, luid]
  SNAPSHOT_REUSE_MS,
  REEXPAND_MS,
  MaxNow,      \* bound of the clock
  None

Streams == {"engine", "memory"}

VARIABLES
  mode,    \* of each stream: "Wildcard", "Expanded" or "Absent"
  handles, \* the instances an Expanded stream holds a counter of
  expanded, \* last_expand_ms of the streams
  cache,   \* None or the snapshot [at, engine, memory]
  clock,   \* now_ms()
  alive,   \* the instances Windows has now
  held,    \* how long each instance has been there, or gone
  served,  \* [snap, stale] of the call that just returned, or None
  blind,   \* instances each stream failed to see when it was last expanded
  skipped, \* instances each stream of the cached collection failed to read
  hollow,  \* the cached snapshot is of a collection that found no data
  setback  \* the clock was set back

vars == <<mode, handles, expanded, cache, clock, alive, held, served, blind,
          skipped, hollow, setback>>

\* How long is long ago (a bound of the model, past every promise).
MaxHeld == REEXPAND_MS + SNAPSHOT_REUSE_MS

Nothing(at) == [at |-> at, engine |-> {}, memory |-> {}]

-----------------------------------------------------------------------------
(* SharedPdh::open: a stream that cannot be added in English is expanded,  *)
(* path by path, and absent when that yields nothing.                      *)
Init ==
  /\ alive \in SUBSET Instances
  /\ mode \in [Streams -> {"Wildcard", "Expanded", "Absent"}]
  /\ handles \in [Streams -> SUBSET alive]
  /\ \A s \in Streams : mode[s] = "Expanded" <=> handles[s] # {}
  /\ expanded = 0
  /\ cache = None
  /\ clock = REEXPAND_MS
  /\ held = [i \in Instances |-> MaxHeld]
  /\ served = None
  /\ blind = [s \in Streams |-> IF mode[s] = "Absent" THEN Instances
                                ELSE IF mode[s] = "Expanded" THEN alive \ handles[s]
                                ELSE {}]
  /\ skipped = [s \in Streams |-> {}]
  /\ hollow = FALSE
  /\ setback = FALSE

\* saturating_sub: after a step back of the clock nothing has passed.
Passed(since) == IF clock > since THEN clock - since ELSE 0

\* Mutant: the expanded paths are taken to be kept up to date by PDH.
ExpandedOnce == expanded = 0

\* Re-expansion is due, at REEXPAND_MS.
ExpansionDue == Passed(expanded) >= REEXPAND_MS

CacheServes == cache # None /\ Passed(cache.at) < SNAPSHOT_REUSE_MS

Reuse ==
  /\ CacheServes
  /\ served' = [snap |-> cache, stale |-> hollow]
  /\ UNCHANGED <<mode, handles, expanded, cache, clock, alive, held, blind, skipped,
                 hollow, setback>>

\* What a stream's handles reach: a counter of an instance that is gone yields
\* nothing, and `skip` is what the formatted arrays leave out - items of a
\* doubtful status, or all of an array that could not be read.
Formatted(s, hs, skip) ==
  (IF mode[s] = "Wildcard" THEN alive
   ELSE IF mode[s] = "Expanded" THEN hs[s] \intersect alive ELSE {}) \ skip[s]

\* snapshot past its cache: every expanded stream re-expanded when due - all
\* at once, each path that fails to be added leaving no counter - and then one
\* collection.
Collect(status, failed, skip) ==
  LET due == ExpansionDue
      hs == [s \in Streams |-> IF mode[s] # "Expanded" \/ ~due THEN handles[s]
                               ELSE alive \ failed[s]]
      missed == [s \in Streams |-> IF mode[s] # "Expanded" \/ ~due THEN blind[s]
                                   ELSE failed[s]]
      snap == [at |-> clock, engine |-> Formatted("engine", hs, skip),
               memory |-> Formatted("memory", hs, skip)]
  IN /\ ~CacheServes
     /\ handles' = hs
     /\ expanded' = IF due THEN clock ELSE expanded
     /\ CASE status = "ok" ->
               cache' = snap /\ served' = [snap |-> snap, stale |-> FALSE]
          [] status = "timeout" ->
               /\ cache' = cache
               /\ served' = [snap |-> IF cache = None THEN Nothing(0) ELSE cache,
                             stale |-> TRUE]
          [] status = "absence" ->
               /\ cache' = Nothing(clock)
               /\ served' = [snap |-> cache', stale |-> TRUE]
          [] status = "failure" ->
               cache' = cache /\ served' = [snap |-> None, stale |-> TRUE]
     /\ blind' = missed
     /\ skipped' = IF status = "ok" THEN skip ELSE skipped
     /\ hollow' = (status = "absence" \/ (status # "ok" /\ hollow))
     /\ UNCHANGED <<mode, clock, alive, held, setback>>

\* WddmBackend::refresh_processes: the pids of one adapter in either stream.
ProcessList(snap, luid) ==
  IF snap = None THEN {}
  ELSE {i.pid : i \in {j \in snap.engine \union snap.memory : j.luid = luid}}

-----------------------------------------------------------------------------
(* Windows *)

Churn(i) ==
  /\ alive' = IF i \in alive THEN alive \ {i} ELSE alive \union {i}
  /\ held' = [held EXCEPT ![i] = 0]
  /\ served' = None
  /\ UNCHANGED <<mode, handles, expanded, cache, clock, blind, skipped, hollow,
                 setback>>

Pass ==
  /\ clock < MaxNow
  /\ clock' = clock + 1
  /\ held' = [i \in Instances |->
                 IF held[i] < MaxHeld THEN held[i] + 1 ELSE MaxHeld]
  /\ served' = None
  /\ UNCHANGED <<mode, handles, expanded, cache, alive, blind, skipped, hollow, setback>>

SetBack ==
  /\ ~setback
  /\ setback' = TRUE
  /\ clock' \in REEXPAND_MS .. (clock - 1)
  /\ served' = None
  /\ UNCHANGED <<mode, handles, expanded, cache, alive, held, blind, skipped, hollow>>

Next ==
  \/ Reuse
  \/ \E status \in {"ok", "timeout", "absence", "failure"},
        failed, skip \in [Streams -> SUBSET alive] :
       Collect(status, failed, skip)
  \/ \E i \in Instances : Churn(i)
  \/ Pass
  \/ SetBack

Spec == Init /\ [][Next]_vars

-----------------------------------------------------------------------------
(* Properties *)

Snapshot == [at : 0..MaxNow, engine : SUBSET Instances, memory : SUBSET Instances]

\* Snapshots are of the past; only expanded streams hold handles.
TypeOK ==
  /\ cache \in Snapshot \union {None}
  /\ served # None => served.snap \in Snapshot \union {None}
  /\ \A s \in Streams : mode[s] # "Expanded" => handles[s] = {}
  /\ clock \in 0..MaxNow /\ expanded \in 0..MaxNow
  /\ ~setback => expanded <= clock /\ (cache # None => cache.at <= clock)

Gone(i, ms) == i \notin alive /\ held[i] >= ms
There(i, ms) == i \in alive /\ held[i] >= ms

\* Instances whose memory counter could not be added, or not be read.
Missed == blind["memory"] \union skipped["memory"]

\* A call that could collect lists no process that is gone for longer than the
\* cache is reused, and every one that has been there for a re-expansion and a
\* reuse ("bounds the staleness (a new process appears in <= 2 s)"), whatever
\* churned in between - as long as the wall clock was not set back, and unless
\* the counter of its memory could not be added or read.
SnapshotIsCurrent ==
  served # None /\ ~setback =>
    served.stale
    \/ \A i \in Instances :
         /\ Gone(i, SNAPSHOT_REUSE_MS) =>
              i \notin served.snap.engine \union served.snap.memory
         /\ There(i, REEXPAND_MS + SNAPSHOT_REUSE_MS) /\ i \notin Missed =>
              i.pid \in ProcessList(served.snap, i.luid)
=============================================================================
