------------------------------ MODULE Collector ------------------------------
(***************************************************************************)
(* The TUI's collection thread beside its UI thread                        *)
(* (crates/tui/src/collector.rs: Engine::tick, tick_guarded, finish,       *)
(* Collector::start, Collector::shutdown).                                 *)
(*                                                                         *)
(* A tick probes the devices one after the other, and each probe may       *)
(* answer, fail, panic or never return. The events a tick derives reach    *)
(* the store when the tick ends and the state shared with the UI when the  *)
(* frame is folded under its lock; the UI may pause, quit, and end the     *)
(* process between any two of these steps. The rows themselves, and writes *)
(* that fail, are the Recorder's; sleeping is Cadence's.                   *)
(***************************************************************************)
EXTENDS Naturals

CONSTANTS
  N,          \* number of registered devices
  LostAfter,  \* DEVICE_LOST_AFTER_FAILED_PROBES
  MaxPanics,  \* MAX_CONSECUTIVE_PANICS
  Quarantined \* whether the store opened by moving a corrupt file aside

ASSUME CollectorAssumption ==
  /\ N \in Nat
  /\ LostAfter \in Nat \ {0}
  /\ MaxPanics \in Nat \ {0}
  /\ Quarantined \in BOOLEAN

Devices == 1..N

VARIABLES
  \* the collection thread and its Engine
  pc,        \* where the thread is
  at,        \* the next device the tick in progress probes
  failures,  \* ProbeHealth::consecutive_failures (counts no further than LostAfter)
  lostAt,    \* ProbeHealth::lost_at_ms is set
  pending,   \* pending_session_start and pending_reset, until taken
  edges,     \* device events of the tick in progress, or of its frame
  carried,   \* session events of the tick in progress, or of its frame
  sampled,   \* devices that answered the tick in progress
  panics,    \* consecutive_panics
  outcome,   \* what tick_guarded returned last
  dropped,   \* devices whose last edge a panicked tick dropped (history)
  \* Shared, behind its mutex
  marker,    \* Shared::lost
  fresh,     \* devices whose panes the last fold updated
  feed,      \* session events in the story feed
  stopped,   \* Shared::stopped
  \* the store
  recorded,  \* the last device event on disk, per device
  marks,     \* session marks on disk; "tail": the rollup tail is flushed
  \* the UI thread
  ui,        \* "running", "quitting" or "exited"
  stop,      \* Collector::stop
  paused,    \* Collector::paused
  late       \* shutdown gave up waiting

tick    == <<at, edges, carried, sampled>>
health  == <<failures, lostAt>>
guarded == <<panics, outcome, dropped>>
shared  == <<marker, fresh, feed, stopped>>
disk    == <<recorded, marks>>
control == <<ui, stop, paused, late>>
vars == <<pc, tick, health, pending, guarded, shared, disk, control>>

NoEdges == [d \in Devices |-> "none"]

\* A thread runs until its process ends.
Alive == ui # "exited"

Init ==
  /\ pc = "top" /\ at = 1
  /\ failures = [d \in Devices |-> 0]
  /\ lostAt = [d \in Devices |-> FALSE]
  /\ pending = {"start"} \union (IF Quarantined THEN {"reset"} ELSE {})
  /\ edges = NoEdges /\ carried = {} /\ sampled = {}
  /\ panics = 0 /\ outcome = "frame" /\ dropped = {}
  /\ marker = [d \in Devices |-> FALSE]
  /\ fresh = {} /\ feed = {} /\ stopped = FALSE
  /\ recorded = NoEdges
  /\ marks = {"start"}
  /\ ui = "running" /\ stop = FALSE /\ paused = FALSE /\ late = FALSE

-----------------------------------------------------------------------------
(* The collection thread *)

\* Engine::tick takes what waits for the first tick before it probes.
BeginTick ==
  /\ Alive /\ pc = "top" /\ ~stop /\ ~paused
  /\ pc' = "probe" /\ at' = 1
  /\ carried' = pending /\ pending' = {}
  /\ edges' = NoEdges /\ sampled' = {}
  /\ UNCHANGED <<health, guarded, shared, disk, control>>

\* Mutant: any recovery is a return.
Returns_OnAnyRecovery(d) == failures[d] > 0

\* A sample of a lost device is its return.
Returns(d) == lostAt[d]

\* The probe of the next device answers with a sample.
Answer ==
  /\ Alive /\ pc = "probe" /\ at \in Devices
  /\ edges' = [edges EXCEPT ![at] = IF Returns(at) THEN "returned" ELSE "none"]
  /\ lostAt' = [lostAt EXCEPT ![at] = FALSE]
  /\ failures' = [failures EXCEPT ![at] = 0]
  /\ sampled' = sampled \union {at}
  /\ at' = at + 1
  /\ UNCHANGED <<pc, pending, carried, guarded, shared, disk, control>>

\* A failed probe that completes the streak of a device not lost yet.
DeclaredLost(d) == ~lostAt[d] /\ failures[d] + 1 >= LostAfter

\* The probe of the next device returns an error.
Fail ==
  /\ Alive /\ pc = "probe" /\ at \in Devices
  /\ failures' = [failures EXCEPT
       ![at] = IF failures[at] < LostAfter THEN failures[at] + 1 ELSE LostAfter]
  /\ lostAt' = [lostAt EXCEPT ![at] = lostAt[at] \/ DeclaredLost(at)]
  /\ edges' = [edges EXCEPT ![at] = IF DeclaredLost(at) THEN "lost" ELSE "none"]
  /\ at' = at + 1
  /\ UNCHANGED <<pc, pending, carried, sampled, guarded, shared, disk,
                 control>>

\* Mutant: one panic more than the budget.
Fatal_OffByOne(n) == n > MaxPanics

Fatal(n) == n >= MaxPanics

\* The tick panics, in a probe or between two: tick_guarded drops its frame,
\* with every event it had derived or taken, and counts the panic.
Panic ==
  /\ Alive /\ pc = "probe"
  /\ panics' = panics + 1
  /\ outcome' = IF Fatal(panics + 1) THEN "fatal" ELSE "panicked"
  /\ dropped' = dropped \union {d \in Devices : edges[d] # "none"}
  /\ edges' = NoEdges /\ carried' = {} /\ sampled' = {}
  /\ pc' = "fold"
  /\ UNCHANGED <<at, health, pending, shared, disk, control>>

\* record_events of what the tick derived.
Persisted ==
  /\ recorded' = [d \in Devices |-> IF edges[d] = "none" THEN recorded[d]
                                    ELSE edges[d]]
  /\ marks' = marks \union carried

\* Every device is probed: the events go to the store, the frame is returned.
EndTick ==
  /\ Alive /\ pc = "probe" /\ at = N + 1
  /\ Persisted
  /\ panics' = 0
  /\ outcome' = "frame"
  /\ pc' = "fold"
  /\ UNCHANGED <<tick, health, pending, dropped, shared, control>>

\* Mutant: a return leaves the marker of the device set.
Folded_KeepsLost(d) == marker[d] \/ edges[d] = "lost"

\* Mutant: only the returns are folded.
Folded_OnlyReturns(d) == marker[d] /\ edges[d] # "returned"

\* The device-lost edges of the frame folded into the per-device markers.
Folded(d) == IF edges[d] = "none" THEN marker[d] ELSE edges[d] = "lost"

\* The frame is folded under the lock.
FoldFrame ==
  /\ Alive /\ pc = "fold" /\ outcome = "frame"
  /\ marker' = [d \in Devices |-> Folded(d)]
  /\ fresh' = sampled
  /\ feed' = feed \union carried
  /\ dropped' = {d \in dropped : edges[d] = "none"}
  /\ pc' = "sleep"
  /\ UNCHANGED <<tick, health, pending, panics, outcome, stopped, disk, control>>

StopStated == outcome = "fatal"

AfterPanic == IF outcome = "fatal" THEN "mark" ELSE "sleep"

\* A panicked tick pushes its narration; a fatal one stops the collector, and
\* says so in the same critical section.
FoldPanic ==
  /\ Alive /\ pc = "fold" /\ outcome # "frame"
  /\ fresh' = {}
  /\ stopped' = StopStated
  /\ pc' = AfterPanic
  /\ UNCHANGED <<tick, health, pending, guarded, marker, feed, disk,
                 control>>

\* A paused pass of the loop.
PausedPass ==
  /\ Alive /\ pc = "top" /\ ~stop /\ paused
  /\ pc' = "sleep"
  /\ UNCHANGED <<tick, health, pending, guarded, shared, disk, control>>

\* The cadence is slept to its end.
Wake ==
  /\ Alive /\ pc = "sleep" /\ ~stop
  /\ pc' = "top"
  /\ UNCHANGED <<tick, health, pending, guarded, shared, disk, control>>

\* The stop flag is noticed at the top of the loop or within a slice of the
\* sleep; returning drops the Engine.
StopSeen ==
  /\ Alive /\ pc \in {"top", "sleep"} /\ stop
  /\ pc' = "mark"
  /\ UNCHANGED <<tick, health, pending, guarded, shared, disk, control>>

\* Drop runs Engine::finish: the stop mark, then the tail.
Mark ==
  /\ Alive /\ pc = "mark"
  /\ marks' = marks \union {"stop"}
  /\ pc' = "flush"
  /\ UNCHANGED <<tick, health, pending, guarded, shared, recorded,
                 control>>

Flush ==
  /\ Alive /\ pc = "flush"
  /\ marks' = marks \union {"tail"}
  /\ pc' = "done"
  /\ UNCHANGED <<tick, health, pending, guarded, shared, recorded,
                 control>>

-----------------------------------------------------------------------------
(* The UI thread *)

rest == <<pc, tick, health, pending, guarded, shared, disk>>

TogglePause ==
  /\ ui = "running"
  /\ paused' = ~paused
  /\ UNCHANGED <<rest, ui, stop, late>>

\* Collector::shutdown raises the flag and starts to wait.
Quit ==
  /\ ui = "running"
  /\ ui' = "quitting" /\ stop' = TRUE
  /\ UNCHANGED <<rest, paused, late>>

\* Mutant: shutdown does not wait for the rollup tail.
ThreadFinished_AtMark == pc \in {"flush", "done"}

ThreadFinished == pc = "done"

\* The thread is finished, within the grace or when it is checked last.
Join ==
  /\ ui = "quitting" /\ ThreadFinished
  /\ ui' = "exited"
  /\ UNCHANGED <<rest, stop, paused, late>>

\* Mutant: shutdown joins the thread whatever it takes.
GraceOver_Never == FALSE

\* SHUTDOWN_GRACE is over.
GraceOver == ~ThreadFinished

\* The process ends without the thread.
GiveUp ==
  /\ ui = "quitting" /\ GraceOver
  /\ ui' = "exited" /\ late' = TRUE
  /\ UNCHANGED <<rest, stop, paused>>

-----------------------------------------------------------------------------

Probe == Answer \/ Fail

\* What the thread does on its own, between two probes.
Loop == \/ BeginTick \/ EndTick \/ FoldFrame \/ FoldPanic
        \/ PausedPass \/ Wake \/ StopSeen \/ Mark \/ Flush

Shutdown == Join \/ GiveUp

Next == Loop \/ Probe \/ Panic \/ TogglePause \/ Quit \/ Shutdown

\* Both threads are scheduled, and the grace runs out; a probe need not return.
Spec == Init /\ [][Next]_vars /\ WF_vars(Loop) /\ WF_vars(Shutdown)

-----------------------------------------------------------------------------
(* Properties *)

Edges == {"none", "lost", "returned"}

\* The state stays in its type.
TypeOK ==
  /\ pc \in {"top", "probe", "fold", "sleep", "mark", "flush", "done"}
  /\ at \in 1..(N + 1)
  /\ failures \in [Devices -> 0..LostAfter]
  /\ lostAt \in [Devices -> BOOLEAN]
  /\ pending \in SUBSET {"start", "reset"}
  /\ edges \in [Devices -> Edges]
  /\ carried \in SUBSET {"start", "reset"}
  /\ sampled \in SUBSET Devices
  /\ panics \in 0..MaxPanics
  /\ outcome \in {"frame", "panicked", "fatal"}
  /\ dropped \in SUBSET Devices
  /\ marker \in [Devices -> BOOLEAN]
  /\ fresh \in SUBSET Devices
  /\ feed \in SUBSET {"start", "reset"}
  /\ stopped \in BOOLEAN
  /\ recorded \in [Devices -> Edges]
  /\ marks \in SUBSET {"start", "reset", "stop", "tail"}
  /\ ui \in {"running", "quitting", "exited"}
  /\ stop \in BOOLEAN /\ paused \in BOOLEAN /\ late \in BOOLEAN

\* Devices of which no panicked tick dropped an edge that is still the last.
Told == Devices \ dropped

\* Between two ticks the UI's stale marker, the engine's probe health and the
\* last edge on disk tell the same story of a device (Engine::tick: a device
\* that stops answering enters the recording "with both edges"), and a pane
\* the last frame updated is not marked stale (Shared::lost: "cleared when it
\* answers again"), unless a panicked tick dropped the device's last edge.
LossAgreed ==
  /\ pc \in {"top", "sleep"} =>
       \A d \in Told : /\ marker[d] <=> lostAt[d]
                       /\ recorded[d] = "lost" <=> lostAt[d]
  /\ \A d \in fresh \intersect Told : ~marker[d]

\* The edges on disk and the markers on screen are a loss log.
Log == INSTANCE LossLog WITH last <- recorded, shown <- marker

\* No loss is recorded twice and no return without its loss, and no edge is
\* recorded before the one before it is on screen, but where a panicked tick
\* dropped an edge (Engine::tick, Collector::start).
KeepsLossLog == Log!Spec

\* A loop that has ended was stopped by the UI, or the UI says it stopped
\* (tick_guarded: the TUI must not keep rendering the last snapshot as live).
DeadIsStated == pc \in {"mark", "flush", "done"} => stop \/ stopped

\* A quit that did not give up leaves the stop mark and the tail on disk, and
\* every fact the loop's last frame showed (Collector::shutdown).
QuitIsRecorded ==
  ui = "exited" /\ ~late => {"stop", "tail"} \subseteq marks /\ feed \subseteq marks

\* An end is never silent: the UI asked for it or states it, and one the UI
\* waited for is on disk.
EndIsStated == DeadIsStated /\ QuitIsRecorded

\* Quitting ends the process even when a probe never returns.
QuitReturns == ui = "quitting" ~> ui = "exited"

\* Where no probe hangs for ever, a device declared lost is shown lost, unless
\* it answers again, a panicked tick drops the edge, or the program ends.
LossReachesUI ==
  []<>(pc # "probe") =>
    \A d \in Devices :
      lostAt[d] ~> (marker[d] \/ ~lostAt[d] \/ d \in dropped \/ ui # "running")
=============================================================================
