------------------------------ MODULE Cadence ------------------------------
(***************************************************************************)
(* The collection loop in time (crates/tui/src/collector.rs): the adaptive *)
(* idle backoff that stretches the sleep between ticks (`Backoff`), and    *)
(* the stall fact that `Engine::tick` narrates from the time since the     *)
(* previous tick ended (`is_stall`).                                       *)
(*                                                                         *)
(* A step is one pass of the loop in `Collector::start`: a clean tick, a   *)
(* panicked tick or a paused pass, followed by the sleep it asks for.      *)
(* Durations are milliseconds; the age of the last tick saturates at       *)
(* AgeCap, above every threshold it is compared with.                      *)
(***************************************************************************)
EXTENDS Integers

CONSTANTS
  N,               \* number of registered devices
  Interval,        \* the configured tick interval
  BackoffEnabled,  \* FALSE under --no-backoff
  IdleTicks,       \* BACKOFF_AFTER_IDLE_TICKS
  MaxPanics,       \* MAX_CONSECUTIVE_PANICS
  Samples,         \* the dynamic samples the backends may return
  Bodies,          \* how long a tick may run before it panics
  Overheads,       \* time a pass spends outside its tick and its sleep
  AgeCap,          \* where the age saturates (a bound of the model)
  None             \* no sample, no baseline, no instant yet

\* A sample, reduced to what device_is_idle tells apart: utilization under or
\* over IDLE_UTIL_PCT or not reported, an asserted engine or throttle signal,
\* and two levels of memory and clock that are further apart than the jitter.
Sample == [util   : {"none", "low", "high"},
           signal : BOOLEAN,
           mem    : {"absent", "l1", "l2"},
           clk    : {"absent", "l1", "l2"}]

ASSUME CadenceAssumption ==
  /\ N \in Nat
  /\ Interval \in Nat \ {0}
  /\ BackoffEnabled \in BOOLEAN
  /\ IdleTicks \in Nat \ {0}
  /\ MaxPanics \in Nat \ {0}
  /\ Samples \subseteq Sample
  /\ Bodies \subseteq Nat
  /\ Overheads \subseteq Nat
  /\ AgeCap \in Nat
  /\ None \notin Sample
  /\ None \notin Nat

Devices == 1..N

VARIABLES
  prev,        \* Backoff::prev, last good sample per device
  idleStreak,  \* Backoff::idle_streak (counts no further than IdleTicks)
  effective,   \* effective_interval_ms, the sleep the loop is in
  paused,      \* Collector::paused
  panics,      \* Engine::consecutive_panics
  dead,        \* the loop returned after a fatal panic
  sinceEnd,    \* Instant::now() - last_tick_end at the next pass, or None
  failing,     \* devices whose last probe failed
  stalled,     \* the last pass folded a frame that narrates a stall
  interrupted  \* a pause or a panic fell between the last two frames

vars == <<prev, idleStreak, effective, paused, panics, dead, sinceEnd,
          failing, stalled, interrupted>>

-----------------------------------------------------------------------------
(* The stall threshold and the stretched sleep *)

STALL_FLOOR == 5000
BACKOFF_MULTIPLIER == 5
BACKOFF_CAP == 10000

\* Mutant: the floor taken for a ceiling.
ThresholdAtMostFloor ==
  IF Interval * 3 < STALL_FLOOR THEN Interval * 3 ELSE STALL_FLOOR

stall_threshold ==
  IF Interval * 3 > STALL_FLOOR THEN Interval * 3 ELSE STALL_FLOOR

is_stall(gap) == gap > stall_threshold

Stretched ==
  IF Interval * BACKOFF_MULTIPLIER < BACKOFF_CAP
  THEN Interval * BACKOFF_MULTIPLIER ELSE BACKOFF_CAP

effective_interval(streak) ==
  IF streak >= IdleTicks THEN Stretched ELSE Interval

-----------------------------------------------------------------------------
(* The idle decision *)

\* A level moved. A memory reading counts only against another reading; a
\* clock that appears out of a parked state counts as a wake-up.
MemMoved(p, s) == p.mem # s.mem /\ p.mem # "absent" /\ s.mem # "absent"
ClockMoved(p, s) == p.clk # s.clk /\ s.clk # "absent"

util_less_activity(p, s) ==
  \/ s.signal
  \/ p # None /\ (MemMoved(p, s) \/ ClockMoved(p, s))

\* Mutant: a failed probe votes idle.
FailedProbeVotesIdle(p, s, procBusy) ==
  ~procBusy /\ (s = None \/ s.util = "low")

device_is_idle(p, s, procBusy) ==
  /\ s # None
  /\ ~procBusy
  /\ \/ s.util = "low"
     \/ s.util = "none" /\ ~util_less_activity(p, s)

AllIdle(readings, busyProcs) ==
  \A d \in Devices : device_is_idle(prev[d], readings[d], d \in busyProcs)

\* Backoff::observe's streak; disabled, it stays where it was.
NextStreak(idle) ==
  IF ~BackoffEnabled THEN idleStreak
  ELSE IF ~idle THEN 0
  ELSE IF idleStreak < IdleTicks THEN idleStreak + 1 ELSE idleStreak

-----------------------------------------------------------------------------
(* One pass of the loop *)

Saturate(n) == IF n > AgeCap THEN AgeCap ELSE n
Older(age, ms) == IF age = None THEN None ELSE Saturate(age + ms)

\* Mutant: one panic more than the budget.
FatalOffByOne(n) == n > MaxPanics

Fatal(n) == n >= MaxPanics

Init ==
  /\ prev = [d \in Devices |-> None]
  /\ idleStreak = 0
  /\ effective = Interval
  /\ paused = FALSE
  /\ panics = 0
  /\ dead = FALSE
  /\ sinceEnd = None
  /\ failing = {}
  /\ stalled = FALSE
  /\ interrupted = FALSE

\* Engine::tick to its end, Backoff::observe, then the sleep. The gap is
\* measured from the end of the previous tick to the start of this one, so
\* how long the tick itself takes does not enter it.
CleanTick(readings, busyProcs, overhead) ==
  LET streak == NextStreak(AllIdle(readings, busyProcs))
      sleep  == IF BackoffEnabled THEN effective_interval(streak) ELSE Interval
  IN /\ ~paused /\ ~dead
     /\ stalled' = (sinceEnd # None /\ is_stall(sinceEnd))
     /\ prev' = [d \in Devices |-> IF readings[d] = None THEN prev[d]
                                   ELSE readings[d]]
     /\ failing' = {d \in Devices : readings[d] = None}
     /\ idleStreak' = streak
     /\ effective' = sleep
     /\ panics' = 0
     /\ sinceEnd' = Saturate(sleep + overhead)
     /\ interrupted' = FALSE
     /\ UNCHANGED <<paused, dead>>

\* A tick that panics after the probes of devices 1..k, of which `failed` did
\* not answer: no frame, no baseline and no new last_tick_end, but the health
\* of 1..k is already written. Backoff::skip unless the panic is fatal.
PanickedTick(k, failed, took, overhead) ==
  LET fatal == Fatal(panics + 1)
  IN /\ ~paused /\ ~dead
     /\ panics' = panics + 1
     /\ failing' = (failing \ 1..k) \union failed
     /\ stalled' = FALSE
     /\ dead' = fatal
     /\ idleStreak' = IF fatal THEN idleStreak ELSE 0
     /\ effective' = IF fatal THEN effective ELSE Interval
     /\ sinceEnd' = Older(sinceEnd, took + Interval + overhead)
     /\ interrupted' = TRUE
     /\ UNCHANGED <<prev, paused>>

\* A paused pass observes nothing and sleeps the configured interval.
PausedPass(overhead) ==
  /\ paused /\ ~dead
  /\ idleStreak' = 0
  /\ effective' = Interval
  /\ stalled' = FALSE
  /\ sinceEnd' = Older(sinceEnd, Interval + overhead)
  /\ interrupted' = TRUE
  /\ UNCHANGED <<prev, paused, panics, dead, failing>>

\* The UI's pause key, between two passes.
TogglePause ==
  /\ paused' = ~paused
  /\ UNCHANGED <<prev, idleStreak, effective, panics, dead, sinceEnd,
                 failing, stalled, interrupted>>

Next ==
  \/ \E readings \in [Devices -> Samples \union {None}],
        busyProcs \in SUBSET Devices, overhead \in Overheads :
       CleanTick(readings, busyProcs, overhead)
  \/ \E k \in 0..N, took \in Bodies, overhead \in Overheads :
       \E failed \in SUBSET (1..k) : PanickedTick(k, failed, took, overhead)
  \/ \E overhead \in Overheads : PausedPass(overhead)
  \/ TogglePause

Spec == Init /\ [][Next]_vars

-----------------------------------------------------------------------------
(* Properties *)

\* The state stays in its type; the loop never sleeps anything but the
\* configured or the stretched interval, and panics never pass their budget.
TypeOK ==
  /\ prev \in [Devices -> Sample \union {None}]
  /\ idleStreak \in 0..IdleTicks
  /\ effective \in {Interval, Stretched}
  /\ paused \in BOOLEAN /\ dead \in BOOLEAN
  /\ panics \in 0..MaxPanics
  /\ sinceEnd \in Nat \union {None}
  /\ failing \in SUBSET Devices
  /\ stalled \in BOOLEAN /\ interrupted \in BOOLEAN

\* While the loop runs, a device whose last probe failed is watched at the
\* configured rate, however the failure came about: in a folded frame or in
\* a tick that panicked later (device_is_idle: "a fault to watch at full rate").
FailedProbePinsCadence == ~dead /\ failing # {} => effective = Interval

\* Idle backoff only ever lengthens the sleep (effective_interval's doc:
\* "stretching"; README: "polled on a stretched cadence").
NeverFasterThanConfigured == effective >= Interval

\* The loop's rate is the configured one while a device fails and never
\* exceeds it (device_is_idle, effective_interval).
RateIsKept == FailedProbePinsCadence /\ NeverFasterThanConfigured

\* A pass that folds a frame (as opposed to a panic, a paused pass or the
\* pause key itself).
FrameFolded == paused' = paused /\ ~interrupted'

\* A frame that says "collection stalled" comes after a pause or a panicked
\* tick: between two consecutive frames the loop's own stretched sleep is
\* never taken for a blocked probe (the comment at the head of Engine::tick:
\* a gap longer than the threshold "means a backend probe blocked").
StallNeverFromOwnSleep ==
  [][FrameFolded /\ stalled' => interrupted]_vars
=============================================================================
