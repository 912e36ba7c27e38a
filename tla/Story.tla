------------------------------- MODULE Story --------------------------------
(***************************************************************************)
(* The story engine on one device (crates/core/src/events.rs:              *)
(* EventEngine::observe and the six derivations it runs).                  *)
(*                                                                         *)
(* Each tick whose device probe answers, observe is handed the device's    *)
(* sample and its process list, or None where the process probe failed,    *)
(* and tells what happened since the last one: facts (a throttle began or  *)
(* ended, a process attached or left) and inferences that rest on a        *)
(* stretch of ticks (an idle gap, a hang, a CPU spillover, VRAM pressure). *)
(* Ticks whose device probe fails, and a pause, do not reach the engine.   *)
(*                                                                         *)
(* Times are in ticks of the model, memory in MiB. Which tie of two        *)
(* largest holders is taken depends on hash order: any may be.             *)
(***************************************************************************)
EXTENDS Integers, Sequences, FiniteSets

CONSTANTS
  Pids, Mems, ProcUtils, Cpus, \* processes and what a list may say of each
  Utils, Throttles, Useds,     \* what a device sample may say; None is unobserved
  MayBlind,                    \* whether the process probe may fail
  MayMiss,                     \* whether ticks may pass without a sample
  MaxNow,                      \* bound on the ticks of a behaviour
  Total,                       \* the device's memory
  IDLE_ACTIVE_MIN, IDLE_GAP_MIN, HANG_MIN, SPILLOVER_WINDOW,
  VRAM_WINDOW, VRAM_MIN_SPAN, VRAM_COOLDOWN, VRAM_MIN_SLOPE,
  None

IDLE_ACTIVE_UTIL == 50
IDLE_GAP_UTIL == 10
IDLE_HOLDER_MIN == 256
HANG_DEVICE_UTIL == 2
HANG_PROC_UTIL == 2
HANG_RESET_UTIL == 10
HANG_HOLDER_MIN == 1024
SPILLOVER_HOLDER_MIN == 2048
SPILLOVER_BUSY_UTIL == 30
SPILLOVER_MAX_MEAN_UTIL == 15
SPILLOVER_MIN_MEAN_CPU == 150
SPILLOVER_MIN_CPU_SAMPLES == 3
SPILLOVER_MIN_COVERAGE == 50
VRAM_PRESSURE == 85

Sample == [throttle : Throttles, util : Utils, used : Useds]
Process == [mem : Mems, util : ProcUtils, cpu : Cpus]
ProcessList == UNION {[S -> Process] : S \in SUBSET Pids}

Times == 1..MaxNow
Gap == [start : Times, holders : SUBSET Pids, hang_narrated : BOOLEAN]
Hang == [start : Times, holder : Pids, fired : BOOLEAN]

ASSUME StoryAssumption ==
  /\ None \notin Int \union Pids \union Sample \union Gap \union Hang
  /\ None \notin {"throttling", "clear"}
  /\ Throttles \subseteq {"throttling", "clear", None}
  /\ Utils \subseteq Nat \union {None} /\ Useds \subseteq Nat \union {None}
  /\ Cpus \subseteq Nat \union {None}
  /\ Mems \subseteq Nat /\ ProcUtils \subseteq Nat
  /\ MayBlind \in BOOLEAN /\ MayMiss \in BOOLEAN
  /\ {IDLE_ACTIVE_MIN, IDLE_GAP_MIN, HANG_MIN, SPILLOVER_WINDOW, VRAM_WINDOW,
      VRAM_MIN_SPAN, VRAM_COOLDOWN, VRAM_MIN_SLOPE} \subseteq Nat
  /\ MaxNow \in Nat /\ Total \in Nat \ {0}

VARIABLES
  \* DevState
  prev,            \* the last sample, or None
  procs,           \* the last observed process list
  seen,            \* seen_first_procs
  throttle_since, active_since, idle_eligible,
  gap,             \* [start, holders, hang_narrated], or None
  hang,            \* [start, holder, fired], or None
  spillovers,      \* by pid
  vram_window,     \* sequence of [at, used]
  last_pressure,
  \* the tick
  now,
  said,            \* events of the last tick: <<kind, pid or None>>
  \* what was told and what was there (history)
  roster,          \* the first list, as the events since then amend it
  present,         \* since when each pid is in every list, none unobserved
  working,         \* since when every sample is active
  told             \* kinds told since the device last was active

inference == <<active_since, idle_eligible, gap, hang, spillovers>>
device == <<prev, throttle_since, vram_window, last_pressure>>
clients == <<procs, seen>>
history == <<roster, present, working, told>>
vars == <<inference, device, clients, now, said, history>>

NoOne == [p \in {} |-> None]

Init ==
  /\ prev = None /\ procs = NoOne /\ seen = FALSE
  /\ throttle_since = None /\ active_since = None /\ idle_eligible = FALSE
  /\ gap = None /\ hang = None /\ spillovers = NoOne
  /\ vram_window = <<>> /\ last_pressure = None
  /\ now = 1 /\ said = {}
  /\ roster = {} /\ working = None /\ told = {}
  /\ present = [p \in Pids |-> None]

Known(x) == x # None
Pairs(kind, S) == {<<kind, p>> : p \in S}
When(condition, kind) == IF condition THEN {<<kind, None>>} ELSE {}

-----------------------------------------------------------------------------
(* throttle_events *)

Throttling(s) == s # None /\ s.throttle = "throttling"

Begins(s) == Throttling(s) /\ ~Throttling(prev)
Ends(s) == s.throttle = "clear" /\ Throttling(prev)

\* Mutant: an unobserved throttle leaves the episode open.
ThrottleSince_KeptWhenBlind(s) ==
  IF Begins(s) THEN now ELSE IF Ends(s) THEN None ELSE throttle_since

ThrottleSince(s) ==
  IF Begins(s) THEN now
  ELSE IF Ends(s) \/ s.throttle = None THEN None ELSE throttle_since

ThrottleSaid(s) == When(Begins(s), "throttle_start") \union When(Ends(s), "throttle_end")

-----------------------------------------------------------------------------
(* process_events: the first list is nobody's news *)

Attached(ps) == IF seen THEN DOMAIN ps \ DOMAIN procs ELSE {}
Exited(ps) == IF seen THEN DOMAIN procs \ DOMAIN ps ELSE {}

ProcessSaid(ps) == Pairs("attached", Attached(ps)) \union Pairs("exited", Exited(ps))

-----------------------------------------------------------------------------
(* spillover_events *)

Window(at) ==
  [start |-> at, util_sum |-> 0, util_n |-> 0, cpu_sum |-> 0, cpu_n |-> 0, tick_n |-> 0]

Newcomers(ps) ==
  {p \in Attached(ps) \ DOMAIN spillovers : ps[p].mem >= SPILLOVER_HOLDER_MIN}

\* Windows a busy device or an exit does not cancel.
Assessed(s, ps) ==
  IF Known(s.util) /\ s.util >= SPILLOVER_BUSY_UTIL THEN {}
  ELSE (DOMAIN spillovers \union Newcomers(ps)) \intersect DOMAIN ps

Counted(s, ps, p) ==
  LET sp == IF p \in DOMAIN spillovers THEN spillovers[p] ELSE Window(now)
  IN [start |-> sp.start,
      util_sum |-> sp.util_sum + (IF Known(s.util) THEN s.util ELSE 0),
      util_n |-> sp.util_n + (IF Known(s.util) THEN 1 ELSE 0),
      cpu_sum |-> sp.cpu_sum + (IF Known(ps[p].cpu) THEN ps[p].cpu ELSE 0),
      cpu_n |-> sp.cpu_n + (IF Known(ps[p].cpu) THEN 1 ELSE 0),
      tick_n |-> sp.tick_n + 1]

\* Mutant: the window closes a tick late.
Closed_Late(sp) == now - sp.start > SPILLOVER_WINDOW

Closed(sp) == now - sp.start >= SPILLOVER_WINDOW

\* The verdict on a closed window: the means need samples behind them.
Spills(sp) ==
  /\ sp.util_n > 0 /\ sp.util_n * 100 >= sp.tick_n * SPILLOVER_MIN_COVERAGE
  /\ sp.cpu_n >= SPILLOVER_MIN_CPU_SAMPLES
  /\ sp.util_sum < SPILLOVER_MAX_MEAN_UTIL * sp.util_n
  /\ sp.cpu_sum >= SPILLOVER_MIN_MEAN_CPU * sp.cpu_n

Spillovers(s, ps) ==
  [p \in {q \in Assessed(s, ps) : ~Closed(Counted(s, ps, q))} |-> Counted(s, ps, p)]

SpilloverSaid(s, ps) ==
  Pairs("spillover", {p \in Assessed(s, ps) : /\ Closed(Counted(s, ps, p))
                                              /\ Spills(Counted(s, ps, p))})

-----------------------------------------------------------------------------
(* hang_events, on the process list just observed *)

QuietHolder(proc) == proc.mem >= HANG_HOLDER_MIN /\ proc.util <= HANG_PROC_UTIL
QuietHolders(ps) == {p \in DOMAIN ps : QuietHolder(ps[p])}
Largest(ps) == {p \in QuietHolders(ps) : \A q \in QuietHolders(ps) : ps[q].mem <= ps[p].mem}

LooksHung(s, ps) ==
  Known(s.util) /\ s.util <= HANG_DEVICE_UTIL /\ QuietHolders(ps) # {}

HangGoesOn(s, ps) ==
  /\ hang # None /\ LooksHung(s, ps) /\ s.util <= HANG_RESET_UTIL
  /\ hang.holder \in DOMAIN ps

HangFires(s, ps) ==
  HangGoesOn(s, ps) /\ ~hang.fired /\ now - hang.start >= HANG_MIN

\* An episode that breaks ends in silence; the next may open a tick later.
HangNext(s, ps) ==
  IF hang # None
  THEN {IF HangGoesOn(s, ps)
        THEN [hang EXCEPT !.fired = hang.fired \/ HangFires(s, ps)] ELSE None}
  ELSE IF LooksHung(s, ps)
       THEN {[start |-> now, holder |-> p, fired |-> FALSE] : p \in Largest(ps)}
       ELSE {None}

HangSaid(s, ps) == IF HangFires(s, ps) THEN {<<"hang", hang.holder>>} ELSE {}

-----------------------------------------------------------------------------
(* idle_gap_events, after the hang that may mute its gap *)

Active(s) == Known(s.util) /\ s.util >= IDLE_ACTIVE_UTIL

StillHolding(ps) == {p \in gap.holders : p \in DOMAIN ps}

Muted(s, ps) == gap.hang_narrated \/ HangFires(s, ps)

GapOpens(s) ==
  gap = None /\ idle_eligible /\ Known(s.util) /\ s.util < IDLE_GAP_UTIL

GapNext(s, ps) ==
  IF gap # None /\ Known(s.util) /\ ~Active(s)
  THEN [start |-> gap.start, holders |-> StillHolding(ps), hang_narrated |-> Muted(s, ps)]
  ELSE IF GapOpens(s)
  THEN [start |-> now, holders |-> {p \in DOMAIN ps : ps[p].mem >= IDLE_HOLDER_MIN},
        hang_narrated |-> FALSE]
  ELSE None

GapSaid(s, ps) ==
  When(/\ gap # None /\ Active(s)
       /\ now - gap.start >= IDLE_GAP_MIN
       /\ ~gap.hang_narrated /\ StillHolding(ps) # {}, "idle_gap")

\* Mutant: a fall below the bar does not reset the activity clock.
ActiveSince_Latched(s) == IF Active(s) /\ active_since = None THEN now ELSE active_since

\* A recovery starts the clock afresh.
ActiveSince(s) ==
  IF ~Known(s.util) THEN None
  ELSE IF gap # None THEN (IF Active(s) THEN now ELSE active_since)
  ELSE IF ~Active(s) THEN None
  ELSE IF active_since = None THEN now ELSE active_since

IdleEligible(s) ==
  /\ Known(s.util)
  /\ IF gap # None THEN idle_eligible /\ ~Active(s)
     ELSE idle_eligible \/ (Active(s) /\ now - ActiveSince(s) >= IDLE_ACTIVE_MIN)

-----------------------------------------------------------------------------
(* vram_pressure_events *)

\* Mutant: a sharp drop stays in the trend.
Trend_ThroughDrops(used) == vram_window

\* A sharp drop restarts the trend.
Trend(used) ==
  IF /\ vram_window # <<>>
     /\ vram_window[Len(vram_window)].used - used > Total \div 20
  THEN <<>> ELSE vram_window

\* Old readings leave at the front; the one just taken is never old.
Aged(w) ==
  LET Old(i) == now - w[i].at > VRAM_WINDOW
      front == CHOOSE i \in DOMAIN w : ~Old(i) /\ \A j \in DOMAIN w : j < i => Old(j)
  IN SubSeq(w, front, Len(w))

VramWindow(s) ==
  IF s.used = None THEN vram_window
  ELSE Aged(Append(Trend(s.used), [at |-> now, used |-> s.used]))

PressureSaid(s) ==
  LET w == VramWindow(s)
      span == w[Len(w)].at - w[1].at
  IN When(/\ s.used # None
          /\ s.used * 100 >= Total * VRAM_PRESSURE
          /\ span >= VRAM_MIN_SPAN
          /\ w[Len(w)].used - w[1].used >= VRAM_MIN_SLOPE * span
          /\ (last_pressure # None => now - last_pressure >= VRAM_COOLDOWN), "pressure")

-----------------------------------------------------------------------------
(* observe *)

DeviceTold(s) ==
  /\ throttle_since' = ThrottleSince(s)
  /\ vram_window' = VramWindow(s)
  /\ last_pressure' = IF PressureSaid(s) # {} THEN now ELSE last_pressure
  /\ prev' = s
  /\ now < MaxNow /\ now' = now + 1
  /\ working' = IF ~Active(s) THEN None ELSE IF working = None THEN now ELSE working
  /\ told' = IF Active(s) THEN {} ELSE told \union {event[1] : event \in said'}

Since(held, S) ==
  [p \in Pids |-> IF p \notin S THEN None ELSE IF held[p] = None THEN now ELSE held[p]]

Observe(s, ps) ==
  /\ spillovers' = Spillovers(s, ps)
  /\ procs' = ps /\ seen' = TRUE
  /\ hang' \in HangNext(s, ps)
  /\ gap' = GapNext(s, ps)
  /\ active_since' = ActiveSince(s)
  /\ idle_eligible' = IdleEligible(s)
  /\ said' = ThrottleSaid(s) \union SpilloverSaid(s, ps) \union ProcessSaid(ps)
               \union HangSaid(s, ps) \union GapSaid(s, ps) \union PressureSaid(s)
  /\ DeviceTold(s)
  /\ roster' = IF seen THEN (roster \ {p \in Pids : <<"exited", p>> \in said'})
                              \union {p \in Pids : <<"attached", p>> \in said'}
               ELSE DOMAIN ps
  /\ present' = Since(present, DOMAIN ps)

\* The last observed truth is no claim about now, and stays.
KeptUnseen == procs

\* Mutant: an open hang outlives a list nobody saw.
HangUnseen_Kept == hang

HangUnseen == None

\* The process probe failed: what rests on the list is dropped.
ObserveBlind(s) ==
  /\ MayBlind
  /\ hang' = HangUnseen /\ gap' = None /\ spillovers' = NoOne
  /\ procs' = KeptUnseen
  /\ said' = ThrottleSaid(s) \union PressureSaid(s)
  /\ DeviceTold(s)
  /\ present' = Since(present, {})
  /\ UNCHANGED <<seen, active_since, idle_eligible, roster>>

\* Engine::tick on a failed device probe, or a paused collector.
Missed ==
  /\ MayMiss
  /\ now < MaxNow /\ now' = now + 1
  /\ said' = {}
  /\ UNCHANGED <<inference, device, clients, history>>

Next ==
  \/ \E s \in Sample : \/ \E ps \in ProcessList : Observe(s, ps)
                       \/ ObserveBlind(s)
  \/ Missed

Spec == Init /\ [][Next]_vars

-----------------------------------------------------------------------------
(* Properties *)

Assessment == [start : Times, util_sum : Nat, util_n : Nat, cpu_sum : Nat, cpu_n : Nat,
               tick_n : 1..SPILLOVER_WINDOW]

\* The state stays in its type, and no spillover window outlives its span.
TypeOK ==
  /\ prev \in Sample \union {None}
  /\ procs \in ProcessList /\ seen \in BOOLEAN
  /\ throttle_since \in Times \union {None} /\ active_since \in Times \union {None}
  /\ idle_eligible \in BOOLEAN
  /\ gap \in Gap \union {None} /\ hang \in Hang \union {None}
  /\ DOMAIN spillovers \subseteq Pids
  /\ \A p \in DOMAIN spillovers : spillovers[p] \in Assessment
  /\ now \in 1..(MaxNow + 1)

\* Whoever replays the attached and left events over the first list gets the
\* list last observed, however many lists went unobserved (process_events are
\* facts; observe: an unobservable list "is emphatically not the same as" none).
RosterFollowsEvents == seen => roster = DOMAIN procs

\* The holders an idle gap, a hang or a spillover rests on were in every list
\* since it opened, and no list since then went unobserved (observe: "neither
\* can be said across a tick where nobody could see the process list").
HoldersStayed ==
  LET Stayed(p, start) == present[p] # None /\ present[p] <= start
  IN /\ gap # None => \A p \in gap.holders : Stayed(p, gap.start)
     /\ hang # None => Stayed(hang.holder, hang.start)
     /\ \A p \in DOMAIN spillovers : Stayed(p, spillovers[p].start)

\* A spillover window belongs to a process that arrived, never to one that was
\* there: it opened in the tick its process was first seen, so that each
\* arrival is judged at most once (spillover_events).
SpilloverOfArrivals ==
  \A p \in DOMAIN spillovers : spillovers[p].start = present[p]

\* Every inference rests on lists that were seen and held its processes.
InferencesHold == HoldersStayed /\ SpilloverOfArrivals

\* A trough whose hang was told is not told again as an idle gap when the
\* device recovers (hang_events: "so one incident is narrated once").
OncePerTrough == "hang" \in told => <<"idle_gap", None>> \notin said'

\* Only work that every sample of IDLE_ACTIVE_MIN showed makes the next trough
\* a story (DevState::idle_eligible: "sustained activity").
ActivityIsSustained ==
  ~idle_eligible /\ idle_eligible' =>
    working' # None /\ now - working' >= IDLE_ACTIVE_MIN

\* A throttle that ends is one whose start was seen, so that the end always
\* says how long it lasted (throttle_events).
EndKnowsItsStart == Throttling(prev) <=> throttle_since # None

\* What is told as a fact is the state it changed: the processes listed and
\* the throttle seen (process_events, throttle_events).
FactsFollowState == RosterFollowsEvents /\ EndKnowsItsStart

\* The trend VRAM pressure extrapolates holds no sharp drop and nothing older
\* than its window (vram_pressure_events: "wrong in the dangerous direction").
TrendIsOneClimb ==
  \A i, j \in DOMAIN vram_window : i < j =>
    /\ vram_window[i].at < vram_window[j].at
    /\ vram_window[j].at - vram_window[i].at <= VRAM_WINDOW
    /\ j = i + 1 => vram_window[i].used - vram_window[j].used <= Total \div 20
=============================================================================
