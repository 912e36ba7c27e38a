----------------------------- MODULE LoopProofs -----------------------------
(***************************************************************************)
(* Theorems about the loop and what surrounds a tick - the cadence, a      *)
(* session on its way out, the simulation's script, the demo's file, and   *)
(* the rows made of its frames - for every value of their constants.  No   *)
(* part of MCEngine moves another, so each theorem starts from the part's  *)
(* own initial states and steps.  The lemmas on sums over finite sets are  *)
(* for the rows here and for the figures of BackendProofs.                 *)
(***************************************************************************)
EXTENDS MCEngine, FiniteSets, TLAPS, WellFoundedInduction, FiniteSetTheorems

-----------------------------------------------------------------------------
(* Cadence: the loop in time, for every number of devices, interval, idle
   budget, sample set and duration of a tick *)

\* The numeric part of the assumptions on the constants.
LEMMA CadenceNumbers ==
  /\ N \in Nat
  /\ Interval \in Nat /\ Interval > 0
  /\ IdleTicks \in Nat /\ IdleTicks > 0
  /\ MaxPanics \in Nat /\ MaxPanics > 0
  /\ AgeCap \in Nat
  /\ Bodies \subseteq Nat
  /\ Overheads \subseteq Nat
BY CadenceAssumption

\* Naturals are closed under addition.
LEMMA SumIsNat == \A a, b \in Nat : a + b \in Nat
OBVIOUS

\* A count below its budget, counted once more.
LEMMA CountStep ==
  ASSUME NEW n \in 0..MaxPanics, n < MaxPanics
  PROVE  n + 1 \in 0..MaxPanics /\ (~(n + 1 >= MaxPanics) => n + 1 < MaxPanics)
BY CadenceNumbers

\* The sleeps and the threshold are numbers, and a sleep is one of the two.
LEMMA IntervalTypes ==
  /\ Interval \in Nat
  /\ Stretched \in Nat
  /\ stall_threshold \in Nat
  /\ \A s : effective_interval(s) \in {Interval, Stretched}
<1>1. Interval \in Nat
  BY CadenceNumbers
<1>2. Stretched \in Nat
  BY <1>1 DEF Stretched, BACKOFF_MULTIPLIER, BACKOFF_CAP
<1>3. stall_threshold \in Nat
  BY <1>1 DEF stall_threshold, STALL_FLOOR
<1>4. \A s : effective_interval(s) \in {Interval, Stretched}
  BY DEF effective_interval
<1>5. QED
  BY <1>1, <1>2, <1>3, <1>4

\* The streak stays in its range.
LEMMA StreakType ==
  ASSUME idleStreak \in 0..IdleTicks, NEW idle
  PROVE  NextStreak(idle) \in 0..IdleTicks
BY CadenceNumbers DEF NextStreak

\* An age saturates inside Nat and never above what it saturates.
LEMMA SaturateType ==
  ASSUME NEW n \in Nat
  PROVE  Saturate(n) \in Nat /\ Saturate(n) <= n
BY CadenceNumbers DEF Saturate

\* Growing older keeps an age an age.
LEMMA OlderType ==
  ASSUME NEW age \in Nat \union {None}, NEW ms \in Nat
  PROVE  Older(age, ms) \in Nat \union {None}
<1>1. CASE age = None
  BY <1>1 DEF Older
<1>2. CASE age # None
  <2>1. age + ms \in Nat
    BY <1>2
  <2>2. QED
    BY <1>2, <2>1, SaturateType DEF Older
<1>3. QED
  BY <1>1, <1>2

\* What the type of the panic counter needs to be inductive: a live loop has
\* panicked fewer than MaxPanics times in a row.
PanicsBounded == ~dead => panics < MaxPanics

\* What ties the age of the last tick to the sleep: between two frames with
\* nothing in between, it is at most the sleep plus the loop's own overhead.
QuietGapBounded == sinceEnd # None /\ ~interrupted => sinceEnd <= stall_threshold

\* The inductive strengthening of the type invariant.
CadenceInv == TypeOK /\ PanicsBounded

\* The loop starts within its type, with no panic.
LEMMA CadenceStart == Init => CadenceInv
<1> SUFFICES ASSUME Init PROVE CadenceInv
  OBVIOUS
<1>1. prev \in [Devices -> Sample \union {None}]
  BY DEF Init
<1>2. /\ idleStreak \in 0..IdleTicks /\ panics \in 0..MaxPanics
      /\ PanicsBounded
  BY CadenceNumbers DEF Init, PanicsBounded
<1>3. /\ effective \in {Interval, Stretched} /\ sinceEnd \in Nat \union {None}
      /\ paused \in BOOLEAN /\ dead \in BOOLEAN /\ failing \in SUBSET Devices
      /\ stalled \in BOOLEAN /\ interrupted \in BOOLEAN
  BY DEF Init
<1>4. QED
  BY <1>1, <1>2, <1>3 DEF CadenceInv, TypeOK

\* Every kind of pass keeps the invariant.
LEMMA CadenceStep == CadenceInv /\ [Next]_vars => CadenceInv'
<1> SUFFICES ASSUME CadenceInv, [Next]_vars PROVE CadenceInv'
  OBVIOUS
<1>n. /\ idleStreak \in 0..IdleTicks
      /\ panics \in 0..MaxPanics
      /\ ~dead => panics < MaxPanics
      /\ effective \in {Interval, Stretched}
  BY DEF CadenceInv, TypeOK, PanicsBounded
<1>1. ASSUME NEW probes \in [Devices -> Samples \union {None}],
             NEW busyProcs \in SUBSET Devices,
             NEW overhead \in Overheads,
             CleanTick(probes, busyProcs, overhead)
      PROVE  CadenceInv'
  <2>1. prev' \in [Devices -> Sample \union {None}]
    BY <1>1, CadenceAssumption DEF CleanTick, CadenceInv, TypeOK
  <2>2. idleStreak' \in 0..IdleTicks
    BY <1>1, <1>n, StreakType DEF CleanTick
  <2>3. effective' \in {Interval, Stretched}
    BY <1>1, IntervalTypes DEF CleanTick
  <2>4. sinceEnd' \in Nat
    <3>1. effective' \in Nat /\ overhead \in Nat
      BY <2>3, IntervalTypes, CadenceNumbers
    <3>2. effective' + overhead \in Nat
      BY <3>1, SumIsNat, Zenon
    <3>3. sinceEnd' = Saturate(effective' + overhead)
      BY <1>1 DEF CleanTick
    <3>4. QED
      BY <3>2, <3>3, SaturateType, Zenon
  <2>5. /\ failing' \in SUBSET Devices
        /\ stalled' \in BOOLEAN
        /\ interrupted' \in BOOLEAN
    BY <1>1 DEF CleanTick, is_stall
  <2>6. panics' = 0 /\ UNCHANGED <<paused, dead>>
    BY <1>1 DEF CleanTick
  <2>7. panics' \in 0..MaxPanics /\ panics' < MaxPanics
    BY <2>6, CadenceNumbers
  <2>8. QED
    BY <2>1, <2>2, <2>3, <2>4, <2>5, <2>6, <2>7 DEF CadenceInv, TypeOK, PanicsBounded
<1>2. ASSUME NEW k \in 0..N, NEW took \in Bodies, NEW overhead \in Overheads,
             NEW failed \in SUBSET (1..k),
             PanickedTick(k, failed, took, overhead)
      PROVE  CadenceInv'
  <2>1. sinceEnd' \in Nat \union {None}
    <3>1. took \in Nat /\ Interval \in Nat /\ overhead \in Nat
      BY CadenceNumbers
    <3>2. took + Interval + overhead \in Nat
      BY <3>1, SumIsNat, Zenon
    <3>3. sinceEnd \in Nat \union {None}
      BY DEF CadenceInv, TypeOK
    <3>4. QED
      BY <1>2, <3>2, <3>3, OlderType DEF PanickedTick
  <2>2. failing' \in SUBSET Devices
    <3>1. 1..k \subseteq Devices
      BY CadenceNumbers DEF Devices
    <3>2. QED
      BY <1>2, <3>1 DEF PanickedTick, CadenceInv, TypeOK
  <2>3. /\ ~dead /\ panics' = panics + 1
        /\ dead' = (panics + 1 >= MaxPanics)
    BY <1>2 DEF PanickedTick, Fatal
  <2>4. panics' \in 0..MaxPanics /\ (~dead' => panics' < MaxPanics)
    <3>1. panics < MaxPanics
      BY <1>n, <2>3
    <3>2. QED
      BY <1>n, <2>3, <3>1, CountStep, Zenon
  <2>5. idleStreak' \in {0, idleStreak} /\ effective' \in {Interval, effective}
    BY <1>2 DEF PanickedTick
  <2>6. idleStreak' \in 0..IdleTicks /\ effective' \in {Interval, Stretched}
    BY <1>n, <2>5, CadenceNumbers
  <2>7. /\ prev' = prev /\ paused' = paused
        /\ stalled' = FALSE /\ interrupted' = TRUE
    BY <1>2 DEF PanickedTick
  <2>8. dead' \in BOOLEAN
    BY <2>3, <2>7, CadenceNumbers
  <2>9. QED
    BY <2>1, <2>2, <2>4, <2>6, <2>7, <2>8 DEF CadenceInv, TypeOK, PanicsBounded
<1>3. ASSUME NEW overhead \in Overheads, PausedPass(overhead)
      PROVE  CadenceInv'
  <2>1. sinceEnd' \in Nat \union {None}
    <3>1. Interval \in Nat /\ overhead \in Nat
      BY CadenceNumbers
    <3>2. Interval + overhead \in Nat
      BY <3>1, SumIsNat, Zenon
    <3>3. sinceEnd \in Nat \union {None}
      BY DEF CadenceInv, TypeOK
    <3>4. QED
      BY <1>3, <3>2, <3>3, OlderType DEF PausedPass
  <2>2. idleStreak' = 0 /\ 0 \in 0..IdleTicks
    BY <1>3, CadenceNumbers DEF PausedPass
  <2>3. QED
    BY <1>3, <2>1, <2>2 DEF PausedPass, CadenceInv, TypeOK, PanicsBounded
<1>4. CASE TogglePause
  BY <1>4 DEF TogglePause, CadenceInv, TypeOK, PanicsBounded
<1>5. CASE UNCHANGED vars
  BY <1>5 DEF vars, CadenceInv, TypeOK, PanicsBounded
<1>6. QED
  BY <1>1, <1>2, <1>3, <1>4, <1>5 DEF Next

\* Type correctness of the loop, for every value of the constants: it only
\* ever sleeps the configured or the stretched interval and never panics past
\* its budget (Collector::start, Engine::tick_guarded).
THEOREM TypeCorrect == Spec => []TypeOK
<1>1. CadenceInv => TypeOK
  BY DEF CadenceInv
<1>2. QED
  BY <1>1, CadenceStart, CadenceStep, PTL DEF Spec

-----------------------------------------------------------------------------
\* A failed probe keeps the loop at the configured rate, whichever of the
\* devices failed, in a folded frame or in a tick that panicked after probing
\* it (device_is_idle, Backoff::observe, Backoff::skip).
THEOREM FailedProbeIsWatched == Spec => []FailedProbePinsCadence
<1>1. Init => FailedProbePinsCadence
  BY DEF Init, FailedProbePinsCadence
<1>2. CadenceInv /\ FailedProbePinsCadence /\ [Next]_vars => FailedProbePinsCadence'
  <2> SUFFICES ASSUME CadenceInv, FailedProbePinsCadence, [Next]_vars
               PROVE  FailedProbePinsCadence'
    OBVIOUS
  <2> USE DEF FailedProbePinsCadence
  <2>1. ASSUME NEW probes \in [Devices -> Samples \union {None}],
               NEW busyProcs \in SUBSET Devices,
               NEW overhead \in Overheads,
               CleanTick(probes, busyProcs, overhead),
               failing' # {}
        PROVE  effective' = Interval
    <3>1. PICK d \in Devices : probes[d] = None
      BY <2>1 DEF CleanTick
    <3>2. ~AllIdle(probes, busyProcs)
      BY <3>1 DEF AllIdle, device_is_idle
    <3>3. BackoffEnabled => NextStreak(AllIdle(probes, busyProcs)) = 0
      BY <3>2 DEF NextStreak
    <3>4. QED
      BY <2>1, <3>3, CadenceNumbers DEF CleanTick, effective_interval
  <2>2. ASSUME NEW k \in 0..N, NEW took \in Bodies, NEW overhead \in Overheads,
               NEW failed \in SUBSET (1..k),
               PanickedTick(k, failed, took, overhead)
        PROVE  FailedProbePinsCadence'
    BY <2>2 DEF PanickedTick
  <2>3. ASSUME NEW overhead \in Overheads, PausedPass(overhead)
        PROVE  FailedProbePinsCadence'
    BY <2>3 DEF PausedPass
  <2>4. TogglePause \/ UNCHANGED vars => UNCHANGED <<dead, failing, effective>>
    BY DEF TogglePause, vars
  <2> QED
    BY <2>1, <2>2, <2>3, <2>4 DEF Next
<1>3. QED
  BY <1>1, <1>2, CadenceStart, CadenceStep, PTL DEF Spec

-----------------------------------------------------------------------------
\* Backoff never samples faster than configured when the configured interval
\* is within the cap; above it the cap wins (see the README's findings).
THEOREM BackoffOnlyLengthens ==
  Interval <= BACKOFF_CAP => (Spec => []NeverFasterThanConfigured)
<1> SUFFICES ASSUME Interval <= BACKOFF_CAP
             PROVE  Spec => []NeverFasterThanConfigured
  OBVIOUS
<1>1. TypeOK => NeverFasterThanConfigured
  <2> SUFFICES ASSUME TypeOK PROVE effective >= Interval
    BY DEF NeverFasterThanConfigured
  <2>1. Stretched >= Interval
    BY CadenceNumbers DEF Stretched, BACKOFF_CAP, BACKOFF_MULTIPLIER
  <2>2. effective \in {Interval, Stretched}
    BY DEF TypeOK
  <2>3. QED
    BY <2>1, <2>2, CadenceNumbers
<1>2. QED
  BY <1>1, TypeCorrect, PTL

\* With an interval within the cap, the rate is kept whatever fails, panics
\* or pauses (device_is_idle, effective_interval).
THEOREM RateKept == Interval <= BACKOFF_CAP => (Spec => []RateIsKept)
<1> SUFFICES ASSUME Interval <= BACKOFF_CAP PROVE Spec => []RateIsKept
  OBVIOUS
<1>1. Spec => []NeverFasterThanConfigured
  BY BackoffOnlyLengthens
<1>2. FailedProbePinsCadence /\ NeverFasterThanConfigured => RateIsKept
  BY DEF RateIsKept
<1>3. QED
  BY <1>1, <1>2, FailedProbeIsWatched, PTL

-----------------------------------------------------------------------------
\* The loop's own sleep fits under the stall threshold, stretched or not.
SleepFitsThreshold ==
  \A overhead \in Overheads :
    /\ Interval + overhead <= stall_threshold
    /\ Stretched + overhead <= stall_threshold

\* Where the stretched sleep fits under the stall threshold, a stall between
\* two consecutive frames is never the loop's own sleep (Engine::tick,
\* is_stall, Backoff::observe). The default interval of 1000 ms does not fit.
THEOREM StallIsNotOwnSleep ==
  SleepFitsThreshold => (Spec => StallNeverFromOwnSleep)
<1> SUFFICES ASSUME SleepFitsThreshold
             PROVE  Spec => StallNeverFromOwnSleep
  OBVIOUS
<1>1. Init => QuietGapBounded
  BY DEF Init, QuietGapBounded
<1>2. CadenceInv /\ QuietGapBounded /\ [Next]_vars => QuietGapBounded'
  <2> SUFFICES ASSUME CadenceInv, QuietGapBounded, [Next]_vars
               PROVE  QuietGapBounded'
    OBVIOUS
  <2> USE DEF QuietGapBounded
  <2>1. ASSUME NEW probes \in [Devices -> Samples \union {None}],
               NEW busyProcs \in SUBSET Devices,
               NEW overhead \in Overheads,
               CleanTick(probes, busyProcs, overhead)
        PROVE  QuietGapBounded'
    <3>1. effective' \in {Interval, Stretched}
      BY <2>1, IntervalTypes DEF CleanTick
    <3>2. effective' + overhead \in Nat /\ effective' + overhead <= stall_threshold
      <4>1. effective' \in Nat /\ overhead \in Nat
        BY <3>1, IntervalTypes, CadenceNumbers
      <4>2. effective' + overhead <= stall_threshold
        BY <3>1 DEF SleepFitsThreshold
      <4>3. QED
        BY <4>1, <4>2, SumIsNat, Zenon
    <3>3. sinceEnd' = Saturate(effective' + overhead)
      BY <2>1 DEF CleanTick
    <3>4. sinceEnd' \in Nat /\ sinceEnd' <= effective' + overhead
      BY <3>2, <3>3, SaturateType
    <3>5. sinceEnd' <= stall_threshold
      BY <3>2, <3>4, IntervalTypes
    <3>6. stall_threshold' = stall_threshold
      BY DEF stall_threshold
    <3>7. QED
      BY <3>5, <3>6
  <2>2. ASSUME NEW k \in 0..N, NEW took \in Bodies, NEW overhead \in Overheads,
               NEW failed \in SUBSET (1..k),
               PanickedTick(k, failed, took, overhead)
        PROVE  QuietGapBounded'
    BY <2>2 DEF PanickedTick
  <2>3. ASSUME NEW overhead \in Overheads, PausedPass(overhead)
        PROVE  QuietGapBounded'
    BY <2>3 DEF PausedPass
  <2>4. CASE TogglePause
    BY <2>4 DEF TogglePause, stall_threshold
  <2>5. CASE UNCHANGED vars
    BY <2>5 DEF vars, stall_threshold
  <2>6. QED
    BY <2>1, <2>2, <2>3, <2>4, <2>5 DEF Next
<1>3. CadenceInv /\ QuietGapBounded /\ [Next]_vars
        => [FrameFolded /\ stalled' => interrupted]_vars
  <2> SUFFICES ASSUME CadenceInv, QuietGapBounded, Next,
                      FrameFolded, stalled', ~interrupted
               PROVE  FALSE
    OBVIOUS
  <2>1. ASSUME NEW probes \in [Devices -> Samples \union {None}],
               NEW busyProcs \in SUBSET Devices,
               NEW overhead \in Overheads,
               CleanTick(probes, busyProcs, overhead)
        PROVE  FALSE
    <3>1. sinceEnd \in Nat /\ sinceEnd > stall_threshold
      BY <2>1 DEF CleanTick, is_stall, CadenceInv, TypeOK
    <3>2. sinceEnd <= stall_threshold
      BY <3>1, CadenceAssumption DEF QuietGapBounded
    <3>3. QED
      BY <3>1, <3>2, IntervalTypes
  <2>2. ASSUME NEW k \in 0..N, NEW took \in Bodies, NEW overhead \in Overheads,
               NEW failed \in SUBSET (1..k),
               PanickedTick(k, failed, took, overhead)
        PROVE  FALSE
    BY <2>2 DEF PanickedTick
  <2>3. ASSUME NEW overhead \in Overheads, PausedPass(overhead)
        PROVE  FALSE
    BY <2>3 DEF PausedPass
  <2>4. CASE TogglePause
    BY <2>4 DEF TogglePause, FrameFolded, CadenceInv, TypeOK
  <2>5. QED
    BY <2>1, <2>2, <2>3, <2>4 DEF Next
<1>4. QED
  BY <1>1, <1>2, <1>3, CadenceStart, CadenceStep, PTL DEF Spec, StallNeverFromOwnSleep

-----------------------------------------------------------------------------
(* Demo: one file, several sessions *)

\* The demo moves by its own actions alone.
LEMMA DemoPart == Spec2 => Dmo!Init /\ [][Dmo!Next]_dmoVars
<1>1. Init2 => Dmo!Init
  BY DEF Init2
<1>2. [Next2]_<<setting, vars, outVars, regVars, prbVars, thrVars,
               qryVars, figVars, socVars, mckVars, rowVars, dmoVars>>
        => [Dmo!Next]_dmoVars
  BY DEF Next2
<1>3. QED
  BY <1>1, <1>2, PTL DEF Spec2

Places == {"start", "probing", "refused", "probed", "cleared", "locking", "seeding",
           "seeded", "live", "unrecorded", "done", "killed"}

DemoTypes ==
  /\ files \in Nat
  /\ at \in 1..files \union {None}
  /\ where \in [Dmo!Procs -> Places]
  /\ mine \in [Dmo!Procs -> 1..files \union {None}]
  /\ intruders \in [Demos -> SUBSET Dmo!Procs]
  /\ rows \subseteq (1..files) \X Dmo!Procs
  /\ torn \subseteq Dmo!Procs

\* The lock is with the one process that has the file open.
LockIsHeld ==
  \A p \in Dmo!Procs : /\ where[p] \in {"probing", "seeding", "live"} <=> lock = p
                       /\ lock = p => mine[p] # None

\* Who holds the lock while a demo is in its gap came in the gap.
HolderIntrudes ==
  \A d \in Demos, p \in Dmo!Procs : Dmo!InGap(d) /\ lock = p => p \in intruders[d]

\* What a demo that has deleted the file finds at the path was made in its gap.
NewFileIsIntruders ==
  \A d \in Demos :
    where[d] \in {"cleared", "locking"} /\ at # None =>
      Dmo!Writers(at) \subseteq intruders[d]

DemoInv == DemoTypes /\ LockIsHeld /\ HolderIntrudes /\ NewFileIsIntruders /\ Dmo!OnlyTheGapTears

\* Before the first invocation nobody holds the lock.
LEMMA DemoStart == Dmo!Init => DemoInv
<1> SUFFICES ASSUME Dmo!Init
             PROVE  DemoInv
  OBVIOUS
<1>0. None \notin Dmo!Procs
  BY EngineAssumption
<1>1. \A p \in Dmo!Procs : where[p] = "start" /\ lock # p
  BY <1>0 DEF Dmo!Init
<1>2. DemoTypes
  <2>1. /\ files \in Nat /\ at \in 1..files \union {None} /\ torn \subseteq Dmo!Procs
        /\ where \in [Dmo!Procs -> Places] /\ rows = {}
    BY DEF Dmo!Init, Places
  <2>2. mine \in [Dmo!Procs -> 1..files \union {None}]
    BY DEF Dmo!Init
  <2>3. intruders \in [Demos -> SUBSET Dmo!Procs]
    BY DEF Dmo!Init
  <2>4. QED
    BY <2>1, <2>2, <2>3 DEF DemoTypes
<1>3. LockIsHeld /\ HolderIntrudes /\ NewFileIsIntruders
  BY <1>1 DEF LockIsHeld, HolderIntrudes, NewFileIsIntruders, Dmo!InGap, Dmo!Procs, Dmo!Init
<1>4. Dmo!OnlyTheGapTears
  BY <1>1 DEF Dmo!OnlyTheGapTears, Dmo!Writing, Dmo!Init, Dmo!Procs
<1>5. QED
  BY <1>2, <1>3, <1>4 DEF DemoInv

\* An open changes the file under the path only when there is none, and no demo
\* in its gap misses it.
LEMMA OpenedFacts ==
  ASSUME DemoInv, NEW p \in Dmo!Procs, NEW place \in Places, Dmo!Opened(p, place)
  PROVE  /\ lock = None /\ lock' = p
         /\ \A q \in Dmo!Procs : where[q] \notin {"probing", "seeding", "live"}
         /\ at' \in 1..files' /\ sides' = at' /\ files' \in Nat /\ files <= files'
         /\ at # None => at' = at
         /\ at = None => at' \notin 1..files
         /\ where' = [where EXCEPT ![p] = place]
         /\ mine' = [mine EXCEPT ![p] = at']
         /\ intruders' \in [Demos -> SUBSET Dmo!Procs]
         /\ \A d \in Demos : intruders[d] \subseteq intruders'[d]
         /\ \A d \in Demos : d # p /\ Dmo!InGap(d) => p \in intruders'[d]
<1> USE EngineAssumption
<1>1. lock = None /\ lock' = p
  BY DEF Dmo!Opened
<1>2. \A q \in Dmo!Procs : where[q] \notin {"probing", "seeding", "live"}
  BY <1>1 DEF DemoInv, LockIsHeld
<1>3. /\ files' = (IF at = None THEN files + 1 ELSE files)
      /\ at' = (IF at = None THEN files + 1 ELSE at)
      /\ sides' = at' /\ mine' = [mine EXCEPT ![p] = at']
      /\ where' = [where EXCEPT ![p] = place]
  BY DEF Dmo!Opened, Dmo!Goto
<1>31. /\ intruders' \in [Demos -> SUBSET Dmo!Procs]
       /\ \A d \in Demos : intruders[d] \subseteq intruders'[d]
       /\ \A d \in Demos : d # p /\ Dmo!InGap(d) => p \in intruders'[d]
  <2>1. intruders \in [Demos -> SUBSET Dmo!Procs]
    BY DEF DemoInv, DemoTypes
  <2>2. intruders' = [d \in Demos |->
                       IF d # p /\ Dmo!InGap(d) THEN intruders[d] \union {p} ELSE intruders[d]]
    BY DEF Dmo!Opened
  <2>3. QED
    BY <2>1, <2>2
<1>4. files \in Nat /\ at \in 1..files \union {None}
  BY DEF DemoInv, DemoTypes
<1>5. CASE at = None
  <2>1. files' = files + 1 /\ at' = files + 1
    BY <1>3, <1>5
  <2>2. at' \in 1..files' /\ files' \in Nat /\ files <= files' /\ at' \notin 1..files
    BY <1>4, <2>1
  <2>3. QED
    BY <1>5, <2>2, <1>1, <1>2, <1>3, <1>31
<1>6. CASE at # None
  <2>1. at' \in 1..files' /\ files' \in Nat /\ files <= files'
    BY <1>3, <1>4, <1>6
  <2>2. QED
    BY <1>6, <2>1, <1>1, <1>2, <1>3, <1>31
<1>7. QED
  BY <1>5, <1>6

\* An open keeps the invariant, whatever its place; what is written with it is
\* the opener's.
LEMMA OpenedKeepsDemo ==
  ASSUME DemoInv, NEW p \in Dmo!Procs, NEW place \in {"probing", "seeding", "live"},
         Dmo!Opened(p, place), UNCHANGED torn,
         rows' = rows \/ (place # "seeding" /\ rows' = rows \union {<<mine'[p], p>>}),
         place = "seeding" => where[p] = "locking"
  PROVE  DemoInv'
<1> DEFINE After(f) == {q \in Dmo!Procs : <<f, q>> \in rows'}
<1> USE EngineAssumption
<1>0. place \in Places
  BY DEF Places
<1>1. /\ lock = None /\ lock' = p
      /\ \A q \in Dmo!Procs : where[q] \notin {"probing", "seeding", "live"}
      /\ at' \in 1..files' /\ sides' = at' /\ files' \in Nat /\ files <= files'
      /\ at # None => at' = at
      /\ at = None => at' \notin 1..files
      /\ where' = [where EXCEPT ![p] = place]
      /\ mine' = [mine EXCEPT ![p] = at']
      /\ intruders' \in [Demos -> SUBSET Dmo!Procs]
      /\ \A d \in Demos : intruders[d] \subseteq intruders'[d]
      /\ \A d \in Demos : d # p /\ Dmo!InGap(d) => p \in intruders'[d]
  BY <1>0, OpenedFacts
<1>2. /\ files \in Nat /\ where \in [Dmo!Procs -> Places]
      /\ mine \in [Dmo!Procs -> 1..files \union {None}]
      /\ rows \subseteq (1..files) \X Dmo!Procs /\ torn \subseteq Dmo!Procs
      /\ at \in 1..files \union {None}
  BY DEF DemoInv, DemoTypes
<1>3. where'[p] = place /\ mine'[p] = at' /\ where' \in [Dmo!Procs -> Places]
      /\ \A q \in Dmo!Procs : q # p => where'[q] = where[q] /\ mine'[q] = mine[q]
  BY <1>0, <1>1, <1>2
<1>4. 1..files \subseteq 1..files'
  BY <1>1, <1>2
<1>5. DemoTypes'
  <2>1. mine' \in [Dmo!Procs -> 1..files' \union {None}]
    BY <1>1, <1>2, <1>4
  <2>2. rows' \subseteq (1..files') \X Dmo!Procs
    BY <1>1, <1>2, <1>3, <1>4
  <2>3. QED
    BY <1>1, <1>2, <1>3, <2>1, <2>2 DEF DemoTypes
<1>6. LockIsHeld'
  <2>1. at' # None
    BY <1>1
  <2>2. QED
    BY <1>1, <1>3, <2>1 DEF LockIsHeld
<1>7. HolderIntrudes'
  <2>1. ASSUME NEW d \in Demos, NEW q \in Dmo!Procs, Dmo!InGap(d)', lock' = q
        PROVE  q \in intruders'[d]
    <3>1. d # p /\ q = p
      BY <1>1, <1>3, <2>1 DEF Dmo!InGap
    <3>2. Dmo!InGap(d)
      BY <1>3, <2>1, <3>1 DEF Dmo!InGap, Dmo!Procs
    <3>3. QED
      BY <1>1, <3>1, <3>2
  <2>2. QED
    BY <2>1 DEF HolderIntrudes
<1>8. \A f \in 1..files : at = f => at' = f
  BY <1>1, <1>4, <1>2
<1>9. at = None => Dmo!Writers(at') = {}
  BY <1>1, <1>2 DEF Dmo!Writers
<1>10. After(at') \subseteq Dmo!Writers(at') \union {p}
  BY <1>3 DEF Dmo!Writers
<1>11. NewFileIsIntruders'
  <2>1. ASSUME NEW d \in Demos, where'[d] \in {"cleared", "locking"}
        PROVE  After(at') \subseteq intruders'[d]
    <3>1. d # p
      BY <1>3, <2>1
    <3>2. where[d] \in {"cleared", "locking"}
      BY <1>3, <2>1, <3>1 DEF Dmo!Procs
    <3>3. p \in intruders'[d]
      BY <1>1, <3>1, <3>2 DEF Dmo!InGap
    <3>4. Dmo!Writers(at') \subseteq intruders'[d]
      BY <1>1, <1>9, <3>2 DEF DemoInv, NewFileIsIntruders
    <3>5. QED
      BY <1>10, <3>3, <3>4
  <2>2. QED
    BY <2>1 DEF NewFileIsIntruders, Dmo!Writers
<1>12. Dmo!OnlyTheGapTears'
  <2>1. \A q \in torn' : \E d \in Demos : q \in intruders'[d]
    BY <1>1 DEF DemoInv, Dmo!OnlyTheGapTears
  <2>2. ASSUME NEW q \in Dmo!Procs, Dmo!Writing(q)'
        PROVE  at' = mine'[q] /\ sides' = mine'[q]
    BY <1>1, <1>3, <2>2 DEF Dmo!Writing
  <2>3. ASSUME NEW d \in Demos, where'[d] = "seeding"
        PROVE  After(mine'[d]) \ {d} \subseteq intruders'[d]
    <3>1. d = p
      BY <1>1, <1>3, <2>3 DEF Dmo!Procs
    <3>2. where[d] = "locking" /\ rows' = rows
      BY <1>3, <2>3, <3>1
    <3>3. After(at') = Dmo!Writers(at')
      BY <3>2 DEF Dmo!Writers
    <3>4. Dmo!Writers(at') \subseteq intruders'[d]
      BY <1>1, <1>9, <3>2 DEF DemoInv, NewFileIsIntruders
    <3>5. QED
      BY <1>3, <3>1, <3>3, <3>4
  <2>4. QED
    BY <2>1, <2>2, <2>3 DEF Dmo!OnlyTheGapTears, Dmo!Writers
<1>13. QED
  BY <1>5, <1>6, <1>7, <1>11, <1>12 DEF DemoInv

\* A step that leaves the disk and the history alone and gives no one the lock.
LEMMA MoveKeepsDemo ==
  ASSUME DemoInv, NEW p \in Dmo!Procs, NEW place \in Places \ {"probing", "seeding", "live"},
         where' = [where EXCEPT ![p] = place],
         lock' = IF lock = p THEN None ELSE lock,
         sides' = sides \/ (sides' = None /\ lock' = None),
         place \in {"probed", "cleared", "locking"} => place = "probed" /\ lock' = None,
         UNCHANGED <<at, files, mine, rows, intruders, torn>>
  PROVE  DemoInv'
<1> USE EngineAssumption
<1>1. where \in [Dmo!Procs -> Places] /\ None \notin Dmo!Procs
  BY DEF DemoInv, DemoTypes
<1>2. /\ where'[p] = place /\ where' \in [Dmo!Procs -> Places]
      /\ \A q \in Dmo!Procs : q # p => where'[q] = where[q]
  BY <1>1
<1>3. DemoTypes'
  BY <1>2 DEF DemoInv, DemoTypes
<1>4. LockIsHeld'
  BY <1>1, <1>2 DEF DemoInv, LockIsHeld
<1>5. HolderIntrudes'
  <2>1. ASSUME NEW d \in Demos, NEW q \in Dmo!Procs, Dmo!InGap(d)', lock' = q
        PROVE  q \in intruders'[d]
    <3>1. lock' # None /\ lock = q
      BY <1>1, <2>1
    <3>2. d # p
      BY <1>2, <2>1, <3>1 DEF Dmo!InGap
    <3>3. Dmo!InGap(d)
      BY <1>2, <2>1, <3>2 DEF Dmo!InGap, Dmo!Procs
    <3>4. QED
      BY <3>1, <3>3 DEF DemoInv, HolderIntrudes
  <2>2. QED
    BY <2>1 DEF HolderIntrudes
<1>6. NewFileIsIntruders'
  <2>1. \A d \in Demos : where'[d] \in {"cleared", "locking"} => where[d] = where'[d]
    BY <1>2 DEF Dmo!Procs
  <2>2. QED
    BY <2>1 DEF DemoInv, NewFileIsIntruders, Dmo!Writers
<1>7. Dmo!OnlyTheGapTears'
  <2>1. \A d \in Demos : where'[d] = "seeding" => where[d] = "seeding"
    BY <1>2 DEF Dmo!Procs
  <2>2. \A q \in Dmo!Procs : Dmo!Writing(q)' => Dmo!Writing(q) /\ lock' # None
    BY <1>1, <1>2 DEF Dmo!Writing
  <2>3. QED
    BY <2>1, <2>2 DEF DemoInv, Dmo!OnlyTheGapTears, Dmo!Writers
<1>8. QED
  BY <1>3, <1>4, <1>5, <1>6, <1>7 DEF DemoInv

\* The demo deletes the database or what is beside it: who loses a file while
\* writing it came in the demo's gap.
LEMMA RemoveKeepsDemo ==
  ASSUME DemoInv, NEW d \in Demos, Dmo!RemoveDb(d) \/ Dmo!RemoveSides(d)
  PROVE  DemoInv'
<1> USE EngineAssumption
<1>1. d \in Dmo!Procs /\ Dmo!InGap(d)
  BY DEF Dmo!RemoveDb, Dmo!RemoveSides, Dmo!InGap, Dmo!Procs
<1>2. /\ UNCHANGED <<files, lock, mine, rows, intruders>>
      /\ \/ where' = [where EXCEPT ![d] = "cleared"] /\ at' = None
         \/ where' = [where EXCEPT ![d] = "locking"] /\ at' = at /\ where[d] = "cleared"
  BY DEF Dmo!RemoveDb, Dmo!RemoveSides, Dmo!Goto
<1>3. /\ torn' \subseteq torn \union {p \in Dmo!Procs : Dmo!Writing(p)}
      /\ \A p \in Dmo!Procs : Dmo!Writing(p) => p \in torn'
      /\ torn \subseteq torn'
  <2>1. \A p \in Dmo!Procs : Dmo!Writing(p) /\ p \notin torn => at = mine[p] /\ sides = mine[p]
    BY DEF DemoInv, Dmo!OnlyTheGapTears
  <2>2. \/ torn' = torn \union {p \in Dmo!Procs : Dmo!Writing(p) /\ mine[p] = at}
        \/ torn' = torn \union {p \in Dmo!Procs : Dmo!Writing(p) /\ mine[p] = sides}
    BY DEF Dmo!RemoveDb, Dmo!RemoveSides
  <2>3. QED
    BY <2>1, <2>2
<1>4. /\ where \in [Dmo!Procs -> Places] /\ at \in 1..files \union {None}
      /\ where[d] \notin {"probing", "seeding", "live"}
  BY <1>1 DEF DemoInv, DemoTypes, Dmo!InGap
<1>5. /\ where'[d] \in {"cleared", "locking"} /\ where' \in [Dmo!Procs -> Places]
      /\ \A q \in Dmo!Procs : q # d => where'[q] = where[q]
  BY <1>1, <1>2, <1>4 DEF Places
<1>6. DemoTypes'
  BY <1>2, <1>3, <1>4, <1>5 DEF DemoInv, DemoTypes
<1>7. LockIsHeld'
  BY <1>1, <1>2, <1>4, <1>5 DEF DemoInv, LockIsHeld
<1>8. HolderIntrudes'
  <2>1. \A e \in Demos : Dmo!InGap(e)' => Dmo!InGap(e)
    BY <1>1, <1>5 DEF Dmo!InGap, Dmo!Procs
  <2>2. QED
    BY <1>2, <2>1 DEF DemoInv, HolderIntrudes
<1>9. NewFileIsIntruders'
  <2>1. \A e \in Demos : where'[e] \in {"cleared", "locking"} /\ at' # None =>
          where[e] \in {"cleared", "locking"} /\ at' = at
    BY <1>2, <1>5 DEF Dmo!Procs
  <2>2. QED
    BY <1>2, <2>1 DEF DemoInv, NewFileIsIntruders, Dmo!Writers
<1>10. \A q \in Dmo!Procs : Dmo!Writing(q)' => Dmo!Writing(q)
  BY <1>2, <1>5 DEF Dmo!Writing
<1>11. \A p \in Dmo!Procs : Dmo!Writing(p) => p \in intruders[d]
  BY <1>1 DEF Dmo!Writing, DemoInv, HolderIntrudes
<1>12. Dmo!OnlyTheGapTears'
  <2>1. \A p \in torn' : \E e \in Demos : p \in intruders'[e]
    BY <1>2, <1>3, <1>11 DEF DemoInv, Dmo!OnlyTheGapTears
  <2>2. \A p \in Dmo!Procs : Dmo!Writing(p)' => p \in torn'
    BY <1>3, <1>10
  <2>3. \A e \in Demos : where'[e] = "seeding" => where[e] = "seeding"
    BY <1>5 DEF Dmo!Procs
  <2>4. QED
    BY <1>2, <2>1, <2>2, <2>3 DEF DemoInv, Dmo!OnlyTheGapTears, Dmo!Writers
<1>13. QED
  BY <1>6, <1>7, <1>8, <1>9, <1>12 DEF DemoInv

\* A demo writes what it simulates into the file it has open.
LEMMA SeedKeepsDemo ==
  ASSUME DemoInv, NEW d \in Demos, Dmo!Seed(d)
  PROVE  DemoInv'
<1> USE EngineAssumption
<1>1. /\ where[d] = "seeding" /\ rows' = rows \union {<<mine[d], d>>}
      /\ UNCHANGED <<at, sides, files, lock, where, mine, intruders, torn>>
  BY DEF Dmo!Seed, Dmo!disk
<1>2. d \in Dmo!Procs /\ lock = d /\ Dmo!Writing(d)
  BY <1>1 DEF Dmo!Procs, DemoInv, LockIsHeld, Dmo!Writing
<1>3. mine[d] \in 1..files
  <2>1. d \in torn \/ at = mine[d]
    BY <1>2 DEF DemoInv, Dmo!OnlyTheGapTears
  <2>2. QED
    BY <1>2 DEF DemoInv, DemoTypes, LockIsHeld
<1>4. rows' \subseteq (1..files') \X Dmo!Procs
  BY <1>1, <1>2, <1>3 DEF DemoInv, DemoTypes
<1>5. DemoTypes' /\ LockIsHeld' /\ HolderIntrudes'
  BY <1>1, <1>4 DEF DemoInv, DemoTypes, LockIsHeld, HolderIntrudes, Dmo!InGap
<1>6. ASSUME NEW e \in Demos, Dmo!InGap(e)
      PROVE  d \in intruders[e]
  BY <1>2, <1>6 DEF DemoInv, HolderIntrudes
<1>7. \A f : {q \in Dmo!Procs : <<f, q>> \in rows'} \subseteq Dmo!Writers(f) \union {d}
  BY <1>1 DEF Dmo!Writers
<1>8. NewFileIsIntruders'
  <2>1. ASSUME NEW e \in Demos, where[e] \in {"cleared", "locking"}, at # None
        PROVE  {q \in Dmo!Procs : <<at, q>> \in rows'} \subseteq intruders[e]
    <3>1. d \in intruders[e]
      BY <1>6, <2>1 DEF Dmo!InGap
    <3>2. Dmo!Writers(at) \subseteq intruders[e]
      BY <2>1 DEF DemoInv, NewFileIsIntruders
    <3>3. QED
      BY <1>7, <3>1, <3>2
  <2>2. QED
    BY <1>1, <2>1 DEF NewFileIsIntruders, Dmo!Writers
<1>9. Dmo!OnlyTheGapTears'
  <2>1. ASSUME NEW e \in Demos, where[e] = "seeding"
        PROVE  {q \in Dmo!Procs : <<mine[e], q>> \in rows'} \ {e} \subseteq intruders[e]
    <3>1. e = d
      BY <1>2, <2>1 DEF DemoInv, LockIsHeld, Dmo!Procs
    <3>2. Dmo!Writers(mine[e]) \ {e} \subseteq intruders[e]
      BY <2>1 DEF DemoInv, Dmo!OnlyTheGapTears
    <3>3. QED
      BY <1>7, <3>1, <3>2
  <2>2. \A p \in Dmo!Procs : Dmo!Writing(p)' <=> Dmo!Writing(p)
    BY <1>1 DEF Dmo!Writing
  <2>3. QED
    BY <1>1, <2>1, <2>2 DEF DemoInv, Dmo!OnlyTheGapTears, Dmo!Writers
<1>10. QED
  BY <1>5, <1>8, <1>9 DEF DemoInv

\* Every action of the demo, by the lemma of its own.
LEMMA DemoStep == DemoInv /\ [Dmo!Next]_dmoVars => DemoInv'
<1> SUFFICES ASSUME DemoInv, [Dmo!Next]_dmoVars
             PROVE  DemoInv'
  OBVIOUS
<1> USE EngineAssumption
<1>1. CASE UNCHANGED dmoVars
  BY <1>1 DEF dmoVars, DemoInv, DemoTypes, LockIsHeld, HolderIntrudes, NewFileIsIntruders,
              Dmo!OnlyTheGapTears, Dmo!InGap, Dmo!Writers, Dmo!Writing
<1>2. Demos \subseteq Dmo!Procs
  BY DEF Dmo!Procs
<1>3. ASSUME NEW d \in Demos, Dmo!Probe(d) \/ Dmo!SeedOpen(d)
      PROVE  DemoInv'
  <2>1. CASE Dmo!Locked(d)
    <3>1. /\ where[d] \in {"start", "locking"} /\ where' = [where EXCEPT ![d] = "refused"]
          /\ UNCHANGED <<at, sides, files, lock, mine, rows, intruders, torn>>
      BY <1>3, <2>1 DEF Dmo!Probe, Dmo!SeedOpen, Dmo!Locked, Dmo!Goto, Dmo!disk
    <3>2. lock # d
      BY <1>2, <3>1 DEF DemoInv, LockIsHeld
    <3>3. "refused" \in Places \ {"probing", "seeding", "live"}
      BY DEF Places
    <3>4. QED
      BY <1>2, <3>1, <3>2, <3>3, MoveKeepsDemo
  <2>2. CASE Dmo!Probe(d) /\ Dmo!Opened(d, "probing")
    <3>1. rows' = rows /\ torn' = torn
      BY <2>2 DEF Dmo!Probe
    <3>2. QED
      BY <1>2, <2>2, <3>1, OpenedKeepsDemo
  <2>3. CASE Dmo!SeedOpen(d) /\ Dmo!Opened(d, "seeding")
    <3>1. rows' = rows /\ torn' = torn /\ where[d] = "locking"
      BY <2>3 DEF Dmo!SeedOpen
    <3>2. QED
      BY <1>2, <2>3, <3>1, OpenedKeepsDemo
  <2>4. QED
    BY <1>3, <2>1, <2>2, <2>3 DEF Dmo!Probe, Dmo!SeedOpen
<1>4. ASSUME NEW p \in Dmo!Procs, NEW place \in {"probed", "done", "seeded"},
             Dmo!Closed(p, place), where[p] \in {"probing", "seeding", "live"},
             UNCHANGED <<rows, torn>>
      PROVE  DemoInv'
  <2>1. lock = p /\ lock' = None
    BY <1>4 DEF DemoInv, LockIsHeld, Dmo!Closed
  <2>2. /\ where' = [where EXCEPT ![p] = place] /\ sides' \in {sides, None}
        /\ UNCHANGED <<at, files, mine, intruders>>
    BY <1>4 DEF Dmo!Closed, Dmo!Goto
  <2>3. place \in Places \ {"probing", "seeding", "live"}
    BY DEF Places
  <2>4. QED
    BY <1>4, <2>1, <2>2, <2>3, MoveKeepsDemo
<1>5. ASSUME NEW d \in Demos, Dmo!DropProbe(d) \/ Dmo!Seeded(d)
      PROVE  DemoInv'
  BY <1>2, <1>4, <1>5 DEF Dmo!DropProbe, Dmo!Seeded
<1>6. ASSUME NEW p \in Dmo!Procs, Dmo!End(p)
      PROVE  DemoInv'
  BY <1>4, <1>6 DEF Dmo!End
<1>7. ASSUME NEW p \in Dmo!Procs, Dmo!GoLive(p)
      PROVE  DemoInv'
  <2>1. CASE Dmo!Opened(p, "live") /\ rows' = rows \union {<<mine'[p], p>>}
    <3>1. torn' = torn
      BY <1>7 DEF Dmo!GoLive
    <3>2. QED
      BY <2>1, <3>1, OpenedKeepsDemo
  <2>2. CASE /\ lock # None /\ Dmo!Goto(p, "unrecorded")
             /\ UNCHANGED <<Dmo!disk, lock, mine, intruders, rows>>
    <3>1. /\ where[p] \in {"start", "seeded"} /\ where' = [where EXCEPT ![p] = "unrecorded"]
          /\ UNCHANGED <<at, sides, files, lock, mine, rows, intruders, torn>>
      BY <1>7, <2>2 DEF Dmo!GoLive, Dmo!Goto, Dmo!disk
    <3>2. lock # p
      BY <3>1 DEF DemoInv, LockIsHeld
    <3>3. "unrecorded" \in Places \ {"probing", "seeding", "live"}
      BY DEF Places
    <3>4. QED
      BY <3>1, <3>2, <3>3, MoveKeepsDemo
  <2>3. QED
    BY <1>7, <2>1, <2>2 DEF Dmo!GoLive
<1>8. ASSUME NEW p \in Dmo!Procs, Dmo!Kill(p)
      PROVE  DemoInv'
  <2>1. /\ where' = [where EXCEPT ![p] = "killed"]
        /\ lock' = (IF lock = p THEN None ELSE lock)
        /\ UNCHANGED <<at, sides, files, mine, rows, intruders, torn>>
    BY <1>8 DEF Dmo!Kill, Dmo!Goto, Dmo!disk, Dmo!history
  <2>2. "killed" \in Places \ {"probing", "seeding", "live"}
    BY DEF Places
  <2>3. QED
    BY <2>1, <2>2, MoveKeepsDemo
<1>9. QED
  BY <1>1, <1>3, <1>5, <1>6, <1>7, <1>8, RemoveKeepsDemo, SeedKeepsDemo DEF Dmo!Next

\* A file is only torn by one who came in the gap of a demo.
LEMMA DemoIsSafe == Spec2 => []Dmo!OnlyTheGapTears
<1>1. DemoInv => Dmo!OnlyTheGapTears
  BY DEF DemoInv
<1>2. QED
  BY <1>1, DemoPart, DemoStart, DemoStep, PTL

-----------------------------------------------------------------------------
(* Mock: the simulation's script *)

\* The simulation moves by its own step alone.
LEMMA MockPart == Spec2 => Mck!Init /\ [][Mck!Step]_mckVars
<1>1. Init2 => Mck!Init
  BY DEF Init2
<1>2. [Next2]_<<setting, vars, outVars, regVars, prbVars, thrVars,
               qryVars, figVars, socVars, mckVars, rowVars, dmoVars>>
        => [Mck!Step]_mckVars
  BY DEF Next2
<1>3. QED
  BY <1>1, <1>2, PTL DEF Spec2

\* The clock on a dial of G: quotient and rest of a tick.
LEMMA Dial ==
  ASSUME NEW n \in Nat, NEW G \in Nat \ {0}
  PROVE  /\ n % G \in 0..(G - 1) /\ n \div G \in Nat
         /\ n = (n \div G) * G + (n % G)
  OBVIOUS

\* Multiples keep their order.
LEMMA Scaled ==
  ASSUME NEW a \in Nat, NEW b \in Nat, NEW G \in Nat \ {0}, a <= b
  PROVE  a * G <= b * G
<1>1. (b - a) \in Nat /\ (b - a) * G >= 0
  OBVIOUS
<1>2. b * G = a * G + (b - a) * G
  OBVIOUS
<1>3. a * G \in Nat /\ (b - a) * G \in Nat
  BY <1>1
<1>4. QED
  BY <1>1, <1>2, <1>3

\* A number is one multiple and rest.
LEMMA RestIsUnique ==
  ASSUME NEW n \in Nat, NEW G \in Nat \ {0}, NEW q \in Nat, NEW r \in 0..(G - 1),
         n = q * G + r
  PROVE  n % G = r /\ n \div G = q
  OBVIOUS

\* A rest counted on: it grows by one or starts again.
LEMMA DialTurns ==
  ASSUME NEW n \in Nat, NEW G \in Nat \ {0}
  PROVE  (n + 1) % G = IF n % G = G - 1 THEN 0 ELSE (n % G) + 1
<1> DEFINE q == n \div G
           r == n % G
<1>1. q \in Nat /\ r \in 0..(G - 1) /\ n = q * G + r
  BY Dial
<1> HIDE DEF q, r
<1>2. CASE r = G - 1
  <2>1. n + 1 = (q + 1) * G + 0 /\ q + 1 \in Nat /\ 0 \in 0..(G - 1)
    BY <1>1, <1>2
  <2>2. (n + 1) % G = 0
    BY <2>1, RestIsUnique
  <2>3. QED
    BY <1>2, <2>2 DEF r
<1>3. CASE r # G - 1
  <2>0. q * G \in Nat
    BY <1>1
  <2>1. n + 1 \in Nat /\ n + 1 = q * G + (r + 1) /\ r + 1 \in 0..(G - 1)
    BY <1>1, <1>3, <2>0
  <2>2. (n + 1) % G = r + 1
    BY <1>1, <2>1, RestIsUnique
  <2>3. QED
    BY <1>3, <2>2 DEF r
<1>4. QED
  BY <1>2, <1>3

Rest == tick % GapEvery

MockTypes ==
  /\ tick \in Nat /\ idle_until \in Nat /\ idled \in Nat
  /\ stood \in Nat /\ ollama_toggle_at \in Nat
  /\ ollama_present \in BOOLEAN /\ throttling \in BOOLEAN
  /\ temp \in {"cool", "warm", "hot"}

\* A gap began with the present round and ends as the script has it; without one
\* the round is past the shortest gap, or is the first.
GapKept ==
  /\ idle_until # 0 =>
       /\ idle_until > tick
       /\ idle_until >= tick - Rest + GapMin
       /\ idle_until < tick - Rest + GapMin + GapSpread
       /\ idled = Rest + 1
  /\ idle_until = 0 => idled = 0 /\ (tick >= GapEvery => Rest >= GapMin)

\* How long ollama will have stayed, or stayed away, when it next turns.
Stay == IF ollama_present THEN Hold ELSE Away

StayKept ==
  /\ tick < FirstToggle => ~ollama_present /\ ollama_toggle_at = FirstToggle /\ stood = tick
  /\ tick >= FirstToggle =>
       /\ stood >= 1
       /\ ollama_toggle_at + stood <= tick + Stay + TogglesIn
       /\ stood = 1 \/ tick < ollama_toggle_at

\* What is shown is what the simulation is at.
ShownIsSo ==
  tick > 0 => /\ shown.train.util = "idle" <=> idle_until # 0
              /\ shown.train.thermal = throttling
              /\ temp = "hot" => throttling
              /\ temp = "cool" => ~throttling

MockInv == MockTypes /\ GapKept /\ StayKept /\ ShownIsSo

\* At first no gap has begun and the second process is as the script says.
LEMMA MockStart == Mck!Init => MockInv
<1> SUFFICES ASSUME Mck!Init
             PROVE  MockInv
  OBVIOUS
<1>1. /\ tick = 0 /\ idle_until = 0 /\ temp = "cool" /\ throttling = FALSE
      /\ ollama_present = FALSE /\ ollama_toggle_at = FirstToggle
      /\ idled = 0 /\ stood = 0
  BY DEF Mck!Init
<1>2. GapEvery \in Nat \ {0} /\ FirstToggle \in Nat \ {0}
  BY EngineAssumption
<1>3. MockTypes
  BY <1>1, <1>2 DEF MockTypes
<1>4. GapKept /\ StayKept /\ ShownIsSo
  BY <1>1, <1>2 DEF GapKept, StayKept, ShownIsSo
<1>5. QED
  BY <1>3, <1>4 DEF MockInv

\* A tick keeps what the invariant says of the training process's gaps.
LEMMA GapGoesOn ==
  ASSUME MockInv, Mck!Step
  PROVE  GapKept' /\ idle_until' \in Nat /\ idled' \in Nat
<1> DEFINE t == tick + 1
           r == tick % GapEvery
           u == idle_until
           v == idle_until'
<1>1. /\ GapEvery \in Nat \ {0} /\ GapMin \in Nat /\ GapSpread \in Nat \ {0}
      /\ GapMin + GapSpread <= GapEvery
  BY EngineAssumption
<1>2. tick \in Nat /\ u \in Nat /\ idled \in Nat
  BY DEF MockInv, MockTypes
<1>3. r \in 0..(GapEvery - 1) /\ r <= tick
  <2>1. tick = (tick \div GapEvery) * GapEvery + r /\ tick \div GapEvery \in Nat
        /\ r \in 0..(GapEvery - 1)
    BY <1>1, <1>2, Dial
  <2>2. (tick \div GapEvery) * GapEvery \in Nat
    BY <1>1, <2>1
  <2> HIDE DEF r
  <2>3. QED
    BY <1>1, <1>2, <2>1, <2>2
<1>4. t % GapEvery = IF r = GapEvery - 1 THEN 0 ELSE r + 1
  BY <1>1, <1>2, DialTurns
<1>5. tick' = t /\ idled' = (IF v > t THEN idled + 1 ELSE 0)
  BY DEF Mck!Step
<1>6. (u = 0 /\ t % GapEvery = 0) =>
        \E w \in Nat : /\ w >= t + GapMin /\ w < t + GapMin + GapSpread
                       /\ v = IF w > t THEN w ELSE 0
  <2>1. SUFFICES ASSUME u = 0, t % GapEvery = 0
                 PROVE  \E w \in Nat : /\ w >= t + GapMin /\ w < t + GapMin + GapSpread
                                       /\ v = IF w > t THEN w ELSE 0
    OBVIOUS
  <2>2. v \in Mck!IdleUntil(t)
    BY DEF Mck!Step, Mck!TrainStep
  <2>3. v \in {IF w > t THEN w ELSE 0 : w \in {t + GapMin + x : x \in 0..(GapSpread - 1)}}
    BY <2>1, <2>2 DEF Mck!IdleUntil
  <2>4. PICK x \in 0..(GapSpread - 1) : v = IF t + GapMin + x > t THEN t + GapMin + x ELSE 0
    BY <2>3
  <2>5. t + GapMin + x \in Nat /\ t + GapMin + x >= t + GapMin
        /\ t + GapMin + x < t + GapMin + GapSpread
    BY <1>1, <1>2
  <2>6. QED
    BY <2>4, <2>5
<1>7. ~ (u = 0 /\ t % GapEvery = 0) => v = IF u > t THEN u ELSE 0
  BY DEF Mck!Step, Mck!TrainStep, Mck!IdleUntil
<1>8. Rest' = t % GapEvery
  BY <1>5 DEF Rest
<1>9. /\ u # 0 => u > tick /\ u >= tick - r + GapMin /\ u < tick - r + GapMin + GapSpread
                  /\ idled = r + 1
      /\ u = 0 => idled = 0 /\ (tick >= GapEvery => r >= GapMin)
  BY DEF MockInv, GapKept, Rest
<1>10. CASE u = 0 /\ t % GapEvery = 0
  <2>1. PICK w \in Nat : /\ w >= t + GapMin /\ w < t + GapMin + GapSpread
                         /\ v = IF w > t THEN w ELSE 0
    BY <1>6, <1>10
  <2>2. Rest' = 0 /\ idled = 0
    BY <1>8, <1>9, <1>10
  <2>3. t \in Nat /\ t > 0
    BY <1>2
  <2>4. CASE w > t
    <3>1. v = w /\ idled' = 1
      BY <1>5, <2>1, <2>2, <2>4
    <3>2. w # 0
      BY <2>3, <2>4
    <3> HIDE DEF t, u, v, r
    <3>3. v > t /\ v >= t - 0 + GapMin /\ v < t - 0 + GapMin + GapSpread
      BY <1>1, <2>1, <2>3, <2>4, <3>1
    <3>4. QED
      BY <1>5, <2>1, <2>2, <3>1, <3>2, <3>3 DEF GapKept, v
  <2>5. CASE ~ (w > t)
    <3>1. v = 0 /\ idled' = 0
      BY <1>5, <2>1, <2>3, <2>5
    <3>2. 0 >= GapMin
      BY <1>1, <2>1, <2>3, <2>5
    <3>3. QED
      BY <2>2, <3>1, <3>2 DEF GapKept
  <2>6. QED
    BY <2>4, <2>5
<1>11. CASE u # 0
  <2>1. t % GapEvery = r + 1
    <3>1. r # GapEvery - 1
      <4> HIDE DEF r, u
      <4>1. QED
        BY <1>1, <1>2, <1>3, <1>9, <1>11
    <3>2. QED
      BY <1>4, <3>1
  <2>2. v = (IF u > t THEN u ELSE 0) /\ Rest' = r + 1
    BY <1>7, <1>8, <1>11, <2>1
  <2>3. CASE u > t
    <3>1. v = u /\ idled' = idled + 1
      BY <1>5, <2>2, <2>3
    <3> HIDE DEF r, u, v
    <3>2. v > t /\ v >= t - (r + 1) + GapMin /\ v < t - (r + 1) + GapMin + GapSpread
          /\ idled' = (r + 1) + 1 /\ v # 0
      BY <1>1, <1>2, <1>3, <1>9, <1>11, <2>3, <3>1
    <3>3. QED
      BY <1>2, <1>5, <2>2, <3>1, <3>2 DEF GapKept, v
  <2>4. CASE ~ (u > t)
    <3>1. v = 0 /\ idled' = 0
      BY <1>2, <1>5, <2>2, <2>4
    <3> HIDE DEF r, u, v
    <3>2. r + 1 >= GapMin
      BY <1>1, <1>2, <1>3, <1>9, <1>11, <2>4
    <3>3. QED
      BY <2>2, <3>1, <3>2 DEF GapKept, v
  <2>5. QED
    BY <2>3, <2>4
<1>12. CASE u = 0 /\ t % GapEvery # 0
  <2>1. v = 0 /\ idled' = 0
    BY <1>2, <1>5, <1>7, <1>12
  <2>2. t % GapEvery = r + 1
    BY <1>4, <1>12
  <2>3. tick < GapEvery => ~ (t >= GapEvery)
    <3>1. SUFFICES ASSUME tick < GapEvery, t >= GapEvery
                   PROVE  FALSE
      OBVIOUS
    <3>2. t = 1 * GapEvery + 0 /\ t \in Nat /\ 0 \in 0..(GapEvery - 1)
      BY <1>1, <1>2, <3>1
    <3>3. t % GapEvery = 0
      BY <1>1, <3>2, RestIsUnique
    <3>4. QED
      BY <1>12, <3>3
  <2> HIDE DEF r
  <2>4. t >= GapEvery => r + 1 >= GapMin
    BY <1>1, <1>2, <1>3, <1>9, <1>12, <2>3
  <2>5. QED
    BY <1>5, <1>8, <2>1, <2>2, <2>4 DEF GapKept
<1>13. QED
  BY <1>10, <1>11, <1>12

\* A tick keeps what the invariant says of the second process.
LEMMA StayGoesOn ==
  ASSUME MockInv, Mck!Step
  PROVE  /\ StayKept' /\ stood' \in Nat /\ ollama_toggle_at' \in Nat
         /\ ollama_present' \in BOOLEAN
<1> DEFINE t == tick + 1
           at1 == ollama_toggle_at
<1>1. /\ FirstToggle \in Nat \ {0} /\ TogglesIn \in Nat \ {0}
      /\ Hold \in Nat /\ Away \in Nat
  BY EngineAssumption
<1>2. tick \in Nat /\ stood \in Nat /\ at1 \in Nat /\ ollama_present \in BOOLEAN
  BY DEF MockInv, MockTypes
<1>3. /\ tick' = t
      /\ stood' = (IF t >= at1 THEN 1 ELSE stood + 1)
      /\ ollama_present' = (ollama_present # (t >= at1))
      /\ ollama_toggle_at' \in Mck!NextToggles(t)
  BY DEF Mck!Step, Mck!DesktopStep, Mck!Toggles
<1>4. /\ tick < FirstToggle => ~ollama_present /\ at1 = FirstToggle /\ stood = tick
      /\ tick >= FirstToggle => /\ stood >= 1
                                /\ at1 + stood <= tick + Stay + TogglesIn
                                /\ stood = 1 \/ tick < at1
  BY DEF MockInv, StayKept
<1>5. Stay \in Nat /\ Stay' \in Nat
  BY <1>1 DEF Stay
<1>6. CASE t >= at1
  <2>1. stood' = 1 /\ ollama_present' = ~ollama_present
    BY <1>2, <1>3, <1>6
  <2>2. PICK x \in 0..(TogglesIn - 1) :
          ollama_toggle_at' = t + (IF ~ollama_present THEN Hold ELSE Away) + x
    BY <1>3, <1>6 DEF Mck!NextToggles, Mck!Toggles
  <2>3. ollama_toggle_at' = t + Stay' + x
    BY <2>1, <2>2 DEF Stay
  <2>4. tick >= FirstToggle \/ t = FirstToggle
    BY <1>1, <1>2, <1>4, <1>6
  <2>5. ~ (t < FirstToggle) /\ t >= FirstToggle
    BY <1>1, <1>2, <2>4
  <2>31. PICK s \in Nat : s = Stay'
    BY <1>5
  <2>32. x \in Nat /\ x + 1 <= TogglesIn
    BY <1>1, <2>2
  <2>6. t + s + x + 1 <= t + s + TogglesIn
    BY <1>1, <1>2, <2>32
  <2>61. ollama_toggle_at' = t + s + x
    BY <2>3, <2>31
  <2>62. t + s + x \in Nat
    BY <1>2, <2>32
  <2>7. ollama_toggle_at' \in Nat
    BY <2>61, <2>62
  <2> HIDE DEF at1
  <2>71. /\ ollama_toggle_at' + stood' <= tick' + Stay' + TogglesIn
         /\ stood' >= 1 /\ stood' \in Nat
    BY <1>3, <2>1, <2>3, <2>31, <2>6
  <2>8. QED
    BY <1>2, <1>3, <2>1, <2>5, <2>7, <2>71 DEF StayKept
<1>7. CASE ~ (t >= at1)
  <2>1. /\ stood' = stood + 1 /\ ollama_present' = ollama_present
        /\ ollama_toggle_at' = at1
    BY <1>2, <1>3, <1>7 DEF Mck!NextToggles, Mck!Toggles
  <2>2. Stay' = Stay
    BY <2>1 DEF Stay
  <2> HIDE DEF at1
  <2>3. CASE tick < FirstToggle
    <3>1. at1 = FirstToggle /\ t < FirstToggle /\ stood' = t /\ ~ollama_present'
      BY <1>1, <1>2, <1>4, <1>7, <2>1, <2>3
    <3>2. QED
      BY <1>1, <1>2, <1>3, <2>1, <3>1 DEF StayKept
  <2>4. CASE tick >= FirstToggle
    <3>1. /\ stood' >= 1 /\ t < at1 /\ at1 + stood' <= t + Stay + TogglesIn
          /\ ~ (t < FirstToggle) /\ stood' \in Nat
      BY <1>1, <1>2, <1>4, <1>5, <1>7, <2>1, <2>4
    <3>2. QED
      BY <1>2, <1>3, <2>1, <2>2, <3>1 DEF StayKept
  <2>5. QED
    BY <1>1, <1>2, <2>3, <2>4
<1>8. QED
  BY <1>6, <1>7

\* A tick keeps the simulation's invariant.
LEMMA MockStep == MockInv /\ [Mck!Step]_mckVars => MockInv'
<1> SUFFICES ASSUME MockInv, [Mck!Step]_mckVars
             PROVE  MockInv'
  OBVIOUS
<1>1. CASE UNCHANGED mckVars
  BY <1>1 DEF mckVars, MockInv, MockTypes, GapKept, StayKept, ShownIsSo, Rest, Stay
<1>2. CASE Mck!Step
  <2>1. /\ GapKept' /\ idle_until' \in Nat /\ idled' \in Nat
        /\ StayKept' /\ stood' \in Nat /\ ollama_toggle_at' \in Nat
        /\ ollama_present' \in BOOLEAN
    BY <1>2, GapGoesOn, StayGoesOn
  <2>2. /\ tick \in Nat /\ throttling \in BOOLEAN /\ temp \in {"cool", "warm", "hot"}
        /\ idle_until \in Nat
    BY DEF MockInv, MockTypes
  <2>3. tick' = tick + 1 /\ tick' \in Nat
    BY <1>2, <2>2 DEF Mck!Step
  <2>4. temp' \in {"cool", "warm", "hot"}
    BY <1>2, <2>2 DEF Mck!Step, Mck!TrainStep, Mck!Near
  <2>5. /\ throttling' \in BOOLEAN
        /\ temp' = "hot" => throttling'
        /\ temp' = "cool" => ~throttling'
    BY <1>2, <2>2, <2>4 DEF Mck!Step, Mck!TrainStep, Mck!Throttled
  <2>6. shown'.train = Mck!TrainSample(idle_until' > tick + 1, throttling')
    BY <1>2 DEF Mck!Step
  <2>7. /\ shown'.train.util = "idle" <=> idle_until' > tick + 1
        /\ shown'.train.thermal = throttling'
    BY <2>6 DEF Mck!TrainSample
  <2>8. idle_until' > tick + 1 <=> idle_until' # 0
    BY <2>1, <2>2, <2>3 DEF GapKept
  <2>9. ShownIsSo'
    BY <2>5, <2>7, <2>8 DEF ShownIsSo
  <2>10. MockTypes'
    BY <2>1, <2>3, <2>4, <2>5 DEF MockTypes
  <2>11. QED
    BY <2>1, <2>9, <2>10 DEF MockInv
<1>3. QED
  BY <1>1, <1>2

\* The invariant is stronger than the property.
LEMMA ScriptFollows == MockInv => Mck!ScriptRepeats
<1> SUFFICES ASSUME MockInv
             PROVE  Mck!ScriptRepeats
  OBVIOUS
<1>1. /\ GapEvery \in Nat \ {0} /\ GapMin \in Nat /\ GapSpread \in Nat \ {0}
      /\ FirstToggle \in Nat \ {0} /\ TogglesIn \in Nat \ {0}
      /\ Hold \in Nat /\ Away \in Nat
  BY EngineAssumption
<1>2. /\ tick \in Nat /\ idle_until \in Nat /\ idled \in Nat /\ stood \in Nat
      /\ ollama_toggle_at \in Nat /\ ollama_present \in BOOLEAN
  BY DEF MockInv, MockTypes
<1>3. /\ tick \div GapEvery \in Nat /\ Rest \in 0..(GapEvery - 1)
      /\ tick = (tick \div GapEvery) * GapEvery + Rest
  BY <1>1, <1>2, Dial DEF Rest
<1>4. ASSUME NEW g \in 1..(tick \div GapEvery), tick - g * GapEvery < GapMin
      PROVE  shown.train.util = "idle"
  <2>1. /\ g \in Nat /\ g <= tick \div GapEvery /\ 1 \in Nat /\ 1 <= g
        /\ g * GapEvery \in Nat /\ (tick \div GapEvery) * GapEvery \in Nat
    BY <1>1, <1>3
  <2>2. g * GapEvery <= (tick \div GapEvery) * GapEvery /\ 1 * GapEvery <= g * GapEvery
    BY <1>1, <1>3, <2>1, Scaled
  <2>3. Rest < GapMin /\ tick >= GapEvery
    BY <1>1, <1>2, <1>3, <1>4, <2>1, <2>2
  <2>4. idle_until # 0
    BY <1>1, <1>3, <2>3 DEF MockInv, GapKept
  <2>5. tick > 0
    BY <1>1, <1>2, <2>3
  <2>6. QED
    BY <2>4, <2>5 DEF MockInv, ShownIsSo
<1>5. idled < GapMin + GapSpread
  BY <1>1, <1>2, <1>3 DEF MockInv, GapKept
<1>6. tick > 0 /\ shown.train.util = "idle" => (tick % GapEvery) + 1 = idled
  BY DEF MockInv, GapKept, ShownIsSo, Rest
<1>7. stood <= (IF ollama_present THEN Hold
                ELSE IF tick < FirstToggle THEN FirstToggle ELSE Away) + TogglesIn
  <2>1. CASE tick < FirstToggle
    BY <1>1, <1>2, <2>1 DEF MockInv, StayKept
  <2>2. CASE tick >= FirstToggle
    <3>1. /\ stood >= 1 /\ ollama_toggle_at + stood <= tick + Stay + TogglesIn
          /\ stood = 1 \/ tick < ollama_toggle_at
      BY <2>2 DEF MockInv, StayKept
    <3>2. Stay \in Nat
      BY <1>1 DEF Stay
    <3>3. stood <= Stay + TogglesIn
      BY <1>1, <1>2, <3>1, <3>2
    <3>4. ~ (tick < FirstToggle)
      BY <1>1, <1>2, <2>2
    <3>5. QED
      BY <3>3, <3>4 DEF Stay
  <2>3. QED
    BY <1>1, <1>2, <2>1, <2>2
<1>8. tick > 0 => (temp = "hot" => shown.train.thermal) /\ (temp = "cool" => ~shown.train.thermal)
  BY DEF MockInv, ShownIsSo
<1>9. QED
  BY <1>4, <1>5, <1>6, <1>7, <1>8 DEF Mck!ScriptRepeats

\* The simulated incident comes round as its script has it, for every spacing
\* and spread of the script (mock.rs); and on the demo's file only the gap
\* between a demo's probe and its lock can take a recording from under its
\* writer (main.rs, run_demo), with any number of demos and sessions, killed
\* anywhere.
THEOREM DemoAlwaysHolds == Spec2 => []DemoHolds
<1>1. DemoInv => Dmo!OnlyTheGapTears
  BY DEF DemoInv
<1>2. DemoInv /\ MockInv => DemoHolds
  BY <1>1, ScriptFollows DEF DemoHolds
<1>3. QED
  BY <1>2, DemoPart, DemoStart, DemoStep, MockPart, MockStart, MockStep, PTL

-----------------------------------------------------------------------------
(* Stream: a session told once *)

\* The session moves by its own actions alone.
LEMMA StreamPart == Spec2 => Out!Init /\ [][Out!Next]_outVars
<1>1. Init2 => Out!Init
  BY DEF Init2
<1>2. [Next2]_<<setting, vars, outVars, regVars, prbVars, thrVars,
               qryVars, figVars, socVars, mckVars, rowVars, dmoVars>>
        => [Out!Next]_outVars
  BY DEF Next2
<1>3. QED
  BY <1>1, <1>2, PTL DEF Spec2

\* The limits of the event sink are counts.
LEMMA SinkConstants == SINK_MAX_PER_MIN \in Nat /\ SinkMinute \in Nat /\ MaxFacts \in Nat
BY EngineAssumption

\* A set of indices has a least one.
LEMMA MinIsLeast ==
  ASSUME NEW S \in SUBSET Nat, S # {}
  PROVE  Out!Min(S) \in S /\ \A x \in S : Out!Min(S) <= x
<1>1. IsWellFoundedOn(OpToRel(<, Nat), Nat)
  BY NatLessThanWellFounded
<1>2. PICK i \in S : \A j \in S : ~ <<j, i>> \in OpToRel(<, Nat)
  BY <1>1, WFMin
<1>3. \A x, y \in Nat : y < x => <<y, x>> \in OpToRel(<, Nat)
  BY DEF OpToRel
<1>4. ASSUME NEW x \in S
      PROVE  i <= x
  <2>1. x \in Nat /\ i \in Nat
    OBVIOUS
  <2>2. ~ (x < i)
    BY <1>2, <1>3, <2>1
  <2>3. QED
    BY <2>1, <2>2
<1>5. QED
  BY <1>4 DEF Out!Min

\* w remembers the last spawns, and all of the last minute.
Remembers(w) ==
  /\ w \in Seq(Int) /\ Len(w) <= Len(spawns) /\ Len(w) <= SINK_MAX_PER_MIN
  /\ \A k \in 1..Len(w) : w[k] = spawns[Len(spawns) - Len(w) + k]
  /\ \A i \in 1..(Len(spawns) - Len(w)) : now - spawns[i] >= SinkMinute

SinkInv ==
  /\ now \in Int /\ spawns \in Seq(Int)
  /\ Remembers(window)
  /\ Out!HooksWithinCap

\* Nothing is spawned at first.
LEMMA SinkStart == Out!Init => SinkInv
<1> SUFFICES ASSUME Out!Init PROVE SinkInv
  OBVIOUS
<1>1. now = SinkMinute /\ window = <<>> /\ spawns = <<>>
  BY DEF Out!Init
<1>2. now \in Int /\ spawns \in Seq(Int) /\ Len(spawns) = 0
  BY <1>1, SinkConstants
<1>3. Remembers(window)
  BY <1>1, SinkConstants DEF Remembers
<1>4. Out!HooksWithinCap
  BY <1>1 DEF Out!HooksWithinCap
<1>5. QED
  BY <1>2, <1>3, <1>4 DEF SinkInv

\* What retain leaves is a tail of the window, and what it drops is too old.
LEMMA RecentIsTail ==
  ASSUME window \in Seq(Int), now \in Int
  PROVE  \E m \in 1..(Len(window) + 1) :
           /\ Out!Recent(window) \in Seq(Int)
           /\ Len(Out!Recent(window)) = Len(window) + 1 - m
           /\ \A k \in 1..Len(Out!Recent(window)) :
                Out!Recent(window)[k] = window[m - 1 + k]
           /\ \A k \in 1..(m - 1) : now - window[k] >= SinkMinute
<1> DEFINE young == {i \in DOMAIN window : now - window[i] < SinkMinute}
<1>1. Len(window) \in Nat /\ DOMAIN window = 1..Len(window) /\ young \subseteq Nat
      /\ young \subseteq 1..Len(window)
  OBVIOUS
<1>2. \A k \in 1..Len(window) : window[k] \in Int
  OBVIOUS
<1>3. Out!Recent(window) = IF young = {} THEN <<>>
                           ELSE SubSeq(window, Out!Min(young), Len(window))
  BY DEF Out!Recent
<1>4. CASE young = {}
  <2>1. \A k \in 1..Len(window) : now - window[k] >= SinkMinute
    BY <1>1, <1>2, <1>4, SinkConstants
  <2>2. Out!Recent(window) = <<>>
    BY <1>3, <1>4
  <2>3. Len(window) + 1 \in 1..(Len(window) + 1)
        /\ Len(window) + 1 - (Len(window) + 1) = 0
        /\ (Len(window) + 1) - 1 = Len(window)
    BY <1>1
  <2>4. QED
    BY <2>1, <2>2, <2>3
<1>5. CASE young # {}
  <2>1. Out!Min(young) \in young /\ \A x \in young : Out!Min(young) <= x
    BY <1>1, <1>5, MinIsLeast
  <2>2. PICK m \in Nat : m = Out!Min(young)
    BY <1>1, <2>1
  <2>3. m \in 1..Len(window) /\ \A x \in young : m <= x
    BY <1>1, <2>1, <2>2
  <2>4. Out!Recent(window) = SubSeq(window, m, Len(window))
    BY <1>3, <1>5, <2>2
  <2>5. /\ SubSeq(window, m, Len(window)) \in Seq(Int)
        /\ Len(SubSeq(window, m, Len(window))) = Len(window) + 1 - m
        /\ \A k \in 1..(Len(window) + 1 - m) :
             SubSeq(window, m, Len(window))[k] = window[m - 1 + k]
    BY <1>1, <2>3
  <2>6. ASSUME NEW k \in 1..(m - 1)
        PROVE  now - window[k] >= SinkMinute
    <3>1. k \in 1..Len(window) /\ ~ (m <= k)
      BY <1>1, <2>3
    <3>2. k \notin young
      BY <2>3, <3>1
    <3>3. ~ (now - window[k] < SinkMinute)
      BY <1>1, <3>1, <3>2
    <3>4. QED
      BY <1>2, <3>1, <3>3, SinkConstants
  <2>7. m \in 1..(Len(window) + 1)
    BY <1>1, <2>3
  <2>8. QED
    BY <2>4, <2>5, <2>6, <2>7
<1>6. QED
  BY <1>4, <1>5

\* What EventSink::allow retains still holds the last minute of spawns.
LEMMA RecentRemembers ==
  ASSUME SinkInv
  PROVE  Remembers(Out!Recent(window))
<1>1. /\ now \in Int /\ spawns \in Seq(Int) /\ window \in Seq(Int)
      /\ Len(window) <= Len(spawns) /\ Len(window) <= SINK_MAX_PER_MIN
      /\ \A k \in 1..Len(window) : window[k] = spawns[Len(spawns) - Len(window) + k]
      /\ \A i \in 1..(Len(spawns) - Len(window)) : now - spawns[i] >= SinkMinute
  BY DEF SinkInv, Remembers
<1>2. PICK m \in 1..(Len(window) + 1) :
           /\ Out!Recent(window) \in Seq(Int)
           /\ Len(Out!Recent(window)) = Len(window) + 1 - m
           /\ \A k \in 1..Len(Out!Recent(window)) :
                Out!Recent(window)[k] = window[m - 1 + k]
           /\ \A k \in 1..(m - 1) : now - window[k] >= SinkMinute
  BY <1>1, RecentIsTail
<1>3. PICK n \in Nat : n = Len(window)
  BY <1>1
<1>4. PICK l \in Nat : l = Len(spawns)
  BY <1>1
<1>5. PICK w \in Seq(Int) : w = Out!Recent(window)
  BY <1>2
<1>6. Len(w) = n + 1 - m /\ m \in 1..(n + 1) /\ n <= l
  BY <1>1, <1>2, <1>3, <1>4, <1>5
<1>7. ASSUME NEW k \in 1..Len(w)
      PROVE  w[k] = spawns[l - Len(w) + k]
  <2>1. m - 1 + k \in 1..n /\ l - n + (m - 1 + k) = l - Len(w) + k
    BY <1>6
  <2>2. w[k] = window[m - 1 + k]
    BY <1>2, <1>5
  <2>3. window[m - 1 + k] = spawns[l - n + (m - 1 + k)]
    BY <1>1, <1>3, <1>4, <2>1
  <2>4. QED
    BY <2>1, <2>2, <2>3
<1>8. ASSUME NEW i \in 1..(l - Len(w))
      PROVE  now - spawns[i] >= SinkMinute
  <2>1. CASE i <= l - n
    BY <1>1, <1>3, <1>4, <1>6, <2>1
  <2>2. CASE ~(i <= l - n)
    <3>1. i - (l - n) \in 1..(m - 1) /\ i - (l - n) \in 1..n
          /\ l - n + (i - (l - n)) = i
      BY <1>6, <2>2
    <3>2. window[i - (l - n)] = spawns[l - n + (i - (l - n))]
      BY <1>1, <1>3, <1>4, <3>1
    <3>3. QED
      BY <1>2, <3>1, <3>2
  <2>3. QED
    BY <2>1, <2>2
<1>9. Len(w) <= l /\ Len(w) <= SINK_MAX_PER_MIN
  BY <1>1, <1>3, <1>6, SinkConstants
<1>10. QED
  BY <1>4, <1>5, <1>7, <1>8, <1>9 DEF Remembers

\* The elements of a concatenation.
LEMMA ConcatIs ==
  ASSUME NEW S, NEW s \in Seq(S), NEW t \in Seq(S)
  PROVE  /\ s \o t \in Seq(S) /\ Len(s \o t) = Len(s) + Len(t)
         /\ \A i \in 1..(Len(s) + Len(t)) :
              (s \o t)[i] = IF i <= Len(s) THEN s[i] ELSE t[i - Len(s)]
OBVIOUS

\* The spawns of a burst are of now, and fit under the cap.
LEMMA FireKeepsSink ==
  ASSUME SinkInv, NEW n \in Nat, NEW failed \in 0..1, Out!Fire(n, failed)
  PROVE  SinkInv'
<1> DEFINE w == Out!Recent(window)
<1> DEFINE tried == Out!Min({n - Out!Min({failed, n}), SINK_MAX_PER_MIN - Len(w)})
<1> DEFINE fresh == [i \in 1..tried |-> now]
<1>1. window' = w \o fresh /\ spawns' = spawns \o fresh /\ now' = now
  BY DEF Out!Fire
<1>2. Remembers(w) /\ now \in Int /\ spawns \in Seq(Int)
  BY RecentRemembers DEF SinkInv
<1>3. w \in Seq(Int) /\ Len(w) \in Nat /\ Len(w) <= SINK_MAX_PER_MIN
  BY <1>2 DEF Remembers
<1> HIDE DEF w
<1>4. tried \in Nat /\ tried <= SINK_MAX_PER_MIN - Len(w)
  <2>1. Out!Min({failed, n}) \in {failed, n} /\ Out!Min({failed, n}) <= n
    <3>1. {failed, n} \in SUBSET Nat /\ {failed, n} # {} /\ n \in {failed, n}
      OBVIOUS
    <3>2. QED
      BY <3>1, MinIsLeast
  <2>2. PICK f \in Nat : f = Out!Min({failed, n}) /\ f <= n
    BY <2>1
  <2>3. n - f \in Nat
    BY <2>2
  <2>4. PICK a \in Nat : a = n - f
    BY <2>3
  <2>5. SINK_MAX_PER_MIN - Len(w) \in Nat
    BY <1>3, SinkConstants
  <2>6. PICK b \in Nat : b = SINK_MAX_PER_MIN - Len(w)
    BY <2>5, Zenon
  <2>7. {a, b} \in SUBSET Nat /\ {a, b} # {} /\ b \in {a, b}
    OBVIOUS
  <2>8. Out!Min({a, b}) \in {a, b} /\ Out!Min({a, b}) <= b
    BY <2>7, MinIsLeast
  <2>9. tried = Out!Min({a, b})
    BY <2>2, <2>4, <2>6
  <2>10. QED
    BY <2>6, <2>8, <2>9
<1> HIDE DEF tried
<1>5. fresh \in Seq(Int) /\ Len(fresh) = tried /\ \A i \in 1..tried : fresh[i] = now
  BY <1>2, <1>4
<1> HIDE DEF fresh
<1>6. PICK c \in Nat : c = Len(w)
  BY <1>3
<1>7. PICK l \in Nat : l = Len(spawns)
  BY <1>2
<1>8. c <= l /\ tried <= SINK_MAX_PER_MIN - c /\ c <= SINK_MAX_PER_MIN
  BY <1>2, <1>3, <1>4, <1>6, <1>7 DEF Remembers
<1>9. /\ window' \in Seq(Int) /\ Len(window') = c + tried
      /\ \A k \in 1..c : window'[k] = w[k]
      /\ \A k \in (c + 1)..(c + tried) : window'[k] = now
  <2>1. w \o fresh \in Seq(Int) /\ Len(w \o fresh) = c + tried
        /\ \A k \in 1..(c + tried) :
             (w \o fresh)[k] = IF k <= c THEN w[k] ELSE fresh[k - c]
    <3>1. Len(fresh) = tried /\ fresh \in Seq(Int)
      BY <1>5
    <3>2. QED
      BY <1>3, <1>6, <3>1, ConcatIs
  <2>2. \A k \in (c + 1)..(c + tried) : k - c \in 1..tried /\ ~(k <= c)
                                        /\ k \in 1..(c + tried)
    BY <1>4
  <2>3. \A k \in 1..c : k <= c /\ k \in 1..(c + tried)
    BY <1>4
  <2>4. QED
    BY <1>1, <1>5, <2>1, <2>2, <2>3
<1>10. /\ spawns' \in Seq(Int) /\ Len(spawns') = l + tried
       /\ \A k \in 1..l : spawns'[k] = spawns[k]
       /\ \A k \in (l + 1)..(l + tried) : spawns'[k] = now
  <2>1. spawns \o fresh \in Seq(Int) /\ Len(spawns \o fresh) = l + tried
        /\ \A k \in 1..(l + tried) :
             (spawns \o fresh)[k] = IF k <= l THEN spawns[k] ELSE fresh[k - l]
    <3>1. Len(fresh) = tried /\ fresh \in Seq(Int)
      BY <1>5
    <3>2. QED
      BY <1>2, <1>7, <3>1, ConcatIs
  <2>2. \A k \in (l + 1)..(l + tried) : k - l \in 1..tried /\ ~(k <= l)
                                        /\ k \in 1..(l + tried)
    BY <1>4
  <2>3. \A k \in 1..l : k <= l /\ k \in 1..(l + tried)
    BY <1>4
  <2>4. QED
    BY <1>1, <1>5, <2>1, <2>2, <2>3
<1>11. /\ \A k \in 1..c : w[k] = spawns[l - c + k]
       /\ \A i \in 1..(l - c) : now - spawns[i] >= SinkMinute
  BY <1>2, <1>6, <1>7 DEF Remembers
<1>12. Remembers(window)'
  <2>1. ASSUME NEW k \in 1..(c + tried)
        PROVE  window'[k] = spawns'[(l + tried) - (c + tried) + k]
    <3>1. (l + tried) - (c + tried) + k = l - c + k
      BY <1>4
    <3>2. CASE k <= c
      <4>1. k \in 1..c /\ l - c + k \in 1..l
        BY <1>8, <3>2
      <4>2. QED
        BY <1>9, <1>10, <1>11, <3>1, <4>1
    <3>3. CASE ~(k <= c)
      <4>1. k \in (c + 1)..(c + tried) /\ l - c + k \in (l + 1)..(l + tried)
        BY <1>4, <3>3
      <4>2. QED
        BY <1>9, <1>10, <3>1, <4>1
    <3>4. QED
      BY <3>2, <3>3
  <2>2. ASSUME NEW i \in 1..((l + tried) - (c + tried))
        PROVE  now - spawns'[i] >= SinkMinute
    <3>1. i \in 1..(l - c) /\ i \in 1..l
      BY <1>4, <1>8
    <3>2. QED
      BY <1>10, <1>11, <3>1
  <2>3. c + tried <= l + tried /\ c + tried <= SINK_MAX_PER_MIN
    BY <1>4, <1>8, SinkConstants
  <2>4. QED
    BY <1>1, <1>9, <1>10, <2>1, <2>2, <2>3 DEF Remembers
<1>13. Out!HooksWithinCap'
  <2>1. DOMAIN spawns = 1..l /\ DOMAIN spawns' = 1..(l + tried)
    BY <1>2, <1>7, <1>10
  <2>2. ASSUME NEW i \in 1..(l + tried), i + SINK_MAX_PER_MIN \in 1..(l + tried)
        PROVE  spawns'[i + SINK_MAX_PER_MIN] - spawns'[i] >= SinkMinute
    <3>1. CASE i + SINK_MAX_PER_MIN <= l
      <4>1. i \in 1..l /\ i + SINK_MAX_PER_MIN \in 1..l
        BY <3>1, SinkConstants
      <4>2. spawns[i + SINK_MAX_PER_MIN] - spawns[i] >= SinkMinute
        BY <2>1, <4>1 DEF SinkInv, Out!HooksWithinCap
      <4>3. QED
        BY <1>10, <4>1, <4>2
    <3>2. CASE ~(i + SINK_MAX_PER_MIN <= l)
      <4>1. i + SINK_MAX_PER_MIN \in (l + 1)..(l + tried)
        BY <1>4, <2>2, <3>2, SinkConstants
      <4>2. i \in 1..(l - c) /\ i \in 1..l
        BY <1>4, <1>8, <2>2, SinkConstants
      <4>3. now - spawns[i] >= SinkMinute
        BY <1>11, <4>2
      <4>4. spawns'[i + SINK_MAX_PER_MIN] = now /\ spawns'[i] = spawns[i]
        BY <1>10, <4>1, <4>2
      <4>5. QED
        BY <4>3, <4>4
    <3>3. QED
      BY <3>1, <3>2
  <2>3. QED
    BY <2>1, <2>2 DEF Out!HooksWithinCap
<1>14. QED
  BY <1>1, <1>2, <1>10, <1>12, <1>13 DEF SinkInv

\* With time the window only remembers more than the last minute.
LEMMA SleepKeepsSink ==
  ASSUME SinkInv, Out!Sleep
  PROVE  SinkInv'
<1>1. now' = now + 1 /\ UNCHANGED <<window, spawns>>
  BY DEF Out!Sleep
<1>2. now \in Int /\ spawns \in Seq(Int) /\ window \in Seq(Int)
      /\ Len(window) <= Len(spawns)
  BY DEF SinkInv, Remembers
<1>3. ASSUME NEW i \in 1..(Len(spawns) - Len(window))
      PROVE  (now + 1) - spawns[i] >= SinkMinute
  <2>1. Len(spawns) \in Nat /\ Len(window) \in Nat
    BY <1>2
  <2>2. i \in 1..Len(spawns)
    BY <1>2, <2>1
  <2>3. spawns[i] \in Int
    BY <1>2, <2>2
  <2>4. now - spawns[i] >= SinkMinute
    BY DEF SinkInv, Remembers
  <2>5. QED
    BY <1>2, <2>3, <2>4, SinkConstants
<1>4. Remembers(window)'
  BY <1>1, <1>3 DEF SinkInv, Remembers
<1>5. Out!HooksWithinCap'
  BY <1>1 DEF SinkInv, Out!HooksWithinCap
<1>6. QED
  BY <1>1, <1>2, <1>4, <1>5 DEF SinkInv

Kinds == {"frame", "panic", "fact", "start", "reset", "stop"}
StopLine == <<"stop", 0>>

StreamTypes ==
  /\ recorder \in BOOLEAN /\ gone \in BOOLEAN /\ finished \in BOOLEAN
  /\ ticks \in Nat
  /\ pending \in {<<>>, <<<<"start", 0>>>>, <<<<"reset", 0>>, <<"start", 0>>>>}
  /\ pc \in {"tick", "emit", "sleep", "finish", "ended", "dropped"}
  /\ pc = "emit" => then \in {"sleep", "finish", "ended"}
  /\ pc # "emit" => queue = <<>>
  /\ lines \in Seq(Kinds \X Nat) /\ queue \in Seq(Kinds \X Nat)
  /\ recorded \subseteq Kinds \X Nat

FactsBy(t) == MaxFacts * t

\* Ticks bring at most MaxFacts each.
LEMMA FactsGrow ==
  /\ \A t \in Nat : FactsBy(t) \in Nat /\ FactsBy(t + 1) = FactsBy(t) + MaxFacts
  /\ \A t, u \in Nat : t <= u => FactsBy(t) <= FactsBy(u)
<1>1. MaxFacts \in Nat
  BY SinkConstants
<1>2. ASSUME NEW t \in Nat
      PROVE  FactsBy(t) \in Nat /\ FactsBy(t + 1) = FactsBy(t) + MaxFacts
  BY <1>1 DEF FactsBy
<1>3. ASSUME NEW t \in Nat, NEW u \in Nat, t <= u
      PROVE  FactsBy(t) <= FactsBy(u)
  <2>1. u - t \in Nat
    BY <1>3
  <2>2. MaxFacts * (u - t) \in Nat /\ MaxFacts * t \in Nat
    BY <1>1, <2>1
  <2>3. MaxFacts * u = MaxFacts * t + MaxFacts * (u - t)
    BY <1>1, <2>1
  <2>4. QED
    BY <2>2, <2>3 DEF FactsBy
<1>4. QED
  BY <1>2, <1>3

\* A line that no tick to come will make again.
IsOld(l) ==
  /\ l[1] \in {"frame", "panic"} => l[2] < ticks
  /\ l[1] = "fact" => l[2] <= FactsBy(ticks)
  /\ l[1] \in {"start", "reset"} => pending = <<>>
  /\ l[1] = "stop" => l[2] = 0 /\ finished

ToldOnce ==
  /\ Out!IsInjective(lines) /\ Out!IsInjective(queue)
  /\ \A i \in DOMAIN lines, j \in DOMAIN queue : lines[i] # queue[j]
  /\ \A i \in DOMAIN lines : IsOld(lines[i])
  /\ \A j \in DOMAIN queue : IsOld(queue[j])

\* Where an event of the recording is to be found, while the consumer listens.
IsTold(e) ==
  \/ e[1] = "stop" \/ e = <<"start", 0>>
  \/ \E i \in DOMAIN lines : lines[i] = e
  \/ \E j \in DOMAIN queue : queue[j] = e

Agreed ==
  recorder =>
    /\ \A i \in DOMAIN lines : lines[i][1] # "frame" => lines[i] \in recorded
    /\ \A j \in DOMAIN queue : queue[j][1] # "frame" => queue[j] \in recorded
    /\ \A e \in recorded : e[1] # "frame"
    /\ ~gone => \A e \in recorded : IsTold(e)

\* The loop has given its last event.
Over == pc \in {"ended", "dropped"} \/ (pc = "emit" /\ then = "ended")

StopsOnce ==
  /\ Out!Stops = IF finished THEN {StopLine} ELSE {}
  /\ finished => recorder /\ Over
  /\ pc = "emit" /\ then = "ended" =>
       (recorder => finished) /\ queue \in {<<>>, <<StopLine>>}
  /\ \A i \in DOMAIN lines : lines[i][1] = "stop" => i = Len(lines) /\ queue = <<>>
  /\ recorder /\ ~gone /\ Over /\ queue = <<>> =>
       Len(lines) > 0 /\ lines[Len(lines)] = StopLine
  /\ pc = "dropped" /\ recorder => finished

StreamInv == StreamTypes /\ ToldOnce /\ Agreed /\ StopsOnce

\* Before the first tick nothing is told.
LEMMA StreamStart == Out!Init => StreamInv
<1> SUFFICES ASSUME Out!Init PROVE StreamInv
  OBVIOUS
<1>1. /\ recorder \in BOOLEAN /\ ticks = 0 /\ finished = FALSE /\ gone = FALSE
      /\ pc = "tick" /\ queue = <<>> /\ lines = <<>>
      /\ recorded = IF recorder THEN {<<"start", 0>>} ELSE {}
      /\ pending \in {<<>>, <<<<"start", 0>>>>, <<<<"reset", 0>>, <<"start", 0>>>>}
  BY DEF Out!Init
<1>2. StreamTypes
  <2>1. <<"start", 0>> \in Kinds \X Nat
    BY DEF Kinds
  <2>2. recorded \subseteq Kinds \X Nat
    BY <1>1, <2>1
  <2>3. lines \in Seq(Kinds \X Nat) /\ queue \in Seq(Kinds \X Nat)
    BY <1>1
  <2>4. QED
    BY <1>1, <2>2, <2>3 DEF StreamTypes
<1>3. DOMAIN lines = {} /\ DOMAIN queue = {}
  BY <1>1
<1>4. ToldOnce
  BY <1>3 DEF ToldOnce, Out!IsInjective
<1>5. Agreed
  BY <1>1, <1>3 DEF Agreed, IsTold
<1>6. StopsOnce
  BY <1>1, <1>3 DEF StopsOnce, Out!Stops, Over
<1>7. QED
  BY <1>2, <1>4, <1>5, <1>6 DEF StreamInv

\* What is old stays old.
LEMMA OldStaysOld ==
  ASSUME StreamTypes, ticks' \in Nat, ticks <= ticks', pending' \in {pending, <<>>},
         finished => finished', NEW l \in Kinds \X Nat, IsOld(l)
  PROVE  IsOld(l)'
<1>1. l[2] \in Nat /\ ticks \in Nat
  BY DEF StreamTypes
<1>2. FactsBy(ticks) <= FactsBy(ticks') /\ FactsBy(ticks) \in Nat
      /\ FactsBy(ticks') \in Nat
  BY <1>1, FactsGrow
<1>3. l[1] = "fact" => l[2] <= FactsBy(ticks')
  BY <1>1, <1>2 DEF IsOld
<1>4. l[1] \in {"frame", "panic"} => l[2] < ticks'
  BY <1>1 DEF IsOld
<1>5. QED
  BY <1>3, <1>4 DEF IsOld

\* While the loop goes on, nobody has been told of a stop.
LEMMA NoStopYet ==
  ASSUME StreamInv, ~Over
  PROVE  /\ ~finished /\ Out!Stops = {}
         /\ \A i \in DOMAIN lines : lines[i][1] # "stop"
         /\ \A j \in DOMAIN queue : queue[j][1] # "stop"
BY DEF StreamInv, StopsOnce, ToldOnce, IsOld

\* A tick puts new lines on the stream, and its events on the recording.
LEMMA TickGoesOut ==
  ASSUME StreamInv, pc = "tick", NEW q \in Seq(Kinds \X Nat),
         NEW evs \in SUBSET (Kinds \X Nat),
         lines' = lines, queue' = q,
         recorded' = IF recorder THEN recorded \union evs ELSE recorded,
         ticks' = ticks + 1, pending' = <<>>,
         UNCHANGED <<recorder, finished, gone>>,
         pc' = "emit", then' \in {"sleep", "finish"},
         Out!IsInjective(q),
         \A j \in DOMAIN q :
           ~IsOld(q[j]) /\ IsOld(q[j])' /\ (q[j][1] # "frame" => q[j] \in evs),
         \A e \in evs : e[1] \notin {"frame", "stop"} /\ \E j \in DOMAIN q : q[j] = e
  PROVE  StreamInv'
<1>1. ~Over
  BY DEF Over
<1>2. StreamTypes /\ ToldOnce /\ Agreed /\ StopsOnce
  BY DEF StreamInv
<1>3. /\ ~finished /\ Out!Stops = {}
      /\ \A i \in DOMAIN lines : lines[i][1] # "stop"
  BY <1>1, NoStopYet
<1>4. StreamTypes'
  BY <1>2 DEF StreamTypes
<1>5. ticks' \in Nat /\ ticks <= ticks'
  BY <1>2 DEF StreamTypes
<1>6. \A i \in DOMAIN lines : IsOld(lines[i])'
  <2>1. TAKE i \in DOMAIN lines
  <2>2. lines[i] \in Kinds \X Nat /\ IsOld(lines[i])
    BY <1>2 DEF StreamTypes, ToldOnce
  <2>3. QED
    BY <1>2, <1>5, <2>2, OldStaysOld
<1>7. \A i \in DOMAIN lines, j \in DOMAIN q : lines[i] # q[j]
  BY <1>2 DEF ToldOnce
<1>8. ToldOnce'
  <2>1. (\A i \in DOMAIN lines : IsOld(lines[i]))'
    BY <1>6 DEF IsOld
  <2>2. (\A j \in DOMAIN queue : IsOld(queue[j]))'
    BY DEF IsOld
  <2>3. QED
    BY <1>2, <1>7, <2>1, <2>2 DEF ToldOnce, Out!IsInjective
<1>9. Agreed'
  <2>1. ASSUME recorder
        PROVE  /\ \A i \in DOMAIN lines : lines[i][1] # "frame" => lines[i] \in recorded'
               /\ \A j \in DOMAIN q : q[j][1] # "frame" => q[j] \in recorded'
               /\ \A e \in recorded' : e[1] # "frame"
               /\ ~gone => \A e \in recorded' :
                    \/ e[1] = "stop" \/ e = <<"start", 0>>
                    \/ \E i \in DOMAIN lines : lines[i] = e
                    \/ \E j \in DOMAIN q : q[j] = e
    <3>1. recorded' = recorded \union evs
      BY <2>1
    <3>2. DOMAIN queue = {}
      BY <1>2 DEF StreamTypes
    <3>3. ~gone => \A e \in recorded :
                    \/ e[1] = "stop" \/ e = <<"start", 0>>
                    \/ \E i \in DOMAIN lines : lines[i] = e
      BY <1>2, <2>1, <3>2 DEF Agreed, IsTold
    <3>4. QED
      BY <1>2, <2>1, <3>1, <3>3 DEF Agreed
  <2>2. QED
    BY <2>1 DEF Agreed, IsTold
<1>10. StopsOnce'
  <2>1. Out!Stops' = {}
    BY <1>3 DEF Out!Stops
  <2>2. ~Over'
    BY DEF Over
  <2>3. QED
    BY <1>3, <2>1, <2>2 DEF StopsOnce, Over
<1>11. QED
  BY <1>4, <1>8, <1>9, <1>10 DEF StreamInv

\* What is pending: nothing, or the marks that open a session.
LEMMA PendingMarks ==
  ASSUME StreamTypes
  PROVE  /\ pending \in Seq(Kinds \X Nat) /\ Len(pending) \in Nat
         /\ \A i \in 1..Len(pending) : pending[i] \in {<<"start", 0>>, <<"reset", 0>>}
         /\ \A i, j \in 1..Len(pending) : pending[i] = pending[j] => i = j
         /\ pending = <<>> => Len(pending) = 0
<1>1. <<"start", 0>> \in Kinds \X Nat /\ <<"reset", 0>> \in Kinds \X Nat
  BY DEF Kinds
<1>2. CASE pending = <<>>
  BY <1>2
<1>3. CASE pending = <<<<"start", 0>>>>
  <2>1. Len(pending) = 1 /\ pending[1] = <<"start", 0>>
    BY <1>3
  <2>2. 1..Len(pending) = {1}
    BY <2>1
  <2>3. QED
    BY <1>1, <1>3, <2>1, <2>2
<1>4. CASE pending = <<<<"reset", 0>>, <<"start", 0>>>>
  <2>1. Len(pending) = 2 /\ pending[1] = <<"reset", 0>> /\ pending[2] = <<"start", 0>>
    BY <1>4
  <2>2. 1..Len(pending) = {1, 2}
    BY <2>1
  <2>3. pending[1] # pending[2]
    BY <2>1
  <2>4. pending \in Seq(Kinds \X Nat)
    BY <1>1, <1>4
  <2>5. QED
    BY <1>4, <2>1, <2>2, <2>3, <2>4
<1>5. QED
  BY <1>2, <1>3, <1>4 DEF StreamTypes

\* A tick that does not panic queues its own facts behind those of earlier ticks.
LEMMA TickKeepsStream ==
  ASSUME StreamInv, NEW facts \in 0..MaxFacts, NEW failed, Out!Tick(facts, failed)
  PROVE  /\ StreamInv'
         /\ \E n \in Nat : Out!Fire(n, failed)
<1> DEFINE news == [i \in 1..facts |-> <<"fact", MaxFacts * ticks + i>>]
<1> DEFINE events == pending \o news
<1>1. /\ pc = "tick" /\ ticks' = ticks + 1 /\ pending' = <<>>
      /\ Out!Record(events) /\ Out!Fire(Len(events), failed)
      /\ queue' = <<<<"frame", ticks>>>> \o events
      /\ then' \in {"sleep", "finish"} /\ pc' = "emit"
      /\ UNCHANGED <<recorder, finished, gone, lines>>
  BY DEF Out!Tick
<1>2. StreamTypes /\ ticks \in Nat /\ MaxFacts \in Nat /\ facts \in Nat
  BY SinkConstants DEF StreamInv, StreamTypes
<1>3. /\ FactsBy(ticks) \in Nat /\ FactsBy(ticks + 1) = FactsBy(ticks) + MaxFacts
  BY <1>2, FactsGrow
<1>4. PICK base \in Nat : base = MaxFacts * ticks /\ base = FactsBy(ticks)
  BY <1>3 DEF FactsBy
<1>5. /\ news \in Seq(Kinds \X Nat) /\ Len(news) = facts
      /\ \A i \in 1..facts : news[i] = <<"fact", base + i>>
  <2>1. \A i \in 1..facts : <<"fact", base + i>> \in Kinds \X Nat
    BY <1>2 DEF Kinds
  <2>2. news = [i \in 1..facts |-> <<"fact", base + i>>]
    BY <1>4
  <2>3. QED
    BY <1>2, <2>1, <2>2
<1> HIDE DEF news
<1>6. PICK p \in Nat : p = Len(pending)
  BY <1>2, PendingMarks
<1>7. /\ events \in Seq(Kinds \X Nat) /\ Len(events) = p + facts
      /\ \A i \in 1..p : events[i] = pending[i]
      /\ \A i \in (p + 1)..(p + facts) : events[i] = <<"fact", base + (i - p)>>
  <2>0. pending \in Seq(Kinds \X Nat) /\ Len(pending) = p
    BY <1>2, <1>6, PendingMarks
  <2>1. events \in Seq(Kinds \X Nat) /\ Len(events) = p + facts
        /\ \A i \in 1..(p + facts) :
             events[i] = IF i <= p THEN pending[i] ELSE news[i - p]
    <3>1. events \in Seq(Kinds \X Nat) /\ Len(events) = Len(pending) + Len(news)
          /\ \A i \in 1..(Len(pending) + Len(news)) :
               events[i] = IF i <= Len(pending) THEN pending[i]
                           ELSE news[i - Len(pending)]
      BY <1>5, <2>0, ConcatIs
    <3>2. QED
      BY <1>5, <2>0, <3>1
  <2>2. \A i \in 1..p : i \in 1..(p + facts) /\ i <= p
    BY <1>2
  <2>3. \A i \in (p + 1)..(p + facts) :
          i \in 1..(p + facts) /\ ~(i <= p) /\ i - p \in 1..facts
    BY <1>2
  <2>4. QED
    BY <1>5, <2>1, <2>2, <2>3
<1> HIDE DEF events
<1>8. <<"frame", ticks>> \in Kinds \X Nat
  BY <1>2 DEF Kinds
<1>9. PICK q \in Seq(Kinds \X Nat) :
         /\ q = <<<<"frame", ticks>>>> \o events
         /\ Len(q) = 1 + p + facts
         /\ q[1] = <<"frame", ticks>>
         /\ \A j \in 2..(1 + p + facts) : q[j] = events[j - 1]
  <2>1. <<<<"frame", ticks>>>> \in Seq(Kinds \X Nat)
    BY <1>8
  <2>2. PICK f \in Seq(Kinds \X Nat) : f = <<<<"frame", ticks>>>>
    BY <2>1, Zenon
  <2>3. Len(f) = 1 /\ f[1] = <<"frame", ticks>>
    BY <2>2
  <2>4. /\ f \o events \in Seq(Kinds \X Nat) /\ Len(f \o events) = Len(f) + Len(events)
        /\ \A i \in 1..(Len(f) + Len(events)) :
             (f \o events)[i] = IF i <= Len(f) THEN f[i] ELSE events[i - Len(f)]
    BY <1>7, ConcatIs
  <2>5. PICK q \in Seq(Kinds \X Nat) : q = f \o events
    BY <2>4, Zenon
  <2>6. Len(q) = 1 + p + facts
        /\ \A i \in 1..(1 + p + facts) : q[i] = IF i <= 1 THEN f[i] ELSE events[i - 1]
    <3>1. 1 + (p + facts) = 1 + p + facts
      BY <1>2
    <3>2. QED
      BY <1>7, <2>3, <2>4, <2>5, <3>1
  <2>7. 1 \in 1..(1 + p + facts)
        /\ \A j \in 2..(1 + p + facts) : j \in 1..(1 + p + facts) /\ ~(j <= 1)
    BY <1>2
  <2>8. q[1] = <<"frame", ticks>> /\ \A j \in 2..(1 + p + facts) : q[j] = events[j - 1]
    <3>1. q[1] = f[1]
      BY <2>6, <2>7
    <3>2. \A j \in 2..(1 + p + facts) : q[j] = events[j - 1]
      BY <2>6, <2>7
    <3>3. QED
      BY <2>3, <3>1, <3>2
  <2>9. QED
    BY <2>2, <2>5, <2>6, <2>8
<1>10. DOMAIN q = 1..(1 + p + facts) /\ DOMAIN events = 1..(p + facts)
  BY <1>2, <1>7, <1>9
<1>11. \A j \in 2..(1 + p) : /\ j - 1 \in 1..p /\ q[j] = pending[j - 1]
                             /\ q[j] \in {<<"start", 0>>, <<"reset", 0>>}
  <2>1. \A j \in 2..(1 + p) : j - 1 \in 1..p /\ j \in 2..(1 + p + facts)
    BY <1>2
  <2>2. \A i \in 1..p : pending[i] \in {<<"start", 0>>, <<"reset", 0>>}
    BY <1>2, <1>6, PendingMarks
  <2>3. QED
    BY <1>7, <1>9, <2>1, <2>2
<1>12. \A j \in (2 + p)..(1 + p + facts) :
         q[j] = <<"fact", base + (j - 1 - p)>> /\ j - 1 - p \in 1..facts
  <2>1. \A j \in (2 + p)..(1 + p + facts) :
          j - 1 \in (p + 1)..(p + facts) /\ j \in 2..(1 + p + facts)
          /\ j - 1 - p \in 1..facts
    BY <1>2
  <2>2. QED
    BY <1>7, <1>9, <2>1
<1>13. \A j \in 1..(1 + p + facts) :
         j = 1 \/ j \in 2..(1 + p) \/ j \in (2 + p)..(1 + p + facts)
  BY <1>2
<1>14. /\ q[1][1] = "frame" /\ q[1][2] = ticks
       /\ \A j \in 2..(1 + p) : q[j][1] \in {"start", "reset"}
       /\ \A j \in (2 + p)..(1 + p + facts) :
            q[j][1] = "fact" /\ q[j][2] = base + (j - 1 - p)
  <2>1. q[1][1] = "frame" /\ q[1][2] = ticks
    BY <1>9
  <2>2. \A j \in 2..(1 + p) : q[j][1] \in {"start", "reset"}
    BY <1>11
  <2>3. \A j \in (2 + p)..(1 + p + facts) :
            q[j][1] = "fact" /\ q[j][2] = base + (j - 1 - p)
    BY <1>12
  <2>4. QED
    BY <2>1, <2>2, <2>3
<1>15. Out!IsInjective(q)
  <2>1. ASSUME NEW a \in DOMAIN q, NEW b \in DOMAIN q, q[a] = q[b]
        PROVE  a = b
    <3>1. a = 1 \/ a \in 2..(1 + p) \/ a \in (2 + p)..(1 + p + facts)
      BY <1>10, <1>13
    <3>2. b = 1 \/ b \in 2..(1 + p) \/ b \in (2 + p)..(1 + p + facts)
      BY <1>10, <1>13
    <3>3. /\ a = 1 => q[a][1] = "frame"
          /\ a \in 2..(1 + p) => q[a][1] \in {"start", "reset"}
          /\ a \in (2 + p)..(1 + p + facts) => q[a][1] = "fact"
      BY <1>14
    <3>4. /\ b = 1 => q[b][1] = "frame"
          /\ b \in 2..(1 + p) => q[b][1] \in {"start", "reset"}
          /\ b \in (2 + p)..(1 + p + facts) => q[b][1] = "fact"
      BY <1>14
    <3>5. CASE a \in 2..(1 + p) /\ b \in 2..(1 + p)
      <4>1. a - 1 \in 1..p /\ b - 1 \in 1..p /\ pending[a - 1] = pending[b - 1]
        BY <1>11, <2>1, <3>5
      <4>2. a - 1 = b - 1
        BY <1>2, <1>6, <4>1, PendingMarks
      <4>3. QED
        BY <3>5, <4>2
    <3>6. CASE a \in (2 + p)..(1 + p + facts) /\ b \in (2 + p)..(1 + p + facts)
      <4>1. <<"fact", base + (a - 1 - p)>> = <<"fact", base + (b - 1 - p)>>
        BY <1>12, <2>1, <3>6
      <4>2. base + (a - 1 - p) = base + (b - 1 - p)
        BY <4>1
      <4>3. a \in Int /\ b \in Int
        BY <3>6
      <4>4. QED
        BY <4>2, <4>3
    <3>7. QED
      BY <2>1, <3>1, <3>2, <3>3, <3>4, <3>5, <3>6
  <2>2. QED
    BY <2>1 DEF Out!IsInjective
<1>16. \A j \in DOMAIN q : ~IsOld(q[j]) /\ IsOld(q[j])' /\ q[j][1] # "stop"
  <2>1. ASSUME NEW j \in DOMAIN q, j = 1
        PROVE  ~IsOld(q[j]) /\ IsOld(q[j])' /\ q[j][1] # "stop"
    <3>1. q[j][1] = "frame" /\ q[j][2] = ticks
      BY <1>14, <2>1
    <3>2. ~(ticks < ticks) /\ ticks < ticks'
      BY <1>1, <1>2
    <3>3. QED
      BY <3>1, <3>2 DEF IsOld
  <2>2. ASSUME NEW j \in 2..(1 + p)
        PROVE  ~IsOld(q[j]) /\ IsOld(q[j])' /\ q[j][1] # "stop"
    <3>1. q[j][1] \in {"start", "reset"}
      BY <1>14
    <3>2. pending # <<>>
      <4>1. p # 0
        BY <2>2
      <4>2. QED
        BY <1>2, <1>6, <4>1, PendingMarks
    <3>3. QED
      BY <1>1, <3>1, <3>2 DEF IsOld
  <2>3. ASSUME NEW j \in (2 + p)..(1 + p + facts)
        PROVE  ~IsOld(q[j]) /\ IsOld(q[j])' /\ q[j][1] # "stop"
    <3>1. q[j][1] = "fact" /\ q[j][2] = base + (j - 1 - p) /\ j - 1 - p \in 1..facts
      BY <1>12, <1>14
    <3>2. FactsBy(ticks') = base + MaxFacts /\ FactsBy(ticks) = base
      BY <1>1, <1>3, <1>4
    <3>3. ~(q[j][2] <= base) /\ q[j][2] <= base + MaxFacts
      BY <1>2, <3>1
    <3>4. QED
      BY <3>1, <3>2, <3>3 DEF IsOld
  <2>4. QED
    BY <1>10, <1>13, <2>1, <2>2, <2>3
<1>17. PICK evs \in SUBSET (Kinds \X Nat) : evs = {events[i] : i \in 1..(p + facts)}
  <2>1. {events[i] : i \in 1..(p + facts)} \in SUBSET (Kinds \X Nat)
    BY <1>7
  <2>2. QED
    BY <2>1, Zenon
<1>18. \A j \in DOMAIN q : q[j][1] # "frame" => q[j] \in evs
  <2>1. \A j \in 2..(1 + p + facts) : j - 1 \in 1..(p + facts)
    BY <1>2
  <2>2. \A j \in DOMAIN q : j = 1 \/ j \in 2..(1 + p + facts)
    BY <1>2, <1>10
  <2>3. QED
    BY <1>9, <1>14, <1>17, <2>1, <2>2
<1>19. \A e \in evs : e[1] \notin {"frame", "stop"} /\ \E j \in DOMAIN q : q[j] = e
  <2>1. TAKE e \in evs
  <2>2. PICK i \in 1..(p + facts) : e = events[i]
    BY <1>17
  <2>3. i + 1 \in 2..(1 + p + facts) /\ (i + 1) - 1 = i /\ i + 1 \in DOMAIN q
        /\ i + 1 # 1
    BY <1>2, <1>10
  <2>4. q[i + 1] = e
    BY <1>9, <2>2, <2>3
  <2>5. q[i + 1][1] # "frame"
    <3>1. i + 1 \in 2..(1 + p) \/ i + 1 \in (2 + p)..(1 + p + facts)
      BY <1>10, <1>13, <2>3
    <3>2. QED
      BY <1>14, <3>1
  <2>6. QED
    BY <1>16, <2>3, <2>4, <2>5
<1>20. StreamInv'
  <2>1. recorded' = IF recorder THEN recorded \union evs ELSE recorded
    BY <1>1, <1>10, <1>17 DEF Out!Record, Out!Range
  <2>2. QED
    BY <1>1, <1>9, <1>15, <1>16, <1>18, <1>19, <2>1, TickGoesOut
<1>21. QED
  <2>1. Len(events) \in Nat
    BY <1>2, <1>7
  <2>2. QED
    BY <1>1, <1>20, <2>1

\* A panicked tick tells the panic in place of its facts.
LEMMA PanicKeepsStream ==
  ASSUME StreamInv, NEW failed, Out!PanickedTick(failed)
  PROVE  StreamInv' /\ Out!Fire(1, failed)
<1>1. /\ pc = "tick" /\ ticks' = ticks + 1 /\ pending' = <<>>
      /\ Out!Record(<<<<"panic", ticks>>>>) /\ Out!Fire(1, failed)
      /\ queue' = <<<<"panic", ticks>>>> /\ then' \in {"sleep", "finish"}
      /\ pc' = "emit" /\ UNCHANGED <<recorder, finished, gone, lines>>
  BY DEF Out!PanickedTick
<1>2. ticks \in Nat
  BY DEF StreamInv, StreamTypes
<1>3. PICK t \in Nat : t = ticks
  BY <1>2
<1>4. <<"panic", t>> \in Kinds \X Nat
  BY DEF Kinds
<1>5. PICK q \in Seq(Kinds \X Nat) : q = <<<<"panic", t>>>>
  <2>1. <<<<"panic", t>>>> \in Seq(Kinds \X Nat)
    BY <1>4
  <2>2. QED
    BY <2>1, Zenon
<1>6. DOMAIN q = {1} /\ q[1] = <<"panic", t>>
  BY <1>5
<1>7. Out!IsInjective(q)
  BY <1>6 DEF Out!IsInjective
<1>8. ~IsOld(q[1]) /\ IsOld(q[1])'
  <2>1. ~(t < ticks) /\ t < ticks'
    BY <1>1, <1>3
  <2>2. QED
    BY <1>6, <2>1 DEF IsOld
<1>9. PICK evs \in SUBSET (Kinds \X Nat) : evs = {<<"panic", t>>}
  BY <1>4
<1>10. recorded' = IF recorder THEN recorded \union evs ELSE recorded
  <2>1. Out!Range(q) = {<<"panic", t>>}
    BY <1>6 DEF Out!Range
  <2>2. q = <<<<"panic", ticks>>>>
    BY <1>3, <1>5
  <2>3. QED
    BY <1>1, <1>9, <2>1, <2>2 DEF Out!Record
<1>11. StreamInv'
  <2>1. queue' = q
    BY <1>1, <1>3, <1>5
  <2>2. \A j \in DOMAIN q :
          ~IsOld(q[j]) /\ IsOld(q[j])' /\ (q[j][1] # "frame" => q[j] \in evs)
    BY <1>6, <1>8, <1>9
  <2>3. \A e \in evs : e[1] \notin {"frame", "stop"} /\ \E j \in DOMAIN q : q[j] = e
    BY <1>6, <1>9
  <2>4. QED
    BY <1>1, <1>7, <1>10, <2>1, <2>2, <2>3, TickGoesOut
<1>12. QED
  BY <1>1, <1>11

\* finish: a session that is recorded is finished once, with one mark.
LEMMA FinishIs ==
  ASSUME StreamInv, NEW emitted \in BOOLEAN, NEW failed, Out!Finish(emitted, failed)
  PROVE  /\ finished' = (finished \/ recorder)
         /\ recorded' = IF recorder /\ ~finished THEN recorded \union {StopLine}
                        ELSE recorded
         /\ queue' = IF recorder /\ ~finished /\ emitted THEN <<StopLine>> ELSE <<>>
         /\ Out!Fire(1, failed) \/ UNCHANGED <<now, window, spawns>>
<1>1. ~finished => Out!StopMark = StopLine
  <2>1. ~finished => Out!Stops = {}
    BY DEF StreamInv, StopsOnce
  <2>2. Cardinality({}) = Out!Cardinality({})
    BY Zenon DEF Cardinality, Out!Cardinality
  <2>3. Cardinality({}) = 0
    BY FS_EmptySet
  <2>4. QED
    BY <2>1, <2>2, <2>3 DEF Out!StopMark, StopLine
<1>2. Out!Range(<<StopLine>>) = {StopLine}
  BY DEF Out!Range
<1>3. CASE recorder /\ ~finished
  <2>1. /\ finished' = (finished \/ recorder)
        /\ Out!Record(<<StopLine>>) /\ Out!Fire(1, failed)
        /\ queue' = IF emitted THEN <<StopLine>> ELSE <<>>
    BY <1>1, <1>3 DEF Out!Finish, Out!WritesStop
  <2>2. QED
    BY <1>2, <1>3, <2>1 DEF Out!Record
<1>4. CASE ~(recorder /\ ~finished)
  BY <1>4 DEF Out!Finish, Out!WritesStop, Out!sink
<1>5. QED
  BY <1>3, <1>4

\* Finished with nobody to tell: the consumer is gone, or was told already.
LEMMA SilentFinish ==
  ASSUME StreamInv, NEW failed, Out!Finish(FALSE, failed),
         pc' \in {"ended", "dropped"}, gone \/ pc = "ended",
         UNCHANGED <<recorder, ticks, pending, gone, lines>>
  PROVE  StreamInv'
<1>1. /\ finished' = (finished \/ recorder) /\ queue' = <<>>
      /\ recorded' = IF recorder /\ ~finished THEN recorded \union {StopLine}
                     ELSE recorded
  BY FinishIs
<1>2. StreamTypes /\ ToldOnce /\ Agreed /\ StopsOnce
  BY DEF StreamInv
<1>3. StopLine \in Kinds \X Nat /\ StopLine[1] = "stop"
  BY DEF StopLine, Kinds
<1>4. StreamTypes'
  BY <1>1, <1>2, <1>3 DEF StreamTypes
<1>5. DOMAIN queue' = {}
  BY <1>1
<1>6. ToldOnce'
  <2>1. \A i \in DOMAIN lines : IsOld(lines[i])'
    <3>1. TAKE i \in DOMAIN lines
    <3>2. lines[i] \in Kinds \X Nat /\ IsOld(lines[i])
      BY <1>2 DEF StreamTypes, ToldOnce
    <3>3. ticks' \in Nat /\ ticks <= ticks' /\ pending' \in {pending, <<>>}
          /\ (finished => finished')
      BY <1>1, <1>2 DEF StreamTypes
    <3>4. QED
      BY <1>2, <3>2, <3>3, OldStaysOld
  <2>2. (\A i \in DOMAIN lines : IsOld(lines[i]))'
    BY <2>1 DEF IsOld
  <2>3. QED
    BY <1>1, <1>2, <1>5, <2>2 DEF ToldOnce, Out!IsInjective
<1>7. Agreed'
  <2>1. pc = "ended" => DOMAIN queue = {}
    BY <1>2 DEF StreamTypes
  <2>2. ASSUME ~gone, NEW e \in recorded, recorder
        PROVE  \/ e[1] = "stop" \/ e = <<"start", 0>>
               \/ \E i \in DOMAIN lines : lines[i] = e
    BY <1>2, <2>1, <2>2 DEF Agreed, IsTold
  <2>3. QED
    BY <1>1, <1>2, <1>3, <1>5, <2>2 DEF Agreed, IsTold
<1>8. StopsOnce'
  <2>1. Out!Stops' = IF finished' THEN {StopLine} ELSE {}
    <3>1. CASE recorder /\ ~finished
      <4>1. Out!Stops = {}
        BY <1>2, <3>1 DEF StopsOnce
      <4>2. QED
        BY <1>1, <1>3, <3>1, <4>1 DEF Out!Stops
    <3>2. CASE ~(recorder /\ ~finished)
      <4>1. finished' = finished /\ recorded' = recorded
        BY <1>1, <1>2, <3>2 DEF StreamTypes, StopsOnce
      <4>2. QED
        BY <1>2, <4>1 DEF StopsOnce, Out!Stops
    <3>3. QED
      BY <3>1, <3>2
  <2>2. \A i \in DOMAIN lines : lines[i][1] = "stop" => i = Len(lines)
    BY <1>2 DEF StopsOnce
  <2>3. recorder /\ ~gone => Len(lines) > 0 /\ lines[Len(lines)] = StopLine
    <3>1. pc = "ended" => queue = <<>>
      BY <1>2 DEF StreamTypes
    <3>2. QED
      BY <1>2, <3>1 DEF StopsOnce, Over
  <2>4. Over' /\ pc' # "emit"
    BY DEF Over
  <2>5. finished' => recorder'
    BY <1>1, <1>2 DEF StopsOnce
  <2>6. pc' = "dropped" /\ recorder' => finished'
    BY <1>1
  <2>7. QED
    BY <1>1, <2>1, <2>2, <2>3, <2>4, <2>5, <2>6 DEF StopsOnce
<1>9. QED
  BY <1>4, <1>6, <1>7, <1>8 DEF StreamInv

\* finish queues the stop mark, alone and once.
LEMMA StopMarkKeepsStream ==
  ASSUME StreamInv, NEW failed, Out!EmitStopMark(failed)
  PROVE  StreamInv' /\ (Out!Fire(1, failed) \/ UNCHANGED <<now, window, spawns>>)
<1>1. /\ pc = "finish" /\ pc' = "emit" /\ then' = "ended"
      /\ Out!Finish(TRUE, failed)
      /\ UNCHANGED <<recorder, ticks, pending, gone, lines>>
  BY DEF Out!EmitStopMark
<1>2. StreamTypes /\ ToldOnce /\ Agreed /\ StopsOnce
  BY DEF StreamInv
<1>3. ~finished /\ Out!Stops = {} /\ \A i \in DOMAIN lines : lines[i][1] # "stop"
  <2>1. ~Over
    BY <1>1 DEF Over
  <2>2. QED
    BY <2>1, NoStopYet
<1>4. /\ finished' = recorder
      /\ recorded' = IF recorder THEN recorded \union {StopLine} ELSE recorded
      /\ queue' = IF recorder THEN <<StopLine>> ELSE <<>>
      /\ Out!Fire(1, failed) \/ UNCHANGED <<now, window, spawns>>
  BY <1>1, <1>2, <1>3, FinishIs DEF StreamTypes
<1>5. StopLine \in Kinds \X Nat /\ StopLine[1] = "stop" /\ StopLine[2] = 0
  BY DEF StopLine, Kinds
<1>6. /\ queue' \in Seq(Kinds \X Nat)
      /\ \A j \in DOMAIN queue' : queue'[j] = StopLine /\ j = 1 /\ recorder
      /\ recorder => 1 \in DOMAIN queue'
  BY <1>4, <1>5
<1>7. StreamTypes'
  <2>1. recorded' \subseteq Kinds \X Nat
    BY <1>2, <1>4, <1>5 DEF StreamTypes
  <2>2. QED
    BY <1>1, <1>2, <1>4, <1>6, <2>1 DEF StreamTypes
<1>8. ToldOnce'
  <2>1. \A i \in DOMAIN lines : IsOld(lines[i])'
    <3>1. TAKE i \in DOMAIN lines
    <3>2. lines[i] \in Kinds \X Nat /\ IsOld(lines[i])
      BY <1>2 DEF StreamTypes, ToldOnce
    <3>3. ticks' \in Nat /\ ticks <= ticks'
      BY <1>1, <1>2 DEF StreamTypes
    <3>4. pending' \in {pending, <<>>}
      BY <1>1
    <3>5. finished => finished'
      BY <1>3, Zenon
    <3>6. QED
      BY <1>1, <1>2, <3>2, <3>3, <3>4, <3>5, OldStaysOld
  <2>2. (\A i \in DOMAIN lines : IsOld(lines[i]))'
    BY <1>1, <2>1 DEF IsOld
  <2>3. (\A j \in DOMAIN queue : IsOld(queue[j]))'
    BY <1>4, <1>5, <1>6 DEF IsOld
  <2>4. \A i \in DOMAIN lines, j \in DOMAIN queue' : lines[i] # queue'[j]
    BY <1>3, <1>5, <1>6
  <2>5. QED
    BY <1>1, <1>2, <1>6, <2>2, <2>3, <2>4 DEF ToldOnce, Out!IsInjective
<1>9. Agreed'
  <2>1. DOMAIN queue = {}
    BY <1>1, <1>2 DEF StreamTypes
  <2>2. ASSUME ~gone, NEW e \in recorded, recorder
        PROVE  \/ e[1] = "stop" \/ e = <<"start", 0>>
               \/ \E i \in DOMAIN lines : lines[i] = e
    BY <1>2, <2>1, <2>2 DEF Agreed, IsTold
  <2>3. QED
    BY <1>1, <1>2, <1>4, <1>5, <1>6, <2>2 DEF Agreed, IsTold
<1>10. StopsOnce'
  <2>1. Out!Stops' = IF finished' THEN {StopLine} ELSE {}
    BY <1>3, <1>4, <1>5 DEF Out!Stops
  <2>2. recorder => queue' # <<>>
    BY <1>6
  <2>3. Over'
    BY <1>1 DEF Over
  <2>4. QED
    BY <1>1, <1>3, <1>4, <2>1, <2>2, <2>3 DEF StopsOnce
<1>11. QED
  BY <1>4, <1>7, <1>8, <1>9, <1>10 DEF StreamInv

\* The consumer reads the next line.
LEMMA LineGoesOut ==
  ASSUME StreamInv, pc = "emit", queue # <<>>, ~gone,
         lines' = Append(lines, Head(queue)), queue' = Tail(queue),
         UNCHANGED <<recorder, ticks, pending, finished, pc, then, recorded, gone>>
  PROVE  StreamInv'
<1>1. StreamTypes /\ ToldOnce /\ Agreed /\ StopsOnce
  BY DEF StreamInv
<1>2. lines \in Seq(Kinds \X Nat) /\ queue \in Seq(Kinds \X Nat)
  BY <1>1 DEF StreamTypes
<1>3. PICK n \in Nat : n = Len(lines)
  BY <1>2
<1>4. PICK m \in Nat : m = Len(queue) - 1
  <2>1. Len(queue) - 1 \in Nat
    BY <1>2
  <2>2. QED
    BY <2>1, Zenon
<1>5. Len(queue) = m + 1
  BY <1>2, <1>4
<1>6. /\ lines' \in Seq(Kinds \X Nat) /\ Len(lines') = n + 1
      /\ lines'[n + 1] = queue[1] /\ \A i \in 1..n : lines'[i] = lines[i]
  BY <1>2, <1>3
<1>7. /\ queue' \in Seq(Kinds \X Nat) /\ Len(queue') = m
      /\ \A j \in 1..m : queue'[j] = queue[j + 1]
  BY <1>2, <1>5
<1>8. /\ DOMAIN lines = 1..n /\ DOMAIN lines' = 1..(n + 1)
      /\ DOMAIN queue = 1..(m + 1) /\ DOMAIN queue' = 1..m
      /\ \A i \in 1..(n + 1) : i \in 1..n \/ i = n + 1
      /\ \A j \in 1..m : j + 1 \in 1..(m + 1) /\ j + 1 # 1
      /\ \A j \in 1..(m + 1) : j = 1 \/ (j - 1 \in 1..m /\ (j - 1) + 1 = j)
      /\ 1 \in 1..(m + 1) /\ n + 1 \in 1..(n + 1) /\ n + 1 \notin 1..n
      /\ \A i \in 1..n : i \in 1..(n + 1) /\ i # n + 1
  BY <1>2, <1>3, <1>5, <1>6, <1>7
<1>9. StreamTypes'
  BY <1>1, <1>6, <1>7 DEF StreamTypes
<1>10. ToldOnce'
  <2>1. ASSUME NEW a \in 1..(n + 1), NEW b \in 1..(n + 1), lines'[a] = lines'[b]
        PROVE  a = b
    <3>1. \A i \in 1..n : lines[i] # queue[1]
      BY <1>1, <1>8 DEF ToldOnce
    <3>2. \A i, k \in 1..n : lines[i] = lines[k] => i = k
      BY <1>1, <1>8 DEF ToldOnce, Out!IsInjective
    <3>3. QED
      BY <1>6, <1>8, <2>1, <3>1, <3>2
  <2>2. ASSUME NEW a \in 1..m, NEW b \in 1..m, queue'[a] = queue'[b]
        PROVE  a = b
    <3>1. a + 1 \in 1..(m + 1) /\ b + 1 \in 1..(m + 1) /\ queue[a + 1] = queue[b + 1]
      BY <1>7, <1>8, <2>2
    <3>2. a + 1 = b + 1
      BY <1>1, <1>8, <3>1 DEF ToldOnce, Out!IsInjective
    <3>3. QED
      BY <3>2
  <2>3. ASSUME NEW i \in 1..(n + 1), NEW j \in 1..m
        PROVE  lines'[i] # queue'[j]
    <3>1. j + 1 \in 1..(m + 1) /\ j + 1 # 1 /\ queue'[j] = queue[j + 1]
      BY <1>7, <1>8
    <3>2. queue[1] # queue[j + 1]
      BY <1>1, <1>8, <3>1 DEF ToldOnce, Out!IsInjective
    <3>3. i \in 1..n => lines[i] # queue[j + 1]
      BY <1>1, <1>8, <3>1 DEF ToldOnce
    <3>4. QED
      BY <1>6, <1>8, <3>1, <3>2, <3>3
  <2>4. (\A i \in DOMAIN lines : IsOld(lines[i]))'
    <3>1. \A i \in 1..n : IsOld(lines[i])
      BY <1>1, <1>8 DEF ToldOnce
    <3>2. IsOld(queue[1])
      BY <1>1, <1>8 DEF ToldOnce
    <3>3. \A i \in 1..(n + 1) : lines'[i] = queue[1] \/ (i \in 1..n /\ lines'[i] = lines[i])
      BY <1>6, <1>8
    <3>4. QED
      BY <1>8, <3>1, <3>2, <3>3 DEF IsOld
  <2>5. (\A j \in DOMAIN queue : IsOld(queue[j]))'
    <3>1. \A j \in 1..(m + 1) : IsOld(queue[j])
      BY <1>1, <1>8 DEF ToldOnce
    <3>2. QED
      BY <1>7, <1>8, <3>1 DEF IsOld
  <2>6. QED
    BY <1>8, <2>1, <2>2, <2>3, <2>4, <2>5 DEF ToldOnce, Out!IsInjective
<1>11. Agreed'
  <2>1. ASSUME recorder
        PROVE  /\ \A i \in 1..(n + 1) : lines'[i][1] # "frame" => lines'[i] \in recorded
               /\ \A j \in 1..m : queue'[j][1] # "frame" => queue'[j] \in recorded
               /\ \A e \in recorded : e[1] # "frame"
    <3>1. /\ \A i \in 1..n : lines[i][1] # "frame" => lines[i] \in recorded
          /\ \A j \in 1..(m + 1) : queue[j][1] # "frame" => queue[j] \in recorded
          /\ \A e \in recorded : e[1] # "frame"
      BY <1>1, <1>8, <2>1 DEF Agreed
    <3>2. QED
      BY <1>6, <1>7, <1>8, <3>1
  <2>2. ASSUME recorder, NEW e \in recorded
        PROVE  \/ e[1] = "stop" \/ e = <<"start", 0>>
               \/ \E i \in 1..(n + 1) : lines'[i] = e
               \/ \E j \in 1..m : queue'[j] = e
    <3>1. \/ e[1] = "stop" \/ e = <<"start", 0>>
          \/ \E i \in 1..n : lines[i] = e
          \/ \E j \in 1..(m + 1) : queue[j] = e
      BY <1>1, <1>8, <2>2 DEF Agreed, IsTold
    <3>2. ASSUME NEW j \in 1..(m + 1), queue[j] = e
          PROVE  \/ \E i \in 1..(n + 1) : lines'[i] = e
                 \/ \E k \in 1..m : queue'[k] = e
      <4>1. CASE j = 1
        <5>1. n + 1 \in 1..(n + 1) /\ lines'[n + 1] = e
          BY <1>6, <1>8, <3>2, <4>1
        <5>2. QED
          BY <5>1
      <4>2. CASE j # 1
        <5>1. j - 1 \in 1..m /\ (j - 1) + 1 = j
          BY <1>8, <4>2
        <5>2. queue'[j - 1] = e
          BY <1>7, <3>2, <5>1
        <5>3. QED
          BY <5>1, <5>2
      <4>3. QED
        BY <4>1, <4>2
    <3>3. ASSUME NEW i \in 1..n, lines[i] = e
          PROVE  \E k \in 1..(n + 1) : lines'[k] = e
      BY <1>6, <1>8, <3>3
    <3>4. QED
      BY <3>1, <3>2, <3>3
  <2>3. QED
    BY <1>8, <2>1, <2>2 DEF Agreed, IsTold
<1>12. StopsOnce'
  <2>1. Out!Stops' = IF finished' THEN {StopLine} ELSE {}
    BY <1>1 DEF StopsOnce, Out!Stops
  <2>2. Over' <=> Over
    BY DEF Over
  <2>3. then = "ended" => queue = <<StopLine>>
    BY <1>1 DEF StopsOnce
  <2>4. then = "ended" => queue' = <<>> /\ m = 0 /\ queue[1] = StopLine
    BY <1>5, <2>3
  <2>5. ASSUME NEW i \in 1..(n + 1), lines'[i][1] = "stop"
        PROVE  i = n + 1 /\ queue' = <<>>
    <3>1. ASSUME i \in 1..n
          PROVE  FALSE
      <4>1. lines[i][1] = "stop"
        BY <1>6, <2>5, <3>1
      <4>2. QED
        BY <1>1, <1>8, <3>1, <4>1 DEF StopsOnce
    <3>2. i = n + 1
      BY <1>8, <3>1
    <3>3. queue[1][1] = "stop"
      BY <1>6, <2>5, <3>2
    <3>4. IsOld(queue[1])
      BY <1>1, <1>8 DEF ToldOnce
    <3>5. finished
      BY <3>3, <3>4 DEF IsOld
    <3>6. then = "ended"
      BY <1>1, <3>5 DEF StopsOnce, Over
    <3>7. QED
      BY <2>4, <3>2, <3>6
  <2>6. (\A i \in DOMAIN lines : lines[i][1] = "stop" => i = Len(lines) /\ queue = <<>>)'
    BY <1>6, <1>8, <2>5
  <2>7. Over => Len(lines') > 0 /\ lines'[Len(lines')] = StopLine
    <3>1. Over => then = "ended"
      BY DEF Over
    <3>2. n + 1 > 0
      BY <1>3
    <3>3. QED
      BY <1>6, <2>4, <3>1, <3>2
  <2>8. /\ finished' => recorder' /\ Over'
        /\ pc' = "emit" /\ then' = "ended" => (recorder' => finished')
        /\ pc' # "dropped"
    BY <1>1, <2>2 DEF StopsOnce
  <2>9. pc' = "emit" /\ then' = "ended" => queue' \in {<<>>, <<StopLine>>}
    BY <2>4
  <2>10. QED
    BY <2>1, <2>2, <2>6, <2>7, <2>8, <2>9 DEF StopsOnce
<1>13. QED
  BY <1>9, <1>10, <1>11, <1>12 DEF StreamInv

\* A line that is written was made by one tick, and is not made again.
LEMMA EmitLineKeepsStream ==
  ASSUME StreamInv, NEW failed, Out!EmitLine(failed)
  PROVE  StreamInv' /\ (Out!Fire(1, failed) \/ UNCHANGED <<now, window, spawns>>)
<1>1. /\ pc = "emit" /\ queue # <<>>
      /\ UNCHANGED <<recorder, pending, ticks, gone>>
  BY DEF Out!EmitLine
<1>2. CASE ~gone
  <2>1. /\ lines' = Append(lines, Head(queue)) /\ queue' = Tail(queue)
        /\ UNCHANGED <<pc, then, recorded, finished, now, window, spawns>>
    BY <1>2 DEF Out!EmitLine, Out!sink
  <2>2. QED
    BY <1>1, <1>2, <2>1, LineGoesOut
<1>3. CASE gone /\ then # "ended"
  <2>1. /\ pc' = "ended" /\ Out!Finish(FALSE, failed) /\ lines' = lines
    BY <1>3 DEF Out!EmitLine
  <2>2. StreamInv'
    BY <1>1, <1>3, <2>1, SilentFinish
  <2>3. Out!Fire(1, failed) \/ UNCHANGED <<now, window, spawns>>
    BY <2>1, FinishIs
  <2>4. QED
    BY <2>2, <2>3
<1>4. CASE gone /\ then = "ended"
  <2>1. /\ pc' = "ended" /\ queue' = <<>>
        /\ UNCHANGED <<recorded, finished, lines, now, window, spawns>>
    BY <1>4 DEF Out!EmitLine, Out!sink
  <2>2. StreamTypes /\ ToldOnce /\ Agreed /\ StopsOnce
    BY DEF StreamInv
  <2>3. DOMAIN queue' = {} /\ queue' \in Seq(Kinds \X Nat)
    BY <2>1
  <2>4. StreamTypes'
    BY <1>1, <2>1, <2>2, <2>3 DEF StreamTypes
  <2>5. ToldOnce'
    <3>1. (\A i \in DOMAIN lines : IsOld(lines[i]))'
      BY <1>1, <2>1, <2>2 DEF ToldOnce, IsOld
    <3>2. QED
      BY <2>1, <2>2, <2>3, <3>1 DEF ToldOnce, Out!IsInjective
  <2>6. Agreed'
    BY <1>1, <1>4, <2>1, <2>2, <2>3 DEF Agreed
  <2>7. StopsOnce'
    <3>1. Out!Stops' = Out!Stops
      BY <2>1 DEF Out!Stops
    <3>2. Over' /\ pc' # "emit" /\ pc' # "dropped" /\ gone'
      BY <1>1, <1>4, <2>1 DEF Over
    <3>3. QED
      BY <1>1, <2>1, <2>2, <3>1, <3>2 DEF StopsOnce
  <2>8. QED
    BY <2>1, <2>4, <2>5, <2>6, <2>7 DEF StreamInv
<1>5. QED
  BY <1>2, <1>3, <1>4

\* Every action of a session keeps both invariants.
LEMMA StreamSteps == SinkInv /\ StreamInv /\ [Out!Next]_outVars => SinkInv' /\ StreamInv'
<1> SUFFICES ASSUME SinkInv, StreamInv, [Out!Next]_outVars
             PROVE  SinkInv' /\ StreamInv'
  OBVIOUS
<1>1. ASSUME UNCHANGED <<now, window, spawns>>
      PROVE  SinkInv'
  BY <1>1 DEF SinkInv, Remembers, Out!HooksWithinCap
<1>2. ASSUME UNCHANGED <<recorder, gone, finished, ticks, pending, pc, then, queue,
                         lines, recorded>>
      PROVE  StreamInv'
  BY <1>2 DEF StreamInv, StreamTypes, ToldOnce, IsOld, Agreed, IsTold, StopsOnce,
              Over, Out!Stops, Out!IsInjective
<1>3. CASE UNCHANGED outVars
  BY <1>1, <1>2, <1>3 DEF outVars
<1>4. ASSUME NEW failed \in 0..1, NEW facts \in 0..MaxFacts, Out!Tick(facts, failed)
      PROVE  SinkInv' /\ StreamInv'
  BY <1>4, TickKeepsStream, FireKeepsSink
<1>5. ASSUME NEW failed \in 0..1,
             \/ Out!Fire(1, failed) \/ UNCHANGED <<now, window, spawns>>
      PROVE  SinkInv'
  <2>1. 1 \in Nat
    OBVIOUS
  <2>2. QED
    BY <1>1, <1>5, <2>1, FireKeepsSink
<1>6. ASSUME NEW failed \in 0..1,
             Out!PanickedTick(failed) \/ Out!EmitLine(failed) \/ Out!EmitStopMark(failed)
      PROVE  SinkInv' /\ StreamInv'
  BY <1>5, <1>6, PanicKeepsStream, EmitLineKeepsStream, StopMarkKeepsStream
<1>7. ASSUME NEW failed \in 0..1, Out!Drop(failed)
      PROVE  SinkInv' /\ StreamInv'
  <2>1. /\ pc = "ended" /\ pc' = "dropped" /\ Out!Finish(FALSE, failed)
        /\ UNCHANGED <<recorder, pending, ticks, gone, lines>>
    BY <1>7 DEF Out!Drop
  <2>2. StreamInv'
    BY <2>1, SilentFinish
  <2>3. Out!Fire(1, failed) \/ UNCHANGED <<now, window, spawns>>
    BY <2>1, FinishIs
  <2>4. QED
    BY <1>5, <2>2, <2>3
<1>8. CASE Out!Emitted
  <2>1. /\ pc = "emit" /\ queue = <<>> /\ pc' = then
        /\ UNCHANGED <<recorder, pending, ticks, finished, queue, gone, now, window,
                       spawns, lines, recorded>>
    BY <1>8 DEF Out!Emitted, Out!sink
  <2>2. StreamTypes /\ ToldOnce /\ Agreed /\ StopsOnce
    BY DEF StreamInv
  <2>3. then \in {"sleep", "finish", "ended"}
    BY <2>1, <2>2 DEF StreamTypes
  <2>4. StreamTypes'
    BY <2>1, <2>2, <2>3 DEF StreamTypes
  <2>5. ToldOnce' /\ Agreed'
    BY <2>1, <2>2 DEF ToldOnce, IsOld, Agreed, IsTold, Out!IsInjective
  <2>6. StopsOnce'
    <3>1. (Over' <=> Over) /\ pc' # "emit" /\ pc' # "dropped"
      BY <2>1, <2>3 DEF Over
    <3>2. Out!Stops' = Out!Stops
      BY <2>1 DEF Out!Stops
    <3>3. QED
      BY <2>1, <2>2, <3>1, <3>2 DEF StopsOnce
  <2>7. QED
    BY <1>1, <2>1, <2>4, <2>5, <2>6 DEF StreamInv
<1>9. CASE Out!Sleep
  <2>1. /\ pc = "sleep" /\ pc' = "tick"
        /\ UNCHANGED <<recorder, pending, ticks, finished, queue, gone, lines, recorded>>
    BY <1>9 DEF Out!Sleep
  <2>2. StreamTypes /\ ToldOnce /\ Agreed /\ StopsOnce
    BY DEF StreamInv
  <2>3. StreamTypes'
    BY <2>1, <2>2 DEF StreamTypes
  <2>4. ToldOnce' /\ Agreed'
    BY <2>1, <2>2 DEF ToldOnce, IsOld, Agreed, IsTold, Out!IsInjective
  <2>5. StopsOnce'
    BY <2>1, <2>2 DEF StopsOnce, Over, Out!Stops
  <2>6. QED
    BY <1>9, <2>3, <2>4, <2>5, SleepKeepsSink DEF StreamInv
<1>10. CASE Out!HangUp
  <2>1. /\ gone' = TRUE
        /\ UNCHANGED <<recorder, pending, ticks, finished, pc, queue, then, now, window,
                       spawns, lines, recorded>>
    BY <1>10 DEF Out!HangUp, Out!sink
  <2>2. StreamTypes /\ ToldOnce /\ Agreed /\ StopsOnce
    BY DEF StreamInv
  <2>3. StreamTypes'
    BY <2>1, <2>2 DEF StreamTypes
  <2>4. ToldOnce' /\ Agreed'
    BY <2>1, <2>2 DEF ToldOnce, IsOld, Agreed, IsTold, Out!IsInjective
  <2>5. StopsOnce'
    BY <2>1, <2>2 DEF StopsOnce, Over, Out!Stops
  <2>6. QED
    BY <1>1, <2>1, <2>3, <2>4, <2>5 DEF StreamInv
<1>11. QED
  BY <1>3, <1>4, <1>6, <1>7, <1>8, <1>9, <1>10 DEF Out!Next

\* What the invariant says of the stream, the recording and the hook.
LEMMA StreamHolds == SinkInv /\ StreamInv => SessionIsToldOnce
<1> SUFFICES ASSUME SinkInv, StreamInv PROVE SessionIsToldOnce
  OBVIOUS
<1>1. StreamTypes /\ ToldOnce /\ Agreed /\ StopsOnce
  BY DEF StreamInv
<1>2. Out!StreamAgrees
  <2>1. Out!Range(lines) = {lines[i] : i \in DOMAIN lines}
    BY DEF Out!Range
  <2>2. recorder => Out!Events(lines) \subseteq recorded
    BY <1>1, <2>1 DEF Agreed, Out!Events
  <2>3. ASSUME recorder, ~gone, pc # "emit",
               NEW e \in recorded \ (Out!Stops \union {<<"start", 0>>})
        PROVE  e \in Out!Events(lines)
    <3>1. DOMAIN queue = {}
      BY <1>1, <2>3 DEF StreamTypes
    <3>2. e[1] # "stop" /\ e # <<"start", 0>>
      BY <2>3 DEF Out!Stops
    <3>3. \E i \in DOMAIN lines : lines[i] = e
      BY <1>1, <2>3, <3>1, <3>2 DEF Agreed, IsTold
    <3>4. QED
      BY <1>1, <2>1, <2>3, <3>3 DEF Agreed, Out!Events
  <2>4. QED
    BY <1>1, <2>2, <2>3 DEF Out!StreamAgrees, ToldOnce
<1>3. Out!StopIsLast
  <2>1. Out!Cardinality(Out!Stops) <= 1
    <3>1. \A S : Cardinality(S) = Out!Cardinality(S)
      BY Zenon DEF Cardinality, Out!Cardinality
    <3>2. Cardinality({}) = 0 /\ Cardinality({StopLine}) = 1
      BY FS_EmptySet, FS_Singleton
    <3>3. CASE finished
      BY <1>1, <3>1, <3>2, <3>3 DEF StopsOnce
    <3>4. CASE ~finished
      BY <1>1, <3>1, <3>2, <3>4 DEF StopsOnce
    <3>5. QED
      BY <3>3, <3>4
  <2>2. \A i \in DOMAIN lines : lines[i] \in Out!Stops => i = Len(lines)
    BY <1>1 DEF StopsOnce, Out!Stops
  <2>3. ASSUME pc = "dropped", recorder
        PROVE  Out!Stops = {StopLine}
    BY <1>1, <2>3 DEF StopsOnce
  <2>4. ASSUME pc = "dropped", recorder, ~gone
        PROVE  Out!Last(lines) \in Out!Stops
    <3>1. queue = <<>> /\ Over
      BY <1>1, <2>4 DEF StreamTypes, Over
    <3>2. lines[Len(lines)] = StopLine
      BY <1>1, <2>4, <3>1 DEF StopsOnce
    <3>3. QED
      BY <2>3, <2>4, <3>2 DEF Out!Last
  <2>5. QED
    BY <2>1, <2>2, <2>3, <2>4 DEF Out!StopIsLast
<1>4. Out!HooksWithinCap
  BY DEF SinkInv
<1>5. QED
  BY <1>2, <1>3, <1>4 DEF SessionIsToldOnce, Out!SessionIsToldOnce

\* A session tells the same story to its recording, its hook and its stream,
\* for any caps and lengths: no line twice, no event on the stream that is not
\* recorded and none recorded that a listening consumer misses (but a start mark
\* whose tick panicked), one stop mark and nothing behind it, and no minute with
\* more hooks than the cap - however ticks, panics, failed spawns and a hang-up
\* fall (run_json, Engine::finish, Engine::drop and EventSink of main.rs and
\* collector.rs).
THEOREM SessionsAreToldOnce == Spec2 => []SessionIsToldOnce
<1>1. Out!Init => SinkInv /\ StreamInv
  BY SinkStart, StreamStart
<1>2. QED
  BY <1>1, StreamPart, StreamSteps, StreamHolds, PTL

-----------------------------------------------------------------------------
(* Sums over finite sets, as the folds of the community modules define them *)

\* g is the function that a fold over S of the values v computes.
Iterates(S, v, g) ==
  g = [s \in SUBSET S |-> IF s = {} THEN 0
                          ELSE v[CHOOSE x \in s : TRUE] + g[s \ {CHOOSE x \in s : TRUE}]]

Iterated(S, v) == CHOOSE g : Iterates(S, v, g)

\* The sum itself.
SumOf(S, v) == Iterated(S, v)[S]

Foldable(S, v) == \E g : Iterates(S, v, g)

\* Every function a fold computes agrees with every other on what they share.
LEMMA IterationsAgree ==
  ASSUME NEW S, IsFiniteSet(S), NEW T \in SUBSET S, NEW v, NEW g, NEW h,
         Iterates(S, v, g), Iterates(T, v, h)
  PROVE  g[T] = h[T]
<1> DEFINE Odd == {t \in SUBSET T : g[t] # h[t]}
<1>0. IsFiniteSet(T)
  BY FS_Subset
<1>1. SUFFICES ASSUME Odd # {}
               PROVE  FALSE
  OBVIOUS
<1>2. FiniteSubsetsOf(T) = SUBSET T
  BY <1>0, FS_FiniteSubsetsOfFinite
<1>3. IsWellFoundedOn(StrictSubsetOrdering(T), SUBSET T)
  BY <1>2, FS_StrictSubsetOrderingWellFounded
<1>4. \E t \in Odd : \A u \in Odd : ~ <<u, t>> \in StrictSubsetOrdering(T)
  <2>1. Odd \subseteq SUBSET T
    OBVIOUS
  <2> HIDE DEF Odd
  <2> QED BY <1>1, <1>3, <2>1, WFMin
<1>5. PICK t \in Odd : \A u \in Odd : ~ <<u, t>> \in StrictSubsetOrdering(T)
  BY <1>4
<1>6. t \in SUBSET T /\ t \in SUBSET S /\ g[t] # h[t]
  OBVIOUS
<1> DEFINE c == CHOOSE x \in t : TRUE
           r == t \ {c}
<1>7. CASE t = {}
  BY <1>6, <1>7 DEF Iterates
<1>8. CASE t # {}
  <2>1. c \in t
    BY <1>8
  <2>2. <<r, t>> \in StrictSubsetOrdering(T)
    BY <1>6, <2>1 DEF StrictSubsetOrdering
  <2>3. r \in SUBSET T
    BY <1>6
  <2>4. g[r] = h[r]
    BY <1>5, <2>2, <2>3
  <2>5. g[t] = v[c] + g[r]
    BY <1>6, <1>8 DEF Iterates
  <2>6. h[t] = v[c] + h[r]
    BY <1>6, <1>8 DEF Iterates
  <2>7. QED
    BY <1>6, <2>4, <2>5, <2>6
<1>9. QED
  BY <1>7, <1>8

\* A fold over a finite set has a value.
LEMMA FoldsExist ==
  ASSUME NEW S, IsFiniteSet(S), NEW v
  PROVE  Foldable(S, v)
<1> DEFINE Bad == {T \in SUBSET S : ~ Foldable(T, v)}
<1>1. SUFFICES ASSUME Bad # {}
               PROVE  FALSE
  OBVIOUS
<1>2. FiniteSubsetsOf(S) = SUBSET S
  BY FS_FiniteSubsetsOfFinite
<1>3. IsWellFoundedOn(StrictSubsetOrdering(S), SUBSET S)
  BY <1>2, FS_StrictSubsetOrderingWellFounded
<1>4. \E T \in Bad : \A U \in Bad : ~ <<U, T>> \in StrictSubsetOrdering(S)
  <2>1. Bad \subseteq SUBSET S
    OBVIOUS
  <2> HIDE DEF Bad
  <2> QED BY <1>1, <1>3, <2>1, WFMin
<1>5. PICK T \in Bad : \A U \in Bad : ~ <<U, T>> \in StrictSubsetOrdering(S)
  BY <1>4
<1>6. T \in SUBSET S /\ ~ Foldable(T, v) /\ IsFiniteSet(T)
  BY FS_Subset
<1>7. \A t \in SUBSET T : t # T => Foldable(t, v) /\ IsFiniteSet(t)
  <2>1. TAKE t \in SUBSET T
  <2>2. HAVE t # T
  <2>3. <<t, T>> \in StrictSubsetOrdering(S)
    BY <1>6, <2>2 DEF StrictSubsetOrdering
  <2>4. Foldable(t, v)
    BY <1>5, <1>6, <2>3
  <2>5. QED
    BY <1>6, <2>4, FS_Subset
<1>8. \A t \in SUBSET T : t # T => Iterates(t, v, Iterated(t, v))
  BY <1>7 DEF Foldable, Iterated
<1> DEFINE c(t) == CHOOSE x \in t : TRUE
           G == [t \in SUBSET T |->
                   IF t = {} THEN 0
                   ELSE v[c(t)] + SumOf(t \ {c(t)}, v)]
<1>9. \A t \in SUBSET T : t # T => G[t] = SumOf(t, v)
  <2>1. TAKE t \in SUBSET T
  <2>2. HAVE t # T
  <2>3. Iterates(t, v, Iterated(t, v))
    BY <1>8, <2>2
  <2>4. CASE t = {}
    <3>1. Iterated(t, v)[t] = 0
      BY <2>3, <2>4 DEF Iterates
    <3>2. QED
      BY <2>4, <3>1 DEF SumOf
  <2>5. CASE t # {}
    <3> DEFINE r == t \ {c(t)}
    <3>1. r \in SUBSET t /\ r \in SUBSET T /\ r # T
      BY <2>5
    <3>2. Iterates(r, v, Iterated(r, v))
      BY <1>8, <3>1
    <3>3. Iterated(t, v)[t] = v[c(t)] + Iterated(t, v)[r]
      BY <2>3, <2>5 DEF Iterates
    <3>4. Iterated(t, v)[r] = Iterated(r, v)[r]
      <4>1. IsFiniteSet(t)
        BY <1>7, <2>2
      <4> QED BY <2>3, <3>1, <3>2, <4>1, IterationsAgree
    <3>5. QED
      BY <2>5, <3>3, <3>4 DEF SumOf
  <2>6. QED
    BY <2>4, <2>5
<1>10. \A t \in SUBSET T : t # {} => G[t] = v[c(t)] + G[t \ {c(t)}]
  <2>1. TAKE t \in SUBSET T
  <2>2. HAVE t # {}
  <2>3. t \ {c(t)} \in SUBSET T /\ t \ {c(t)} # T
    BY <2>2
  <2>4. G[t \ {c(t)}] = SumOf(t \ {c(t)}, v)
    BY <1>9, <2>3
  <2>5. QED
    BY <2>2, <2>4
<1>11. Iterates(T, v, G)
  <2>1. \A t \in SUBSET T : G[t] = IF t = {} THEN 0 ELSE v[c(t)] + G[t \ {c(t)}]
    BY <1>10
  <2>2. G = [t \in SUBSET T |-> G[t]]
    OBVIOUS
  <2> HIDE DEF G
  <2>3. G = [t \in SUBSET T |-> IF t = {} THEN 0 ELSE v[c(t)] + G[t \ {c(t)}]]
    BY <2>1, <2>2
  <2>4. QED
    BY <2>3 DEF Iterates
<1>12. QED
  BY <1>6, <1>11 DEF Foldable

\* The chosen iterate is one.
LEMMA SumIterates ==
  ASSUME NEW S, IsFiniteSet(S), NEW v
  PROVE  Iterates(S, v, Iterated(S, v))
BY FoldsExist DEF Foldable, Iterated

\* Of the subsets of a finite set that are of some kind, one contains no other.
LEMMA LeastSubset ==
  ASSUME NEW S, IsFiniteSet(S), NEW Kind \in SUBSET (SUBSET S), Kind # {}
  PROVE  \E T \in Kind : /\ IsFiniteSet(T)
                         /\ \A U \in SUBSET T : U # T => U \notin Kind
<1>1. FiniteSubsetsOf(S) = SUBSET S
  BY FS_FiniteSubsetsOfFinite
<1>2. IsWellFoundedOn(StrictSubsetOrdering(S), SUBSET S)
  BY <1>1, FS_StrictSubsetOrderingWellFounded
<1>3. PICK T \in Kind : \A U \in Kind : ~ <<U, T>> \in StrictSubsetOrdering(S)
  BY <1>2, WFMin
<1>4. \A U \in SUBSET T : U # T => <<U, T>> \in StrictSubsetOrdering(S)
  BY DEF StrictSubsetOrdering
<1>5. IsFiniteSet(T)
  BY FS_Subset
<1>6. \A U \in SUBSET T : U # T => U \notin Kind
  <2>1. TAKE U \in SUBSET T
  <2>2. HAVE U # T
  <2>3. <<U, T>> \in StrictSubsetOrdering(S)
    BY <1>4, <2>2
  <2>4. QED
    BY <1>3, <2>3
<1>7. QED
  BY <1>5, <1>6

\* A sum over nothing is zero.
LEMMA SumOfNone == ASSUME NEW v PROVE SumOf({}, v) = 0
<1>1. Iterates({}, v, Iterated({}, v))
  BY SumIterates, FS_EmptySet
<1>2. QED
  BY <1>1 DEF Iterates, SumOf

\* A sum is one element and the sum of the others.
LEMMA SumUnfolds ==
  ASSUME NEW S, IsFiniteSet(S), S # {}, NEW v
  PROVE  LET c == CHOOSE x \in S : TRUE
         IN  c \in S /\ SumOf(S, v) = v[c] + SumOf(S \ {c}, v)
<1> DEFINE c == CHOOSE x \in S : TRUE
           r == S \ {c}
<1>1. c \in S /\ r \in SUBSET S
  OBVIOUS
<1>2. Iterates(S, v, Iterated(S, v))
  BY SumIterates
<1>3. IsFiniteSet(r)
  BY FS_Subset
<1>4. Iterates(r, v, Iterated(r, v))
  BY <1>3, SumIterates
<1>5. Iterated(S, v)[S] = v[c] + Iterated(S, v)[r]
  BY <1>2 DEF Iterates
<1>6. Iterated(S, v)[r] = Iterated(r, v)[r]
  BY <1>1, <1>2, <1>4, IterationsAgree
<1>7. QED
  BY <1>1, <1>5, <1>6 DEF SumOf

\* Sums of numbers are numbers.
LEMMA SumIsNumber ==
  ASSUME NEW S, IsFiniteSet(S), NEW v, \A x \in S : v[x] \in Int
  PROVE  SumOf(S, v) \in Int
<1> DEFINE Bad == {T \in SUBSET S : SumOf(T, v) \notin Int}
<1>1. SUFFICES ASSUME Bad # {}
               PROVE  FALSE
  OBVIOUS
<1>2. PICK T \in Bad : IsFiniteSet(T) /\ \A U \in SUBSET T : U # T => U \notin Bad
  <2>1. Bad \in SUBSET (SUBSET S)
    OBVIOUS
  <2> HIDE DEF Bad
  <2> QED BY <1>1, <2>1, LeastSubset
<1>3. T \in SUBSET S /\ SumOf(T, v) \notin Int
  BY <1>2
<1>4. T # {}
  BY <1>3, SumOfNone
<1> DEFINE c == CHOOSE x \in T : TRUE
<1>5. c \in T /\ SumOf(T, v) = v[c] + SumOf(T \ {c}, v)
  BY <1>2, <1>4, SumUnfolds
<1> HIDE DEF c
<1>6. SumOf(T \ {c}, v) \in Int
  <2>1. T \ {c} \in SUBSET T /\ T \ {c} # T /\ T \ {c} \in SUBSET S
    BY <1>3, <1>5
  <2> QED BY <1>2, <2>1
<1>7. v[c] \in Int
  BY <1>3, <1>5
<1>8. QED
  BY <1>3, <1>5, <1>6, <1>7

\* A sum is any one of its numbers and the sum of the others.
LEMMA SumTakesAny ==
  ASSUME NEW S, IsFiniteSet(S), NEW v, \A x \in S : v[x] \in Int, NEW a \in S
  PROVE  SumOf(S, v) = v[a] + SumOf(S \ {a}, v)
<1> DEFINE Bad == {T \in SUBSET S :
                     \E x \in T : SumOf(T, v) # v[x] + SumOf(T \ {x}, v)}
<1>1. SUFFICES ASSUME Bad # {}
               PROVE  FALSE
  OBVIOUS
<1>2. PICK T \in Bad : IsFiniteSet(T) /\ \A U \in SUBSET T : U # T => U \notin Bad
  <2>1. Bad \in SUBSET (SUBSET S)
    OBVIOUS
  <2> HIDE DEF Bad
  <2> QED BY <1>1, <2>1, LeastSubset
<1>3. PICK x \in T : SumOf(T, v) # v[x] + SumOf(T \ {x}, v)
  BY <1>2
<1>4. T \in SUBSET S
  BY <1>2
<1> DEFINE c == CHOOSE y \in T : TRUE
           C == T \ {c}
           X == T \ {x}
           B == T \ {c, x}
<1>5. c \in T /\ SumOf(T, v) = v[c] + SumOf(C, v)
  BY <1>2, SumUnfolds
<1> HIDE DEF c
<1>6. c # x
  BY <1>3, <1>5
<1>7. /\ C \in SUBSET T /\ C # T /\ C \in SUBSET S /\ x \in C /\ B = C \ {x}
      /\ X \in SUBSET T /\ X # T /\ X \in SUBSET S /\ c \in X /\ B = X \ {c}
      /\ B \in SUBSET S
  BY <1>4, <1>5, <1>6
<1>8. SumOf(C, v) = v[x] + SumOf(B, v)
  <2>1. C \notin Bad
    BY <1>2, <1>7
  <2>2. \A y \in C : SumOf(C, v) = v[y] + SumOf(C \ {y}, v)
    BY <1>7, <2>1
  <2> HIDE DEF C, B
  <2> QED BY <1>7, <2>2
<1>9. SumOf(X, v) = v[c] + SumOf(B, v)
  <2>1. X \notin Bad
    BY <1>2, <1>7
  <2>2. \A y \in X : SumOf(X, v) = v[y] + SumOf(X \ {y}, v)
    BY <1>7, <2>1
  <2> HIDE DEF X, B
  <2> QED BY <1>7, <2>2
<1>10. v[c] \in Int /\ v[x] \in Int /\ SumOf(B, v) \in Int
  <2>1. IsFiniteSet(B) /\ \A y \in B : v[y] \in Int
    BY <1>7, FS_Subset
  <2>2. SumOf(B, v) \in Int
    BY <2>1, SumIsNumber
  <2>3. QED
    BY <1>4, <1>5, <2>2
<1>11. v[x] + SumOf(X, v) = v[c] + SumOf(C, v)
  BY <1>8, <1>9, <1>10
<1>12. QED
  BY <1>3, <1>5, <1>11

\* Where two assignments agree, so do their sums.
LEMMA SumsAgree ==
  ASSUME NEW S, IsFiniteSet(S), NEW v, NEW w, \A x \in S : v[x] = w[x]
  PROVE  SumOf(S, v) = SumOf(S, w)
<1> DEFINE Bad == {T \in SUBSET S : SumOf(T, v) # SumOf(T, w)}
<1>1. SUFFICES ASSUME Bad # {}
               PROVE  FALSE
  OBVIOUS
<1>2. PICK T \in Bad : IsFiniteSet(T) /\ \A U \in SUBSET T : U # T => U \notin Bad
  <2>1. Bad \in SUBSET (SUBSET S)
    OBVIOUS
  <2> HIDE DEF Bad
  <2> QED BY <1>1, <2>1, LeastSubset
<1>3. T \in SUBSET S /\ SumOf(T, v) # SumOf(T, w)
  BY <1>2
<1>4. T # {}
  BY <1>3, SumOfNone
<1> DEFINE c == CHOOSE x \in T : TRUE
<1>5. c \in T /\ SumOf(T, v) = v[c] + SumOf(T \ {c}, v)
  BY <1>2, <1>4, SumUnfolds
<1>6. SumOf(T, w) = w[c] + SumOf(T \ {c}, w)
  BY <1>2, <1>4, SumUnfolds
<1> HIDE DEF c
<1>7. SumOf(T \ {c}, v) = SumOf(T \ {c}, w)
  <2>1. T \ {c} \in SUBSET T /\ T \ {c} # T /\ T \ {c} \in SUBSET S
    BY <1>3, <1>5
  <2> QED BY <1>2, <2>1
<1>8. v[c] = w[c]
  BY <1>3, <1>5
<1>9. QED
  BY <1>3, <1>5, <1>6, <1>7, <1>8

\* A sum of naturals is at least each of them.
LEMMA SumIsNatural ==
  ASSUME NEW S, IsFiniteSet(S), NEW v, \A x \in S : v[x] \in Nat
  PROVE  SumOf(S, v) \in Nat /\ \A x \in S : v[x] <= SumOf(S, v)
<1> DEFINE Bad == {T \in SUBSET S : ~ 0 <= SumOf(T, v)}
<1>0. \A T \in SUBSET S : SumOf(T, v) \in Int
  <2>1. TAKE T \in SUBSET S
  <2>2. IsFiniteSet(T) /\ \A x \in T : v[x] \in Int
    BY FS_Subset
  <2> QED BY <2>2, SumIsNumber
<1>1. \A T \in SUBSET S : 0 <= SumOf(T, v)
  <2>0. SUFFICES ASSUME Bad # {}
                 PROVE  FALSE
    OBVIOUS
  <2>1. PICK T \in Bad : IsFiniteSet(T) /\ \A U \in SUBSET T : U # T => U \notin Bad
    <3>1. Bad \in SUBSET (SUBSET S)
      OBVIOUS
    <3> HIDE DEF Bad
    <3> QED BY <2>0, <3>1, LeastSubset
  <2>2. T \in SUBSET S /\ ~ 0 <= SumOf(T, v)
    BY <2>1
  <2>3. T # {}
    BY <2>2, SumOfNone
  <2> DEFINE c == CHOOSE x \in T : TRUE
  <2>4. c \in T /\ SumOf(T, v) = v[c] + SumOf(T \ {c}, v)
    BY <2>1, <2>3, SumUnfolds
  <2> HIDE DEF c
  <2>5. T \ {c} \in SUBSET T /\ T \ {c} # T /\ T \ {c} \in SUBSET S
    BY <2>2, <2>4
  <2>6. 0 <= SumOf(T \ {c}, v) /\ SumOf(T \ {c}, v) \in Int
    BY <1>0, <2>1, <2>5
  <2>7. v[c] \in Nat
    BY <2>2, <2>4
  <2>8. QED
    BY <2>2, <2>4, <2>6, <2>7
<1>2. ASSUME NEW x \in S
      PROVE  v[x] <= SumOf(S, v)
  <2>1. SumOf(S, v) = v[x] + SumOf(S \ {x}, v)
    <3>1. \A y \in S : v[y] \in Int
      OBVIOUS
    <3> QED BY <3>1, SumTakesAny
  <2>2. 0 <= SumOf(S \ {x}, v) /\ SumOf(S \ {x}, v) \in Int
    BY <1>0, <1>1
  <2>3. QED
    BY <2>1, <2>2
<1>3. QED
  BY <1>0, <1>1, <1>2

\* Rollup's totals and the sums of Figures are such sums.
LEMMA TotalIsSum ==
  ASSUME NEW rs, IsFiniteSet(rs), NEW counter, NEW v, \A r \in rs : v[r] = r[counter]
  PROVE  Row!Total(rs, counter) = SumOf(rs, v)
<1> DEFINE Iter(g) == g = [s \in SUBSET rs |->
                            IF s = {} THEN 0
                            ELSE (CHOOSE x \in s : TRUE)[counter]
                                 + g[s \ {CHOOSE x \in s : TRUE}]]
<1>1. Row!Total(rs, counter) = (CHOOSE g : Iter(g))[rs]
  BY Zenon DEF Row!Total, Row!MapThenSumSet, Row!MapThenFoldSet
<1>2. \A g : Iter(g) <=> Iterates(rs, v, g)
  <2>1. TAKE g
  <2>2. \A s \in SUBSET rs : s # {} =>
          v[CHOOSE x \in s : TRUE] = (CHOOSE x \in s : TRUE)[counter]
    OBVIOUS
  <2>3. QED
    BY <2>2 DEF Iterates
<1>3. Iterates(rs, v, CHOOSE g : Iter(g))
  <2>1. \E g : Iter(g)
    <3>1. PICK g : Iterates(rs, v, g)
      BY FoldsExist DEF Foldable
    <3>2. Iter(g)
      BY <1>2, <3>1
    <3> HIDE DEF Iter
    <3> QED BY <3>2
  <2>2. Iter(CHOOSE g : Iter(g))
    BY <2>1
  <2> HIDE DEF Iter
  <2>3. QED
    BY <1>2, <2>2
<1>4. Iterates(rs, v, Iterated(rs, v))
  BY SumIterates
<1> HIDE DEF Iter
<1>5. QED
  BY <1>1, <1>3, <1>4, IterationsAgree DEF SumOf

\* A nonempty set of naturals below a bound has a greatest element, and Max is it.
LEMMA MaxIsGreatest ==
  ASSUME NEW S \in SUBSET Nat, NEW b \in Nat, \A x \in S : x <= b, S # {}
  PROVE  Prb!Max(S) \in S /\ \A x \in S : x <= Prb!Max(S)
<1> DEFINE T == {b - x : x \in S}
<1>0. \A x \in S : x \in Nat /\ b - x \in Nat
  OBVIOUS
<1>1. T \in SUBSET Nat /\ T # {}
  BY <1>0
<1>2. IsWellFoundedOn(OpToRel(<, Nat), Nat)
  BY NatLessThanWellFounded
<1>3. PICK i \in T : \A j \in T : ~ <<j, i>> \in OpToRel(<, Nat)
  BY <1>1, <1>2, WFMin
<1>4. \A x, y \in Nat : y < x => <<y, x>> \in OpToRel(<, Nat)
  BY DEF OpToRel
<1>5. PICK m \in S : i = b - m
  BY <1>3
<1>6. ASSUME NEW x \in S
      PROVE  x <= m
  <2>1. b - x \in T /\ b - x \in Nat /\ i \in Nat /\ x \in Nat /\ m \in Nat
    BY <1>1, <1>3
  <2>2. ~ (b - x < i)
    BY <1>3, <1>4, <2>1
  <2>3. QED
    BY <1>5, <2>1, <2>2
<1>7. QED
  BY <1>6 DEF Prb!Max

-----------------------------------------------------------------------------
(* Rollup: rows tell their frames *)

\* Multiples keep their order.
LEMMA TimesGrows ==
  ASSUME NEW x \in Nat, NEW y \in Nat, NEW k \in Nat, x <= y
  PROVE  k * x <= k * y
<1>1. PICK d \in Nat : y = x + d
  <2>1. y - x \in Nat /\ y = x + (y - x)
    OBVIOUS
  <2> QED BY <2>1
<1>2. k * y = k * x + k * d
  BY <1>1
<1>3. k * d \in Nat /\ k * x \in Nat
  OBVIOUS
<1> QED BY <1>2, <1>3

\* Division with remainder.
LEMMA DivMod ==
  ASSUME NEW n \in Nat, NEW w \in Nat, w > 0
  PROVE  /\ n % w \in 0..(w - 1) /\ n \div w \in Nat
         /\ n = w * (n \div w) + (n % w)
OBVIOUS

\* Of two quotients by one divisor the greater is of the greater number.
LEMMA QuotientsGrow ==
  ASSUME NEW w \in Nat, w > 0, NEW p \in Nat, NEW q \in Nat,
         NEW a \in Nat, NEW b \in Nat, a < w, b < w, w * p + a <= w * q + b
  PROVE  p <= q
<1>1. SUFFICES ASSUME q + 1 <= p PROVE FALSE
  OBVIOUS
<1>2. w * (q + 1) <= w * p
  BY <1>1, TimesGrows
<1>3. w * (q + 1) = w * q + w
  OBVIOUS
<1>4. w * q \in Nat /\ w * p \in Nat
  OBVIOUS
<1> HIDE <1>1
<1> QED BY <1>2, <1>3, <1>4

\* A mean lies between the bounds of its parts.
LEMMA MeanIsBetween ==
  ASSUME NEW sum \in Nat, NEW n \in Nat, n > 0, NEW lo \in Nat, NEW hi \in Nat,
         n * lo <= sum, sum <= n * hi
  PROVE  lo <= sum \div n /\ sum \div n <= hi /\ sum \div n \in Nat
<1> DEFINE q == sum \div n
           r == sum % n
<1>1. q \in Nat /\ r \in Nat /\ r < n /\ sum = n * q + r
  BY DivMod
<1> HIDE DEF q, r
<1>2. lo <= q
  <2>1. n * lo + 0 <= n * q + r
    <3>1. n * lo \in Nat
      OBVIOUS
    <3> QED BY <1>1, <3>1
  <2> QED BY <1>1, <2>1, QuotientsGrow
<1>3. q <= hi
  <2>1. n * q + 0 <= n * hi + 0
    <3>1. n * q \in Nat /\ n * hi \in Nat
      BY <1>1
    <3> QED BY <1>1, <3>1
  <2> QED BY <1>1, <2>1, QuotientsGrow
<1> QED BY <1>1, <1>2, <1>3 DEF q

\* A bucket starts at a multiple of its width, at or before what it holds.
LEMMA BucketIs ==
  ASSUME NEW t \in Nat, NEW w \in Nat, w > 0
  PROVE  /\ Row!BucketOf(t, w) \in Nat /\ Row!BucketOf(t, w) = w * (t \div w)
         /\ Row!BucketOf(t, w) <= t
<1>1. t % w \in 0..(w - 1) /\ t \div w \in Nat /\ t = w * (t \div w) + (t % w)
  BY DivMod
<1>2. w * (t \div w) \in Nat
  BY <1>1
<1> DEFINE q == w * (t \div w)
           r == t % w
<1>3. q \in Nat /\ r \in Nat /\ t = q + r
  BY <1>1, <1>2
<1> HIDE DEF q, r
<1>4. t - r = q /\ q <= t
  BY <1>3
<1>5. QED
  BY <1>3, <1>4 DEF Row!BucketOf, q, r

\* Buckets follow time.
LEMMA BucketsRun ==
  ASSUME NEW s \in Nat, NEW t \in Nat, s <= t, NEW w \in Nat, w > 0
  PROVE  Row!BucketOf(s, w) <= Row!BucketOf(t, w)
<1> DEFINE p == s \div w
           q == t \div w
           a == s % w
           b == t % w
<1>1. p \in Nat /\ a \in Nat /\ a < w /\ s = w * p + a
  BY DivMod
<1>2. q \in Nat /\ b \in Nat /\ b < w /\ t = w * q + b
  BY DivMod
<1>3. Row!BucketOf(s, w) = w * p /\ Row!BucketOf(t, w) = w * q
  BY BucketIs
<1> HIDE DEF p, q, a, b
<1>4. p <= q
  BY <1>1, <1>2, QuotientsGrow
<1>5. QED
  BY <1>1, <1>2, <1>3, <1>4, TimesGrows

\* A moment's ten seconds lie in its minute.
LEMMA TensAreInMinutes ==
  ASSUME NEW t \in Nat
  PROVE  Row!BucketOf(Row!BucketOf(t, Ten), Minute) = Row!BucketOf(t, Minute)
<1>0. Ten \in Nat /\ Ten > 0 /\ Minute \in Nat /\ Minute > 0 /\ Minute % Ten = 0
  BY EngineAssumption DEF Row!RollupAssumption
<1> DEFINE k == Minute \div Ten
           p == t \div Ten
           a == t % Ten
           m == t \div Minute
           s == Row!BucketOf(t, Ten)
           n == s \div Minute
           c == s % Minute
           b == t % Minute
<1>1. k \in Nat /\ Minute = Ten * k
  <2>1. Minute = Ten * k + (Minute % Ten) /\ k \in Nat
    BY <1>0, DivMod
  <2>2. Ten * k \in Nat
    BY <1>0, <2>1
  <2> QED BY <1>0, <2>1, <2>2
<1>2. p \in Nat /\ a \in Nat /\ a < Ten /\ t = Ten * p + a
  BY <1>0, DivMod
<1>3. m \in Nat /\ b \in Nat /\ b < Minute /\ t = Minute * m + b
  BY <1>0, DivMod
<1>4. s \in Nat /\ s = Ten * p /\ s <= t
  BY <1>0, BucketIs
<1>5. n \in Nat /\ c \in Nat /\ c < Minute /\ s = Minute * n + c
  BY <1>0, <1>4, DivMod
<1>6. Row!BucketOf(t, Minute) = Minute * m /\ Row!BucketOf(s, Minute) = Minute * n
  BY <1>0, <1>4, BucketIs
<1> HIDE DEF k, p, a, m, b, s, n, c
<1>7. n <= m
  <2>1. Minute * n + c <= Minute * m + b
    BY <1>3, <1>4, <1>5
  <2> QED BY <1>0, <1>3, <1>5, <2>1, QuotientsGrow
<1>8. m <= n
  <2>1. k * m \in Nat /\ Minute * m = Ten * (k * m)
    BY <1>0, <1>1, <1>3
  <2>2. k * m <= p
    <3>1. Ten * (k * m) + 0 <= Ten * p + a
      <4>1. Minute * m \in Nat
        BY <1>0, <1>3
      <4> QED BY <1>2, <1>3, <2>1, <4>1
    <3> QED BY <1>0, <1>2, <2>1, <3>1, QuotientsGrow
  <2>3. Ten * (k * m) <= Ten * p
    BY <1>0, <1>2, <2>1, <2>2, TimesGrows
  <2>4. Minute * m + 0 <= Minute * n + c
    <3>1. Minute * m \in Nat
      BY <1>0, <1>3
    <3> QED BY <1>4, <1>5, <2>1, <2>3, <3>1
  <2> QED BY <1>0, <1>3, <1>5, <2>4, QuotientsGrow
<1>9. QED
  BY <1>3, <1>5, <1>6, <1>7, <1>8 DEF s

\* Widths and bound of the clock are counts.
LEMMA RollupConstants ==
  /\ Ten \in Nat /\ Ten > 0 /\ Minute \in Nat /\ Minute > 0 /\ MaxTs \in Nat
  /\ None \notin Int /\ None \notin Nat
BY EngineAssumption DEF Row!RollupAssumption

\* The maximum is the element no other exceeds.
LEMMA RowMaxIs ==
  ASSUME NEW S \in SUBSET Int, NEW m \in S, \A x \in S : x <= m
  PROVE  Row!Max(S) = m
<1>1. m \in S /\ \A y \in S : m >= y
  OBVIOUS
<1>2. Row!Max(S) \in S /\ \A y \in S : Row!Max(S) >= y
  BY <1>1 DEF Row!Max
<1>3. Row!Max(S) \in Int /\ m \in Int /\ Row!Max(S) >= m /\ Row!Max(S) <= m
  BY <1>1, <1>2
<1>4. QED
  BY <1>3

\* The minimum is the element that exceeds no other.
LEMMA RowMinIs ==
  ASSUME NEW S \in SUBSET Int, NEW m \in S, \A x \in S : m <= x
  PROVE  Row!Min(S) = m
<1>1. m \in S /\ \A y \in S : m =< y
  OBVIOUS
<1>2. Row!Min(S) \in S /\ \A y \in S : Row!Min(S) =< y
  BY <1>1 DEF Row!Min
<1>3. Row!Min(S) \in Int /\ m \in Int /\ Row!Min(S) >= m /\ Row!Min(S) <= m
  BY <1>1, <1>2
<1>4. QED
  BY <1>3

Figure == Nat \union {None}

\* A frame with its time.
At(t, f) == [at |-> t, f |-> f]
Stamps == {At(t, f) : t \in 1..MaxTs, f \in Frames}

InOf(fr, width, bucket) == {g \in fr : Row!BucketOf(g.at, width) = bucket}
Seen(gs) == {g \in gs : g.f.throttle # None}
Slowed(gs) == {g \in Seen(gs) : g.f.throttle # {}}
Powers(gs) == {g.f.power : g \in Row!Having(gs)}

\* An aggregate of the values P: its extremes are among them, its sum is of as
\* many values between the two.
AggTells(a, P) ==
  /\ a = [min |-> a.min, max |-> a.max, sum |-> a.sum, n |-> a.n]
  /\ a.n \in Nat /\ a.sum \in Nat
  /\ a.n = 0 => P = {} /\ a.min = None /\ a.max = None /\ a.sum = 0
  /\ a.n > 0 => /\ a.min \in P /\ a.max \in P
                /\ \A p \in P : p \in Nat /\ a.min <= p /\ p <= a.max
                /\ a.n * a.min <= a.sum /\ a.sum <= a.n * a.max

\* An accumulator of the frames gs.
AccTells(a, gs) ==
  /\ a = [bucket |-> a.bucket, n |-> a.n, power |-> a.power, throttle |-> a.throttle,
          thermal |-> a.thermal, hw |-> a.hw, observed |-> a.observed]
  /\ \A counter \in Row!Counters : a[counter] \in Nat
  /\ a.n = Cardinality(gs) /\ a.observed = Cardinality(Seen(gs))
  /\ a.throttle = Cardinality(Slowed(gs))
  /\ a.thermal <= a.throttle /\ a.hw <= a.throttle
  /\ AggTells(a.power, Powers(gs))

\* Agg::push: an aggregate of values takes one more.
LEMMA PushTells ==
  ASSUME NEW a, NEW P, AggTells(a, P), NEW v \in Figure
  PROVE  AggTells(Row!Push(a, v), P \union ({v} \ {None}))
<1>1. CASE v = None
  BY <1>1 DEF Row!Push
<1>2. CASE v # None /\ a.n = 0
  <2>1. Row!Push(a, v) = [min |-> v, max |-> v, sum |-> 0 + v, n |-> 0 + 1] /\ v \in Nat
    BY <1>2 DEF Row!Push, AggTells, Figure
  <2>2. 0 + v = v /\ 0 + 1 = 1 /\ 1 * v = v /\ v <= v
    BY <2>1
  <2>3. P \union ({v} \ {None}) = {v}
    BY <1>2 DEF AggTells
  <2>4. QED
    BY <2>1, <2>2, <2>3 DEF AggTells
<1>3. CASE v # None /\ a.n # 0
  <2> DEFINE b == Row!Push(a, v)
  <2>0. /\ v \in Nat /\ a.n \in Nat /\ a.n > 0 /\ a.sum \in Nat
        /\ a.min \in Nat /\ a.max \in Nat /\ a.min \in P /\ a.max \in P
        /\ a.n * a.min <= a.sum /\ a.sum <= a.n * a.max
        /\ a.min # None /\ a.max # None
    BY <1>3, RollupConstants DEF AggTells, Figure
  <2>1. b = [min |-> b.min, max |-> b.max, sum |-> a.sum + v, n |-> a.n + 1]
    BY <1>3 DEF Row!Push
  <2>2. /\ b.min = (IF v < a.min THEN v ELSE a.min)
        /\ b.max = (IF v > a.max THEN v ELSE a.max)
    BY <1>3, <2>0 DEF Row!Push
  <2> HIDE DEF b
  <2>3. /\ b.min \in Nat /\ b.max \in Nat /\ b.min <= a.min /\ a.max <= b.max
        /\ b.min <= v /\ v <= b.max
    BY <2>0, <2>2
  <2>4. (a.n + 1) * b.min <= a.sum + v /\ a.sum + v <= (a.n + 1) * b.max
    <3>1. (a.n + 1) * b.min = a.n * b.min + b.min /\ (a.n + 1) * b.max = a.n * b.max + b.max
      BY <2>0, <2>3
    <3>2. a.n * b.min <= a.n * a.min /\ a.n * a.max <= a.n * b.max
      BY <2>0, <2>3, TimesGrows
    <3>3. /\ a.n * b.min \in Nat /\ a.n * a.min \in Nat
          /\ a.n * b.max \in Nat /\ a.n * a.max \in Nat
      BY <2>0, <2>3
    <3> QED BY <2>0, <2>3, <3>1, <3>2, <3>3
  <2>5. b.min \in P \union {v} /\ b.max \in P \union {v}
    BY <2>0, <2>2
  <2>6. \A p \in P : p \in Nat /\ a.min <= p /\ p <= a.max
    BY <1>3, <2>0 DEF AggTells
  <2>7. \A p \in P \union {v} : p \in Nat /\ b.min <= p /\ p <= b.max
    BY <2>0, <2>3, <2>6
  <2>8. P \union ({v} \ {None}) = P \union {v}
    BY <1>3
  <2>9. b.n \in Nat /\ b.n > 0 /\ b.sum \in Nat
    BY <2>0, <2>1
  <2>10. AggTells(b, P \union {v})
    BY <2>1, <2>4, <2>5, <2>7, <2>9 DEF AggTells
  <2>11. QED
    BY <2>8, <2>10 DEF b
<1>4. QED
  BY <1>1, <1>2, <1>3

\* What a frame adds to the counters of any accumulator.
Adds(f, counter) ==
  IF counter = "n" THEN 1
  ELSE IF counter = "observed" THEN Row!One(f.throttle # None)
  ELSE IF counter = "throttle" THEN Row!One(f.throttle # None /\ f.throttle # {})
  ELSE IF counter = "thermal" THEN Row!One(f.throttle # None /\ "thermal" \in f.throttle)
  ELSE Row!One(f.throttle # None /\ "hw_slowdown" \in f.throttle)

\* Rollup counts as the library does.
LEMMA RowCounts == \A S : Row!Cardinality(S) = Cardinality(S)
BY DEF Row!Cardinality, Cardinality

\* SampleAccum::push, field by field.
LEMMA FoldOf ==
  ASSUME NEW bucket, NEW n, NEW p, NEW slow, NEW thermal, NEW hw, NEW observed, NEW f
  PROVE  Row!FoldSample([bucket |-> bucket, n |-> n, power |-> p, throttle |-> slow,
                         thermal |-> thermal, hw |-> hw, observed |-> observed], f)
           = [bucket |-> bucket, n |-> n + 1, power |-> Row!Push(p, f.power),
              throttle |-> slow + Adds(f, "throttle"),
              thermal |-> thermal + Adds(f, "thermal"), hw |-> hw + Adds(f, "hw"),
              observed |-> observed + Adds(f, "observed")]
<1> DEFINE told == f.throttle # None
<1>1. /\ Adds(f, "throttle") = Row!One(told /\ f.throttle # {})
      /\ Adds(f, "thermal") = Row!One(told /\ "thermal" \in f.throttle)
      /\ Adds(f, "hw") = Row!One(told /\ "hw_slowdown" \in f.throttle)
      /\ Adds(f, "observed") = Row!One(told)
  BY DEF Adds
<1> DEFINE a == [bucket |-> bucket, n |-> n, power |-> p, throttle |-> slow,
                 thermal |-> thermal, hw |-> hw, observed |-> observed]
<1>2. Row!FoldSample(a, f)
        = [a EXCEPT !.n = a.n + 1, !.power = Row!Push(a.power, f.power),
                    !.observed = a.observed + Row!One(told),
                    !.throttle = a.throttle + Row!One(told /\ f.throttle # {}),
                    !.thermal = a.thermal + Row!One(told /\ "thermal" \in f.throttle),
                    !.hw = a.hw + Row!One(told /\ "hw_slowdown" \in f.throttle)]
  BY DEF Row!FoldSample
<1>3. QED
  BY <1>1, <1>2

\* Each counter grows by whether the frame has its condition.
LEMMA FoldAdds ==
  ASSUME NEW a, NEW gs, AccTells(a, gs), NEW f
  PROVE  /\ Row!FoldSample(a, f)
              = [bucket |-> a.bucket, n |-> a.n + 1, power |-> Row!Push(a.power, f.power),
                 throttle |-> a.throttle + Adds(f, "throttle"),
                 thermal |-> a.thermal + Adds(f, "thermal"),
                 hw |-> a.hw + Adds(f, "hw"),
                 observed |-> a.observed + Adds(f, "observed")]
         /\ \A counter \in Row!Counters :
              /\ Row!FoldSample(a, f)[counter] = a[counter] + Adds(f, counter)
              /\ Adds(f, counter) \in {0, 1} /\ a[counter] \in Nat
<1>1. a = [bucket |-> a.bucket, n |-> a.n, power |-> a.power, throttle |-> a.throttle,
           thermal |-> a.thermal, hw |-> a.hw, observed |-> a.observed]
  BY DEF AccTells
<1>2. Row!FoldSample(a, f)
        = [bucket |-> a.bucket, n |-> a.n + 1, power |-> Row!Push(a.power, f.power),
           throttle |-> a.throttle + Adds(f, "throttle"),
           thermal |-> a.thermal + Adds(f, "thermal"),
           hw |-> a.hw + Adds(f, "hw"),
           observed |-> a.observed + Adds(f, "observed")]
  <2> DEFINE r == [bucket |-> a.bucket, n |-> a.n, power |-> a.power,
                   throttle |-> a.throttle, thermal |-> a.thermal, hw |-> a.hw,
                   observed |-> a.observed]
  <2>1. Row!FoldSample(r, f)
          = [bucket |-> a.bucket, n |-> a.n + 1, power |-> Row!Push(a.power, f.power),
             throttle |-> a.throttle + Adds(f, "throttle"),
             thermal |-> a.thermal + Adds(f, "thermal"),
             hw |-> a.hw + Adds(f, "hw"),
             observed |-> a.observed + Adds(f, "observed")]
    BY FoldOf
  <2>2. r = a
    BY <1>1
  <2> HIDE DEF r
  <2>3. QED
    BY <2>1, <2>2
<1>3. \A counter \in Row!Counters : Adds(f, counter) \in {0, 1} /\ a[counter] \in Nat
  BY DEF Adds, Row!One, AccTells
<1>4. \A counter \in Row!Counters :
        Row!FoldSample(a, f)[counter] = a[counter] + Adds(f, counter)
  BY <1>2 DEF Row!Counters, Adds
<1>5. QED
  BY <1>2, <1>3, <1>4

Only(yes, e) == {x \in {e} : yes}

\* One more frame counts one more where it is of the kind.
LEMMA OneMore ==
  ASSUME NEW gs, IsFiniteSet(gs), NEW e, e \notin gs, NEW yes \in BOOLEAN
  PROVE  /\ IsFiniteSet(gs \union Only(yes, e))
         /\ Cardinality(gs) \in Nat
         /\ Cardinality(gs \union Only(yes, e)) = Cardinality(gs) + Row!One(yes)
<1>1. CASE yes
  <2>1. gs \union Only(yes, e) = gs \union {e}
    BY <1>1 DEF Only
  <2>2. QED
    BY <1>1, <2>1, FS_AddElement, FS_CardinalityType DEF Row!One
<1>2. CASE ~ yes
  <2>1. gs \union Only(yes, e) = gs
    BY <1>2 DEF Only
  <2>2. Cardinality(gs) \in Nat
    BY FS_CardinalityType
  <2>3. Row!One(yes) = 0
    BY <1>2 DEF Row!One
  <2>4. Cardinality(gs) + Row!One(yes) = Cardinality(gs)
    BY <2>2, <2>3
  <2>5. QED
    BY <2>1, <2>2, <2>4
<1>3. QED
  BY <1>1, <1>2

\* An accumulator of some frames and a new one is one of them all.
LEMMA FoldTells ==
  ASSUME NEW a, NEW gs, AccTells(a, gs), IsFiniteSet(gs), NEW f \in Frames,
         NEW t, At(t, f) \notin gs
  PROVE  AccTells(Row!FoldSample(a, f), gs \union {At(t, f)})
<1> DEFINE e == At(t, f)
           new == gs \union {e}
           b == Row!FoldSample(a, f)
<1>0. e.f = f /\ f.power \in Figure
  BY EngineAssumption DEF At, Row!RollupAssumption, Figure
<1>1. /\ b = [bucket |-> a.bucket, n |-> a.n + 1, power |-> Row!Push(a.power, f.power),
              throttle |-> a.throttle + Adds(f, "throttle"),
              thermal |-> a.thermal + Adds(f, "thermal"),
              hw |-> a.hw + Adds(f, "hw"),
              observed |-> a.observed + Adds(f, "observed")]
      /\ \A counter \in Row!Counters :
           /\ b[counter] = a[counter] + Adds(f, counter)
           /\ Adds(f, counter) \in {0, 1} /\ a[counter] \in Nat
  BY FoldAdds
<1>2. \A counter \in Row!Counters : b[counter] \in Nat
  <2>1. \A x \in Nat, y \in {0, 1} : x + y \in Nat
    OBVIOUS
  <2> HIDE DEF b
  <2> QED BY <1>1, <2>1
<1>3. b.n = Cardinality(new)
  <2>1. b.n = a.n + 1 /\ a.n = Cardinality(gs)
    BY <1>1 DEF AccTells
  <2>2. Cardinality(new) = Cardinality(gs) + 1
    <3>1. e \notin gs
      OBVIOUS
    <3> HIDE DEF e
    <3> QED BY <3>1, FS_AddElement
  <2> HIDE DEF b, new
  <2>3. QED
    BY <2>1, <2>2
<1>4. b.observed = Cardinality(Seen(new))
  <2>1. Seen(new) = Seen(gs) \union {x \in {e} : f.throttle # None}
    BY <1>0 DEF Seen
  <2>2. IsFiniteSet(Seen(gs)) /\ e \notin Seen(gs)
    BY FS_Subset DEF Seen
  <2> DEFINE yes == f.throttle # None
  <2>3. Cardinality(Seen(new)) = Cardinality(Seen(gs)) + Row!One(yes)
    <3>1. yes \in BOOLEAN /\ Seen(new) = Seen(gs) \union Only(yes, e)
      BY <2>1 DEF Only
    <3> HIDE DEF yes, e, new
    <3> QED BY <2>2, <3>1, OneMore
  <2>4. QED
    BY <1>1, <2>3 DEF AccTells, Adds
<1>5. b.throttle = Cardinality(Slowed(new))
  <2>1. Slowed(new)
          = Slowed(gs) \union {x \in {e} : f.throttle # None /\ f.throttle # {}}
    BY <1>0 DEF Seen, Slowed
  <2>2. IsFiniteSet(Slowed(gs)) /\ e \notin Slowed(gs)
    BY FS_Subset DEF Seen, Slowed
  <2> DEFINE yes == f.throttle # None /\ f.throttle # {}
  <2>3. Cardinality(Slowed(new)) = Cardinality(Slowed(gs)) + Row!One(yes)
    <3>1. yes \in BOOLEAN /\ Slowed(new) = Slowed(gs) \union Only(yes, e)
      BY <2>1 DEF Only
    <3> HIDE DEF yes, e, new
    <3> QED BY <2>2, <3>1, OneMore
  <2>4. QED
    BY <1>1, <2>3 DEF AccTells, Adds
<1>6. b.thermal <= b.throttle /\ b.hw <= b.throttle
  <2>1. Adds(f, "thermal") <= Adds(f, "throttle") /\ Adds(f, "hw") <= Adds(f, "throttle")
    BY DEF Adds, Row!One
  <2>2. /\ a.thermal \in Nat /\ a.hw \in Nat /\ a.throttle \in Nat
        /\ a.thermal <= a.throttle /\ a.hw <= a.throttle
    BY DEF AccTells, Row!Counters
  <2>3. /\ Adds(f, "thermal") \in Nat /\ Adds(f, "hw") \in Nat
        /\ Adds(f, "throttle") \in Nat
    BY DEF Adds, Row!One
  <2>4. \A x, y, z, w \in Nat : x <= y /\ z <= w => x + z <= y + w
    OBVIOUS
  <2> HIDE DEF b
  <2>5. QED
    BY <1>1, <2>1, <2>2, <2>3, <2>4
<1>7. AggTells(b.power, Powers(new))
  <2>1. Powers(new) = Powers(gs) \union ({f.power} \ {None})
    <3>1. Row!Having(new) = Row!Having(gs) \union {x \in {e} : f.power # None}
      BY <1>0 DEF Row!Having
    <3>2. QED
      BY <1>0, <3>1 DEF Powers
  <2>2. AggTells(Row!Push(a.power, f.power), Powers(gs) \union ({f.power} \ {None}))
    BY <1>0, PushTells DEF AccTells
  <2>3. QED
    BY <1>1, <2>1, <2>2
<1>8. b = [bucket |-> b.bucket, n |-> b.n, power |-> b.power, throttle |-> b.throttle,
           thermal |-> b.thermal, hw |-> b.hw, observed |-> b.observed]
  BY <1>1
<1> HIDE DEF b, new
<1>9. AccTells(b, new)
  BY <1>2, <1>3, <1>4, <1>5, <1>6, <1>7, <1>8 DEF AccTells
<1>10. QED
  BY <1>9 DEF b, new

\* A fresh accumulator tells of no frame.
LEMMA NothingTells ==
  ASSUME NEW b
  PROVE  AccTells(Row!NoSamples(b), {})
<1>1. Seen({}) = {} /\ Slowed({}) = {} /\ Powers({}) = {}
  BY DEF Seen, Slowed, Powers, Row!Having
<1>2. Cardinality({}) = 0
  BY FS_EmptySet
<1>3. AggTells(Row!NoAgg, {})
  BY DEF AggTells, Row!NoAgg
<1>4. QED
  BY <1>1, <1>2, <1>3 DEF AccTells, Row!NoSamples, Row!Counters

\* The row of an accumulator tells what the accumulator does.
LEMMA RowTells ==
  ASSUME NEW a, NEW gs, AccTells(a, gs)
  PROVE  /\ Row!Tells(Row!SampleRow(a), gs)
         /\ Row!SampleRow(a).bucket = a.bucket
         /\ \A counter \in Row!Counters : Row!SampleRow(a)[counter] = a[counter]
<1> DEFINE row == Row!SampleRow(a)
           P == Powers(gs)
           p == a.power
<1>1. row = [bucket |-> a.bucket, n |-> a.n, min |-> p.min, avg |-> Row!Avg(p),
             max |-> p.max, throttle |-> a.throttle, thermal |-> a.thermal, hw |-> a.hw,
             observed |-> a.observed]
  BY DEF Row!SampleRow
<1>2. AggTells(p, P)
  BY DEF AccTells
<1> HIDE DEF row, P, p
<1>3. row.bucket = a.bucket /\ \A counter \in Row!Counters : row[counter] = a[counter]
  BY <1>1 DEF Row!Counters
<1>4. /\ row.n = Cardinality(gs) /\ row.observed = Cardinality(Seen(gs))
      /\ row.throttle = Cardinality(Slowed(gs))
      /\ row.thermal <= row.throttle /\ row.hw <= row.throttle
  BY <1>1 DEF AccTells
<1>5. IF P = {} THEN row.min = None /\ row.avg = None /\ row.max = None
      ELSE row.min = Row!Min(P) /\ row.max = Row!Max(P)
           /\ row.min <= row.avg /\ row.avg <= row.max
  <2>1. CASE p.n = 0
    <3>1. P = {} /\ p.min = None /\ p.max = None /\ Row!Avg(p) = None
      BY <1>2, <2>1 DEF AggTells, Row!Avg
    <3>2. QED
      BY <1>1, <3>1
  <2>2. CASE p.n # 0
    <3>1. /\ p.n \in Nat /\ p.n > 0 /\ p.sum \in Nat
          /\ p.min \in P /\ p.max \in P /\ p.min \in Nat /\ p.max \in Nat
          /\ \A x \in P : x \in Nat /\ p.min <= x /\ x <= p.max
          /\ p.n * p.min <= p.sum /\ p.sum <= p.n * p.max
      BY <1>2, <2>2 DEF AggTells
    <3>2. p.min <= Row!Avg(p) /\ Row!Avg(p) <= p.max
      BY <3>1, MeanIsBetween DEF Row!Avg
    <3>3. P \in SUBSET Int /\ P # {}
      BY <3>1
    <3>4. Row!Max(P) = p.max
      BY <3>1, <3>3, RowMaxIs
    <3>5. Row!Min(P) = p.min
      BY <3>1, <3>3, RowMinIs
    <3>6. QED
      BY <1>1, <3>2, <3>3, <3>4, <3>5
  <2>3. QED
    BY <2>1, <2>2
<1>6. Row!Tells(row, gs)
  <2>1. P = {g.f.power : g \in Row!Having(gs)} /\ Seen(gs) = {g \in gs : g.f.throttle # None}
        /\ Slowed(gs) = {g \in Seen(gs) : g.f.throttle # {}}
    BY DEF P, Powers, Seen, Slowed
  <2>2. QED
    BY <1>4, <1>5, <2>1, RowCounts DEF Row!Tells
<1>7. QED
  BY <1>3, <1>6 DEF row

\* A total with one more row is that much more.
LEMMA TotalAdds ==
  ASSUME NEW rs, IsFiniteSet(rs), NEW counter, \A r \in rs : r[counter] \in Nat,
         NEW x, x \notin rs, x[counter] \in Nat
  PROVE  /\ Row!Total(rs, counter) \in Nat
         /\ Row!Total(rs \union {x}, counter) = Row!Total(rs, counter) + x[counter]
<1> DEFINE all == rs \union {x}
           v == [r \in all |-> r[counter]]
<1>1. IsFiniteSet(all) /\ x \in all /\ rs = all \ {x}
  BY FS_AddElement
<1>2. (\A r \in all : v[r] = r[counter] /\ v[r] \in Nat) /\ v[x] = x[counter]
  OBVIOUS
<1>3. \A r \in rs : r \in all
  OBVIOUS
<1> HIDE DEF all, v
<1>4. Row!Total(all, counter) = SumOf(all, v)
  BY <1>1, <1>2, TotalIsSum
<1>5. Row!Total(rs, counter) = SumOf(rs, v)
  BY <1>2, <1>3, TotalIsSum
<1>6. SumOf(all, v) = v[x] + SumOf(all \ {x}, v)
  <2>1. \A r \in all : v[r] \in Int
    BY <1>2
  <2> QED BY <1>1, <2>1, SumTakesAny
<1>7. SumOf(rs, v) \in Nat
  BY <1>2, <1>3, SumIsNatural
<1>8. x[counter] \in Nat /\ SumOf(all, v) = x[counter] + SumOf(rs, v)
  BY <1>1, <1>2, <1>6
<1>9. QED
  BY <1>4, <1>5, <1>7, <1>8 DEF all

\* No rows add up to zero.
LEMMA TotalOfNone == ASSUME NEW counter PROVE Row!Total({}, counter) = 0
<1> DEFINE v == [r \in {} |-> r[counter]]
<1>1. \A r \in {} : v[r] = r[counter]
  OBVIOUS
<1> HIDE DEF v
<1>2. QED
  BY <1>1, FS_EmptySet, TotalIsSum, SumOfNone

-----------------------------------------------------------------------------
\* The frames that list a process, and its figures in them.
Listing(gs, p) == {g \in gs : p \in DOMAIN g.f.procs}
Mems(gs, p) == {g.f.procs[p].mem : g \in Listing(gs, p)} \ {None}

\* The greatest of the numbers M, None where there are none.
IsPeak(m, M) == IF M = {} THEN m = None ELSE m \in M /\ \A x \in M : x <= m

\* An entry is the process as last listed, with its peak.
ProcTells(entry, p, gs) ==
  /\ entry = [mem |-> entry.mem, kind |-> entry.kind]
  /\ \E g \in Listing(gs, p) : /\ g.f.procs[p].kind = entry.kind
                              /\ \A o \in Listing(gs, p) : o.at <= g.at
  /\ IsPeak(entry.mem, Mems(gs, p))

ProcsTell(procs, gs) ==
  /\ DOMAIN procs = UNION {DOMAIN g.f.procs : g \in gs}
  /\ \A p \in DOMAIN procs : ProcTells(procs[p], p, gs)

\* The peak of a process takes one more reading.
LEMMA PeakTells ==
  ASSUME NEW M \in SUBSET Nat, NEW m, NEW v \in Figure,
         IsPeak(m, M)
  PROVE  IsPeak(Row!Peak(m, v), M \union ({v} \ {None}))
<1> USE DEF IsPeak
<1>1. None \notin Nat
  BY RollupConstants
<1>2. CASE v = None
  BY <1>2 DEF Row!Peak
<1>3. CASE v # None /\ M = {}
  BY <1>1, <1>3 DEF Row!Peak, Figure
<1>4. CASE v # None /\ M # {}
  <2>1. m \in Nat /\ v \in Nat /\ m # None
    BY <1>1, <1>4 DEF Figure
  <2>2. Row!Peak(m, v) = IF m > v THEN m ELSE v
    BY <1>4, <2>1 DEF Row!Peak
  <2>3. QED
    BY <1>4, <2>1, <2>2
<1>5. QED
  BY <1>2, <1>3, <1>4

\* ProcAccum takes the processes of a later frame.
LEMMA FoldedProcsTell ==
  ASSUME NEW procs, NEW gs \in SUBSET Stamps, ProcsTell(procs, gs), NEW f \in Frames,
         NEW t \in 1..MaxTs, \A g \in gs : g.at < t
  PROVE  ProcsTell(Row!FoldProcs(procs, f.procs), gs \union {At(t, f)})
<1> DEFINE e == At(t, f)
           new == gs \union {e}
           list == f.procs
           folded == Row!FoldProcs(procs, list)
<1>0. e.f = f /\ e.at = t /\ e \in new
  BY DEF At
<1>1. DOMAIN folded = DOMAIN procs \union DOMAIN list
  BY DEF Row!FoldProcs
<1>2. DOMAIN folded = UNION {DOMAIN g.f.procs : g \in new}
  BY <1>0, <1>1 DEF ProcsTell
<1>3. \A p \in DOMAIN list : /\ list[p] = [mem |-> list[p].mem, kind |-> list[p].kind]
                             /\ list[p].mem \in Figure
  BY EngineAssumption DEF Row!RollupAssumption, Figure
<1>4. \A g \in gs : g.at \in Nat /\ g.at < t /\ g.f \in Frames
  BY DEF Stamps, At
<1>40. t \in Nat
  OBVIOUS
<1>5. ASSUME NEW p \in DOMAIN folded
      PROVE  ProcTells(folded[p], p, new)
  <2> DEFINE his == Listing(gs, p)
  <2>0. Mems(gs, p) \in SUBSET Nat
    <3>1. \A g \in his : g.f.procs[p].mem \in Figure
      BY <1>4, EngineAssumption DEF Listing, Row!RollupAssumption, Figure
    <3> QED BY <3>1 DEF Mems, Figure
  <2>1. CASE p \notin DOMAIN list
    <3>1. Listing(new, p) = his /\ Mems(new, p) = Mems(gs, p)
      <4>1. Listing(new, p) = his
        BY <1>0, <2>1 DEF Listing
      <4> QED BY <4>1 DEF Mems
    <3>2. p \in DOMAIN procs /\ folded[p] = procs[p]
      BY <1>1, <2>1 DEF Row!FoldProcs
    <3>3. ProcTells(procs[p], p, gs)
      BY <3>2 DEF ProcsTell
    <3> HIDE DEF new, folded
    <3>4. QED
      BY <3>1, <3>2, <3>3 DEF ProcTells
  <2>2. CASE p \in DOMAIN list
    <3>1. Listing(new, p) = his \union {e}
      BY <1>0, <2>2 DEF Listing
    <3>2. Mems(new, p) = Mems(gs, p) \union ({list[p].mem} \ {None})
      <4>1. e.f.procs[p].mem = list[p].mem
        BY <1>0
      <4> HIDE DEF e, list
      <4> QED BY <3>1, <4>1 DEF Mems
    <3>3. /\ e \in Listing(new, p) /\ e.f.procs[p].kind = list[p].kind
          /\ \A o \in Listing(new, p) : o.at <= e.at
      <4>1. \A o \in his : o.at <= t
        BY <1>4, <1>40 DEF Listing
      <4> QED BY <1>0, <1>40, <3>1, <4>1
    <3>4. CASE p \notin DOMAIN procs
      <4>1. his = {} /\ Mems(gs, p) = {}
        BY <3>4 DEF ProcsTell, Listing, Mems
      <4>2. folded[p] = list[p]
        BY <1>1, <2>2, <3>4 DEF Row!FoldProcs
      <4>3. IsPeak(list[p].mem, Mems(new, p))
        <5>1. list[p].mem \in Figure
          BY <1>3, <2>2
        <5> HIDE DEF list, new
        <5>2. Mems(new, p) = {list[p].mem} \ {None}
          BY <3>2, <4>1
        <5> QED BY <5>1, <5>2 DEF Figure, IsPeak
      <4>4. list[p] = [mem |-> list[p].mem, kind |-> list[p].kind]
        BY <1>3, <2>2
      <4> HIDE DEF folded, new, list, e
      <4>5. QED
        BY <3>3, <4>2, <4>3, <4>4 DEF ProcTells
    <3>5. CASE p \in DOMAIN procs
      <4>1. folded[p] = [list[p] EXCEPT !.mem = Row!Peak(procs[p].mem, list[p].mem)]
        BY <1>1, <2>2, <3>5 DEF Row!FoldProcs
      <4>2. /\ folded[p].kind = list[p].kind
            /\ folded[p].mem = Row!Peak(procs[p].mem, list[p].mem)
            /\ folded[p] = [mem |-> folded[p].mem, kind |-> folded[p].kind]
        <5>1. list[p] = [mem |-> list[p].mem, kind |-> list[p].kind]
          BY <1>3, <2>2
        <5> HIDE DEF folded, list
        <5> QED BY <4>1, <5>1
      <4>3. ProcTells(procs[p], p, gs)
        BY <3>5 DEF ProcsTell
      <4>4. IsPeak(folded[p].mem, Mems(new, p))
        <5>1. IsPeak(procs[p].mem, Mems(gs, p))
          BY <4>3 DEF ProcTells
        <5>2. list[p].mem \in Figure
          BY <1>3, <2>2
        <5> HIDE DEF folded, list, new
        <5> QED BY <2>0, <3>2, <4>2, <5>1, <5>2, PeakTells
      <4> HIDE DEF folded, new, list, e
      <4>5. QED
        BY <3>3, <4>2, <4>4 DEF ProcTells
    <3>6. QED
      BY <3>4, <3>5
  <2>3. QED
    BY <2>1, <2>2
<1> HIDE DEF folded, new
<1>6. ProcsTell(folded, new)
  BY <1>2, <1>5 DEF ProcsTell
<1>7. QED
  BY <1>6 DEF folded, new

-----------------------------------------------------------------------------
RowTypes(r) == r.bucket \in Nat /\ \A counter \in Row!Counters : r[counter] \in Nat

\* The ten seconds on disk of a minute.
Parts(T, m) == {r \in T : Row!BucketOf(r.bucket, Minute) = m}
Known(T, m) == {r \in Parts(T, m) : r.max # None}

Agree(m, T) ==
  /\ \A counter \in Row!Counters : m[counter] = Row!Total(Parts(T, m.bucket), counter)
  /\ m.max = IF Known(T, m.bucket) = {} THEN None
             ELSE Row!Max({r.max : r \in Known(T, m.bucket)})

\* The frames whose ten seconds are on disk, and who was seen in frames.
Told(T, fr) == {x \in fr : \E r \in T : r.bucket = Row!BucketOf(x.at, Ten)}
SeenIn(gs) == UNION {{<<Row!BucketOf(g.at, Ten), p>> : p \in DOMAIN g.f.procs} : g \in gs}
Rowed(P) == {<<r.bucket, r.pid>> : r \in P}

ProcRowTells(r, fr) ==
  ProcTells([mem |-> r.mem, kind |-> r.kind], r.pid, InOf(fr, Ten, r.bucket))

TensTell(T, fr) ==
  IsFiniteSet(T) /\ \A r \in T : RowTypes(r) /\ Row!Tells(r, InOf(fr, Ten, r.bucket))
MinutesTell(M, T, fr) ==
  \A m \in M : /\ m.bucket \in Nat /\ Row!Tells(m, InOf(fr, Minute, m.bucket))
               /\ Agree(m, T)
ProcRowsTell(P, T, fr) ==
  Rowed(P) = SeenIn(Told(T, fr)) /\ \A r \in P : ProcRowTells(r, fr)

Disk(T, M, P, fr) == TensTell(T, fr) /\ MinutesTell(M, T, fr) /\ ProcRowsTell(P, T, fr)

Below(T, b) == \A r \in T : r.bucket \in Nat /\ r.bucket < b

\* A frame observed has its time and its buckets.
LEMMA StampIs ==
  ASSUME NEW g \in Stamps
  PROVE  /\ g.at \in Nat /\ g.at \in 1..MaxTs /\ g.f \in Frames /\ g = At(g.at, g.f)
         /\ Row!BucketOf(g.at, Ten) \in Nat /\ Row!BucketOf(g.at, Minute) \in Nat
<1>1. g.at \in 1..MaxTs /\ g.f \in Frames /\ g = At(g.at, g.f)
  BY DEF Stamps, At
<1>2. g.at \in Nat
  BY <1>1
<1>3. QED
  BY <1>1, <1>2, BucketIs, RollupConstants

\* A frame past what is on disk leaves it true.
LEMMA DiskKeepsFrame ==
  ASSUME NEW T, NEW M, NEW P, NEW fr \in SUBSET Stamps, Disk(T, M, P, fr),
         NEW e \in Stamps,
         Below(T, Row!BucketOf(e.at, Ten)), Below(P, Row!BucketOf(e.at, Ten)),
         Below(M, Row!BucketOf(e.at, Minute))
  PROVE  Disk(T, M, P, fr \union {e})
<1> DEFINE new == fr \union {e}
<1>0. Row!BucketOf(e.at, Ten) \in Nat /\ Row!BucketOf(e.at, Minute) \in Nat
  BY StampIs
<1>1. \A b \in Nat : b < Row!BucketOf(e.at, Ten) => InOf(new, Ten, b) = InOf(fr, Ten, b)
  BY <1>0 DEF InOf
<1>2. \A b \in Nat : b < Row!BucketOf(e.at, Minute)
        => InOf(new, Minute, b) = InOf(fr, Minute, b)
  BY <1>0 DEF InOf
<1>3. Told(T, new) = Told(T, fr)
  BY <1>0 DEF Told, Below
<1> HIDE DEF new
<1>4. TensTell(T, new)
  BY <1>1 DEF TensTell, Below, Disk
<1>5. MinutesTell(M, T, new)
  BY <1>2 DEF MinutesTell, Below, Disk
<1>6. ProcRowsTell(P, T, new)
  BY <1>1, <1>3 DEF ProcRowsTell, ProcRowTells, Below, Disk
<1>7. QED
  BY <1>4, <1>5, <1>6 DEF Disk, new

\* Ten seconds that end go to disk with their processes.
LEMMA WriteTen ==
  ASSUME NEW T, NEW M, NEW P, NEW fr \in SUBSET Stamps, Disk(T, M, P, fr),
         NEW a, NEW q, NEW b \in Nat, a.bucket = b, q.bucket = b,
         AccTells(a, InOf(fr, Ten, b)), ProcsTell(q.procs, InOf(fr, Ten, b)),
         Below(M, Row!BucketOf(b, Minute))
  PROVE  Disk(T \union {Row!SampleRow(a)}, M, P \union Row!ProcRows(q), fr)
<1> DEFINE row == Row!SampleRow(a)
           T2 == T \union {row}
           P2 == P \union Row!ProcRows(q)
           now_ == InOf(fr, Ten, b)
<1>1. /\ row.bucket = b /\ Row!Tells(row, now_)
      /\ \A counter \in Row!Counters : row[counter] = a[counter]
  BY RowTells
<1>2. RowTypes(row)
  BY <1>1 DEF RowTypes, AccTells
<1>3. TensTell(T2, fr)
  <2>1. IsFiniteSet(T2)
    BY FS_AddElement DEF TensTell, Disk
  <2> HIDE DEF row
  <2> QED BY <1>1, <1>2, <2>1 DEF TensTell, Disk
<1>4. MinutesTell(M, T2, fr)
  <2> SUFFICES ASSUME NEW m \in M
               PROVE  /\ m.bucket \in Nat /\ Row!Tells(m, InOf(fr, Minute, m.bucket))
                      /\ Agree(m, T2)
    BY DEF MinutesTell
  <2>2. Row!BucketOf(row.bucket, Minute) # m.bucket
    <3>1. m.bucket \in Nat /\ m.bucket < Row!BucketOf(b, Minute)
      BY DEF Below
    <3>2. Row!BucketOf(b, Minute) \in Nat
      BY BucketIs, RollupConstants
    <3> HIDE DEF row
    <3> QED BY <1>1, <3>1, <3>2
  <2>3. Parts(T2, m.bucket) = Parts(T, m.bucket)
    BY <2>2 DEF Parts
  <2>4. Known(T2, m.bucket) = Known(T, m.bucket)
    BY <2>3 DEF Known
  <2>5. m.bucket \in Nat /\ Row!Tells(m, InOf(fr, Minute, m.bucket)) /\ Agree(m, T)
    BY DEF Disk, MinutesTell
  <2> HIDE DEF T2
  <2>6. QED
    BY <2>3, <2>4, <2>5 DEF Agree
<1>5. ProcRowsTell(P2, T2, fr)
  <2>1. Told(T2, fr) = Told(T, fr) \union now_
    BY <1>1 DEF Told, InOf
  <2>2. SeenIn(now_) = {<<b, p>> : p \in DOMAIN q.procs}
    <3>1. \A g \in now_ : Row!BucketOf(g.at, Ten) = b
      BY DEF InOf
    <3>2. DOMAIN q.procs = UNION {DOMAIN g.f.procs : g \in now_}
      BY DEF ProcsTell
    <3> HIDE DEF now_
    <3>3. SeenIn(now_) = UNION {{<<b, p>> : p \in DOMAIN g.f.procs} : g \in now_}
      BY <3>1 DEF SeenIn
    <3> QED BY <3>2, <3>3
  <2>3. Rowed(Row!ProcRows(q)) = {<<b, p>> : p \in DOMAIN q.procs}
    <3>1. Row!ProcRows(q) = {[bucket |-> b, pid |-> p, kind |-> q.procs[p].kind,
                              mem |-> q.procs[p].mem] : p \in DOMAIN q.procs}
      BY DEF Row!ProcRows
    <3> DEFINE r(p) == [bucket |-> b, pid |-> p, kind |-> q.procs[p].kind,
                        mem |-> q.procs[p].mem]
    <3>2. \A p : r(p).bucket = b /\ r(p).pid = p
      OBVIOUS
    <3>3. Row!ProcRows(q) = {r(p) : p \in DOMAIN q.procs}
      BY <3>1
    <3> HIDE DEF r
    <3> QED BY <3>2, <3>3 DEF Rowed
  <2>4. Rowed(P2) = SeenIn(Told(T2, fr))
    <3>1. Rowed(P2) = Rowed(P) \union Rowed(Row!ProcRows(q))
      BY DEF Rowed
    <3>2. SeenIn(Told(T, fr) \union now_) = SeenIn(Told(T, fr)) \union SeenIn(now_)
      BY DEF SeenIn
    <3>3. Rowed(P) = SeenIn(Told(T, fr))
      BY DEF Disk, ProcRowsTell
    <3> QED BY <2>1, <2>2, <2>3, <3>1, <3>2, <3>3
  <2>5. ASSUME NEW r \in P2
        PROVE  ProcRowTells(r, fr)
    <3>1. CASE r \in P
      BY <3>1 DEF Disk, ProcRowsTell
    <3>2. CASE r \in Row!ProcRows(q)
      <4>1. PICK p \in DOMAIN q.procs :
              r = [bucket |-> q.bucket, pid |-> p, kind |-> q.procs[p].kind,
                   mem |-> q.procs[p].mem]
        BY <3>2 DEF Row!ProcRows
      <4>2. ProcTells(q.procs[p], p, now_)
        BY DEF ProcsTell
      <4>3. q.procs[p] = [mem |-> q.procs[p].mem, kind |-> q.procs[p].kind]
        BY <4>2 DEF ProcTells
      <4>4. [mem |-> r.mem, kind |-> r.kind] = q.procs[p] /\ r.pid = p /\ r.bucket = b
        BY <4>1, <4>3
      <4>5. QED
        BY <4>2, <4>4 DEF ProcRowTells
    <3>3. QED
      BY <3>1, <3>2
  <2>6. QED
    BY <2>4, <2>5 DEF ProcRowsTell
<1>6. QED
  BY <1>3, <1>4, <1>5 DEF Disk

\* The counters of an open minute are those of its ten seconds on disk and of
\* the open ones.
Counting(m, T, a) ==
  \A counter \in Row!Counters :
    m[counter] = Row!Total(Parts(T, m.bucket), counter) + a[counter]

\* A ten-second row written, the minute's counters are the totals of its rows.
LEMMA CountingGoes ==
  ASSUME NEW m, NEW T, TensTell(T, frames), NEW a, NEW gs, AccTells(a, gs),
         NEW b \in Nat, a.bucket = b, Row!BucketOf(b, Minute) = m.bucket,
         Below(T, b), Counting(m, T, a)
  PROVE  \A counter \in Row!Counters :
           m[counter] = Row!Total(Parts(T \union {Row!SampleRow(a)}, m.bucket), counter)
<1> DEFINE row == Row!SampleRow(a)
<1>1. row.bucket = b /\ \A counter \in Row!Counters : row[counter] = a[counter]
  BY RowTells
<1>2. row \notin T
  BY <1>1 DEF Below
<1> HIDE DEF row
<1>3. Parts(T \union {row}, m.bucket) = Parts(T, m.bucket) \union {row}
  BY <1>1 DEF Parts
<1>4. IsFiniteSet(Parts(T, m.bucket)) /\ row \notin Parts(T, m.bucket)
  BY <1>2, FS_Subset DEF Parts, TensTell
<1>5. ASSUME NEW counter \in Row!Counters
      PROVE  m[counter] = Row!Total(Parts(T \union {row}, m.bucket), counter)
  <2>1. \A r \in Parts(T, m.bucket) : r[counter] \in Nat
    BY DEF Parts, TensTell, RowTypes
  <2>2. row[counter] \in Nat
    BY <1>1 DEF AccTells
  <2>3. Row!Total(Parts(T, m.bucket) \union {row}, counter)
          = Row!Total(Parts(T, m.bucket), counter) + row[counter]
    BY <1>4, <2>1, <2>2, TotalAdds
  <2>4. m[counter] = Row!Total(Parts(T, m.bucket), counter) + a[counter]
    BY DEF Counting
  <2>5. QED
    BY <1>1, <1>3, <2>3, <2>4
<1>6. QED
  BY <1>5 DEF row

\* A minute that ends goes to disk when its ten seconds are there.
LEMMA WriteMinute ==
  ASSUME NEW T, NEW M, NEW P, NEW fr \in SUBSET Stamps, Disk(T, M, P, fr),
         NEW a, NEW b \in Nat, a.bucket = b, AccTells(a, InOf(fr, Minute, b)),
         \A counter \in Row!Counters : a[counter] = Row!Total(Parts(T, b), counter),
         InOf(fr, Minute, b) \subseteq Told(T, fr)
  PROVE  Disk(T, M \union {Row!SampleRow(a)}, P, fr)
<1> DEFINE m == Row!SampleRow(a)
           all == InOf(fr, Minute, b)
           maxes == {r.max : r \in Known(T, b)}
<1>1. /\ m.bucket = b /\ Row!Tells(m, all)
      /\ \A counter \in Row!Counters : m[counter] = a[counter]
  BY RowTells
<1>2. \A counter \in Row!Counters : m[counter] = Row!Total(Parts(T, m.bucket), counter)
  BY <1>1
<1> HIDE DEF m
<1>3. /\ Powers(all) = {} => m.max = None
      /\ Powers(all) # {} => m.max = Row!Max(Powers(all))
  BY <1>1 DEF Row!Tells, Powers
<1>4. \A g \in fr : g.f.power \in Figure
  BY StampIs, EngineAssumption DEF Row!RollupAssumption, Figure
<1>5. AggTells(a.power, Powers(all))
  BY DEF AccTells
<1>6. \A r \in Known(T, b) : r.max \in Powers(all) /\ r.max \in Nat
  <2>1. TAKE r \in Known(T, b)
  <2> DEFINE his == InOf(fr, Ten, r.bucket)
  <2>2. r \in T /\ r.max # None /\ Row!BucketOf(r.bucket, Minute) = b
    BY DEF Known, Parts
  <2>3. Row!Tells(r, his)
    BY <2>2 DEF Disk, TensTell
  <2>4. Powers(his) # {} /\ r.max = Row!Max(Powers(his))
    BY <2>2, <2>3 DEF Row!Tells, Powers
  <2>5. his \subseteq all
    <3>1. SUFFICES ASSUME NEW g \in his PROVE g \in all
      OBVIOUS
    <3>2. g \in fr /\ Row!BucketOf(g.at, Ten) = r.bucket /\ g.at \in Nat
      BY StampIs DEF InOf
    <3>3. Row!BucketOf(g.at, Minute) = b
      BY <2>2, <3>2, TensAreInMinutes
    <3>4. QED
      BY <3>2, <3>3 DEF InOf
  <2>6. Powers(his) \subseteq Powers(all)
    BY <2>5 DEF Powers, Row!Having
  <2>7. Powers(his) \in SUBSET Nat
    BY <1>4 DEF Powers, Row!Having, InOf, Figure
  <2>8. PICK x \in Powers(his) : \A y \in Powers(his) : y <= x
    <3>1. a.power.n > 0
      BY <1>5, <2>4, <2>6 DEF AggTells
    <3>2. \A y \in Powers(his) : y \in Nat /\ y <= a.power.max
      BY <1>5, <2>6, <3>1 DEF AggTells
    <3>3. a.power.max \in Nat
      BY <1>5, <3>1 DEF AggTells
    <3>4. Prb!Max(Powers(his)) \in Powers(his)
          /\ \A y \in Powers(his) : y <= Prb!Max(Powers(his))
      BY <2>4, <2>7, <3>2, <3>3, MaxIsGreatest
    <3> QED BY <3>4
  <2>9. r.max = x
    <3>1. Powers(his) \in SUBSET Int
      BY <2>7
    <3> QED BY <2>4, <2>8, <3>1, RowMaxIs
  <2>10. QED
    BY <2>6, <2>7, <2>8, <2>9
<1>7. m.max = IF Known(T, b) = {} THEN None ELSE Row!Max(maxes)
  <2>1. CASE Powers(all) = {}
    BY <1>3, <1>6, <2>1
  <2>2. CASE Powers(all) # {}
    <3> DEFINE top == a.power.max
    <3>1. top \in Powers(all) /\ \A y \in Powers(all) : y \in Nat /\ y <= top
      BY <1>5, <2>2 DEF AggTells
    <3>2. m.max = top
      <4>1. Powers(all) \in SUBSET Int
        BY <3>1
      <4> HIDE DEF top
      <4> QED BY <1>3, <2>2, <3>1, <4>1, RowMaxIs
    <3>3. PICK g \in all : g.f.power = top /\ top # None
      BY <3>1 DEF Powers, Row!Having
    <3>4. PICK r \in T : r.bucket = Row!BucketOf(g.at, Ten)
      BY DEF Told
    <3> DEFINE his == InOf(fr, Ten, r.bucket)
    <3>5. g \in fr /\ g.at \in Nat /\ Row!BucketOf(g.at, Minute) = b /\ g \in his
      BY <3>4, StampIs DEF InOf
    <3>6. r \in Parts(T, b)
      BY <3>4, <3>5, TensAreInMinutes DEF Parts
    <3>7. Row!Tells(r, his)
      BY DEF Disk, TensTell
    <3>8. top \in Powers(his)
      BY <3>3, <3>5 DEF Powers, Row!Having
    <3>9. r.min = Row!Min(Powers(his)) /\ r.max = Row!Max(Powers(his))
          /\ r.min <= r.avg /\ r.avg <= r.max
      BY <3>7, <3>8 DEF Row!Tells, Powers
    <3>10. \A y \in Powers(his) : y \in Powers(all)
      <4>1. \A h \in his : h \in all
        BY <3>4, <3>5, StampIs, TensAreInMinutes DEF InOf
      <4> QED BY <4>1 DEF Powers, Row!Having
    <3>11. r.max = top
      <4>1. Powers(his) \in SUBSET Int /\ \A y \in Powers(his) : y <= top
        BY <3>1, <3>10
      <4> HIDE DEF top, his
      <4> QED BY <3>8, <3>9, <4>1, RowMaxIs
    <3>12. r \in Known(T, b) /\ top \in maxes
      BY <3>3, <3>6, <3>11 DEF Known
    <3>13. maxes \in SUBSET Int /\ \A y \in maxes : y <= top
      BY <1>6, <3>1
    <3>14. Row!Max(maxes) = top
      <4> HIDE DEF maxes, top
      <4> QED BY <3>12, <3>13, RowMaxIs
    <3>15. QED
      BY <3>2, <3>12, <3>14
  <2>3. QED
    BY <2>1, <2>2
<1>8. Agree(m, T)
  BY <1>1, <1>2, <1>7 DEF Agree
<1>9. MinutesTell(M \union {m}, T, fr)
  BY <1>1, <1>8 DEF MinutesTell, Disk
<1>10. QED
  BY <1>9 DEF Disk, m

-----------------------------------------------------------------------------
\* Accumulators of the ten seconds b and their minute, beside what is on disk.
Holding(a, m, q, T, M, P, fr, b) ==
  /\ a.bucket = b /\ q.bucket = b /\ m.bucket = Row!BucketOf(b, Minute)
  /\ q = [bucket |-> q.bucket, procs |-> q.procs]
  /\ AccTells(a, InOf(fr, Ten, b)) /\ AccTells(m, InOf(fr, Minute, m.bucket))
  /\ ProcsTell(q.procs, InOf(fr, Ten, b))
  /\ Below(T, b) /\ Below(P, b) /\ Below(M, m.bucket)
  /\ Counting(m, T, a)
  /\ \A g \in fr : g \in Told(T, fr) \/ Row!BucketOf(g.at, Ten) = b

Closed ==
  /\ s10 = Row!NoSamples(None) /\ s1m = Row!NoSamples(None) /\ p10 = Row!NoProcs(None)
  /\ \/ ts = MaxTs + 1
     \/ ts = 0 /\ frames = {} /\ tens = {} /\ minutes = {} /\ prows = {}

Opening ==
  /\ ts \in 1..MaxTs /\ \E g \in frames : g.at = ts
  /\ Holding(s10, s1m, p10, tens, minutes, prows, frames, Row!BucketOf(ts, Ten))

RollupInv ==
  /\ ts \in 0..(MaxTs + 1)
  /\ frames \in SUBSET Stamps /\ IsFiniteSet(frames) /\ \A g \in frames : g.at <= ts
  /\ Disk(tens, minutes, prows, frames)
  /\ Closed \/ Opening

\* An empty disk tells of no frame.
LEMMA NothingOnDisk ==
  ASSUME NEW fr
  PROVE  Disk({}, {}, {}, fr)
<1>1. Told({}, fr) = {} /\ SeenIn({}) = {} /\ Rowed({}) = {}
  BY DEF Told, SeenIn, Rowed
<1>2. QED
  BY <1>1, FS_EmptySet DEF Disk, TensTell, MinutesTell, ProcRowsTell

\* Nothing is observed at first.
LEMMA RollupStart == Row!Init => RollupInv
<1> SUFFICES ASSUME Row!Init PROVE RollupInv
  OBVIOUS
<1>1. Closed
  BY DEF Row!Init, Closed
<1>2. ts \in 0..(MaxTs + 1) /\ frames = {} /\ tens = {} /\ minutes = {} /\ prows = {}
  BY RollupConstants DEF Row!Init
<1>3. QED
  BY <1>1, <1>2, NothingOnDisk, FS_EmptySet DEF RollupInv

\* Totals of rows are counts.
LEMMA TotalIsNatural ==
  ASSUME NEW T, NEW fr, TensTell(T, fr), NEW m, NEW counter \in Row!Counters
  PROVE  Row!Total(Parts(T, m), counter) \in Nat
<1> DEFINE v == [r \in Parts(T, m) |-> r[counter]]
<1>1. IsFiniteSet(Parts(T, m))
  BY FS_Subset DEF Parts, TensTell
<1>2. \A r \in Parts(T, m) : v[r] = r[counter] /\ v[r] \in Nat
  BY DEF Parts, TensTell, RowTypes
<1> HIDE DEF v
<1>3. Row!Total(Parts(T, m), counter) = SumOf(Parts(T, m), v)
  BY <1>1, <1>2, TotalIsSum
<1>4. QED
  BY <1>1, <1>2, <1>3, SumIsNatural

\* Folding a frame into the accumulators of its buckets.
LEMMA FoldKeepsHolding ==
  ASSUME NEW a, NEW m, NEW q, NEW T, NEW M, NEW P, NEW fr \in SUBSET Stamps, NEW b \in Nat,
         IsFiniteSet(fr), Holding(a, m, q, T, M, P, fr, b), Disk(T, M, P, fr),
         NEW f \in Frames, NEW t \in 1..MaxTs, \A g \in fr : g.at < t,
         Row!BucketOf(t, Ten) = b
  PROVE  /\ Holding(Row!FoldSample(a, f), Row!FoldSample(m, f),
                    [q EXCEPT !.procs = Row!FoldProcs(@, f.procs)],
                    T, M, P, fr \union {At(t, f)}, b)
         /\ Disk(T, M, P, fr \union {At(t, f)})
<1> DEFINE e == At(t, f)
           new == fr \union {e}
           mb == Row!BucketOf(b, Minute)
           a2 == Row!FoldSample(a, f)
           m2 == Row!FoldSample(m, f)
           q2 == [q EXCEPT !.procs = Row!FoldProcs(@, f.procs)]
<1>0. /\ e \in Stamps /\ e.at = t /\ t \in Nat /\ Row!BucketOf(t, Minute) = mb
      /\ m.bucket = mb
  <2>1. t \in Nat
    OBVIOUS
  <2>2. QED
    BY <2>1, TensAreInMinutes DEF Stamps, At, Holding
<1>1. e \notin fr
  BY <1>0
<1>2. InOf(new, Ten, b) = InOf(fr, Ten, b) \union {e}
  BY <1>0 DEF InOf
<1>3. InOf(new, Minute, mb) = InOf(fr, Minute, mb) \union {e}
  BY <1>0 DEF InOf
<1>4. IsFiniteSet(InOf(fr, Ten, b)) /\ IsFiniteSet(InOf(fr, Minute, mb))
  BY FS_Subset DEF InOf
<1>5. AccTells(a, InOf(fr, Ten, b)) /\ AccTells(m, InOf(fr, Minute, mb))
  BY <1>0 DEF Holding
<1>6. AccTells(a2, InOf(new, Ten, b))
  <2>1. e \notin InOf(fr, Ten, b)
    BY <1>1 DEF InOf
  <2>2. AccTells(a2, InOf(fr, Ten, b) \union {e})
    BY <1>4, <1>5, <2>1, FoldTells
  <2> HIDE DEF a2, new
  <2> QED BY <1>2, <2>2
<1>7. AccTells(m2, InOf(new, Minute, mb))
  <2>1. e \notin InOf(fr, Minute, mb)
    BY <1>1 DEF InOf
  <2>2. AccTells(m2, InOf(fr, Minute, mb) \union {e})
    BY <1>4, <1>5, <2>1, FoldTells
  <2> HIDE DEF m2, new
  <2> QED BY <1>3, <2>2
<1>8. /\ a2.bucket = a.bucket /\ m2.bucket = m.bucket
      /\ \A counter \in Row!Counters :
           /\ a2[counter] = a[counter] + Adds(f, counter)
           /\ m2[counter] = m[counter] + Adds(f, counter)
           /\ Adds(f, counter) \in {0, 1} /\ a[counter] \in Nat /\ m[counter] \in Nat
  <2>1. ASSUME NEW x, NEW gs, AccTells(x, gs)
        PROVE  /\ Row!FoldSample(x, f).bucket = x.bucket
               /\ \A counter \in Row!Counters :
                    /\ Row!FoldSample(x, f)[counter] = x[counter] + Adds(f, counter)
                    /\ Adds(f, counter) \in {0, 1} /\ x[counter] \in Nat
    <3>1. Row!FoldSample(x, f)
            = [bucket |-> x.bucket, n |-> x.n + 1, power |-> Row!Push(x.power, f.power),
               throttle |-> x.throttle + Adds(f, "throttle"),
               thermal |-> x.thermal + Adds(f, "thermal"),
               hw |-> x.hw + Adds(f, "hw"),
               observed |-> x.observed + Adds(f, "observed")]
      BY <2>1, FoldAdds
    <3>2. Row!FoldSample(x, f).bucket = x.bucket
      BY <3>1
    <3>3. \A counter \in Row!Counters :
            /\ Row!FoldSample(x, f)[counter] = x[counter] + Adds(f, counter)
            /\ Adds(f, counter) \in {0, 1} /\ x[counter] \in Nat
      BY <2>1, FoldAdds
    <3> QED BY <3>2, <3>3
  <2>2. /\ a2.bucket = a.bucket
        /\ \A counter \in Row!Counters :
             /\ a2[counter] = a[counter] + Adds(f, counter)
             /\ Adds(f, counter) \in {0, 1} /\ a[counter] \in Nat
    BY <1>5, <2>1
  <2>3. /\ m2.bucket = m.bucket
        /\ \A counter \in Row!Counters :
             m2[counter] = m[counter] + Adds(f, counter) /\ m[counter] \in Nat
    BY <1>5, <2>1
  <2> HIDE DEF a2, m2
  <2> QED BY <2>2, <2>3
<1>9. /\ q2 = [bucket |-> q2.bucket, procs |-> q2.procs] /\ q2.bucket = q.bucket
      /\ q2.procs = Row!FoldProcs(q.procs, f.procs)
  <2>1. q = [bucket |-> q.bucket, procs |-> q.procs]
    BY DEF Holding
  <2> QED BY <2>1
<1>10. ProcsTell(q2.procs, InOf(new, Ten, b))
  <2>1. InOf(fr, Ten, b) \in SUBSET Stamps /\ \A g \in InOf(fr, Ten, b) : g.at < t
    BY DEF InOf
  <2>2. ProcsTell(q.procs, InOf(fr, Ten, b))
    BY DEF Holding
  <2>3. ProcsTell(Row!FoldProcs(q.procs, f.procs), InOf(fr, Ten, b) \union {e})
    BY <2>1, <2>2, FoldedProcsTell
  <2> HIDE DEF q2, new
  <2> QED BY <1>2, <1>9, <2>3
<1>11. Counting(m2, T, a2)
  <2>1. ASSUME NEW counter \in Row!Counters
        PROVE  m2[counter] = Row!Total(Parts(T, m2.bucket), counter) + a2[counter]
    <3>1. Row!Total(Parts(T, m.bucket), counter) \in Nat
      BY TotalIsNatural DEF Disk
    <3>2. m[counter] = Row!Total(Parts(T, m.bucket), counter) + a[counter]
      BY DEF Holding, Counting
    <3>3. /\ m2.bucket = m.bucket /\ a2[counter] = a[counter] + Adds(f, counter)
          /\ m2[counter] = m[counter] + Adds(f, counter)
          /\ Adds(f, counter) \in Nat /\ a[counter] \in Nat /\ m[counter] \in Nat
      BY <1>8
    <3> HIDE DEF a2, m2
    <3>4. QED
      BY <3>1, <3>2, <3>3
  <2> HIDE DEF a2, m2
  <2>2. QED
    BY <2>1 DEF Counting
<1>12. \A g \in new : g \in Told(T, new) \/ Row!BucketOf(g.at, Ten) = b
  BY <1>0 DEF Holding, Told
<1>13. Disk(T, M, P, new)
  BY <1>0, DiskKeepsFrame DEF Holding
<1>14. Below(T, b) /\ Below(P, b) /\ Below(M, mb) /\ a.bucket = b /\ q.bucket = b
  BY <1>0 DEF Holding
<1> HIDE DEF a2, m2, q2, new, mb
<1>15. Holding(a2, m2, q2, T, M, P, new, b)
  BY <1>0, <1>6, <1>7, <1>8, <1>9, <1>10, <1>11, <1>12, <1>14 DEF Holding, mb
<1>16. QED
  BY <1>13, <1>15 DEF a2, m2, q2, new

\* When the ten seconds end.
LEMMA TenEnds ==
  ASSUME RollupInv, Opening
  PROVE  LET T2 == tens \union {Row!SampleRow(s10)}
             P2 == prows \union Row!ProcRows(p10)
         IN  /\ Disk(T2, minutes, P2, frames)
             /\ Disk(T2, minutes \union {Row!SampleRow(s1m)}, P2, frames)
             /\ \A counter \in Row!Counters :
                  s1m[counter] = Row!Total(Parts(T2, s1m.bucket), counter)
             /\ frames = Told(T2, frames)
             /\ Row!SampleRow(s10).bucket = s10.bucket
             /\ Row!SampleRow(s1m).bucket = s1m.bucket
             /\ \A r \in Row!ProcRows(p10) : r.bucket = s10.bucket
<1> DEFINE T2 == tens \union {Row!SampleRow(s10)}
           P2 == prows \union Row!ProcRows(p10)
           b == Row!BucketOf(ts, Ten)
           mb == Row!BucketOf(b, Minute)
<1>1. b \in Nat /\ mb \in Nat /\ frames \in SUBSET Stamps /\ Disk(tens, minutes, prows, frames)
  <2>1. ts \in Nat
    BY DEF Opening
  <2>2. b \in Nat
    BY <2>1, BucketIs, RollupConstants
  <2>3. mb \in Nat
    BY <2>2, BucketIs, RollupConstants
  <2> QED BY <2>2, <2>3 DEF RollupInv
<1> HIDE DEF b
<1>2. /\ s10.bucket = b /\ p10.bucket = b /\ s1m.bucket = mb
      /\ AccTells(s10, InOf(frames, Ten, b)) /\ AccTells(s1m, InOf(frames, Minute, mb))
      /\ ProcsTell(p10.procs, InOf(frames, Ten, b))
      /\ Below(tens, b) /\ Below(prows, b) /\ Below(minutes, mb)
      /\ Counting(s1m, tens, s10)
      /\ \A g \in frames : g \in Told(tens, frames) \/ Row!BucketOf(g.at, Ten) = b
  BY DEF Opening, Holding, b
<1>3. Disk(T2, minutes, P2, frames)
  BY <1>1, <1>2, WriteTen
<1>4. /\ Row!SampleRow(s10).bucket = b /\ Row!SampleRow(s1m).bucket = mb
      /\ \A r \in Row!ProcRows(p10) : r.bucket = b
  <2>1. Row!SampleRow(s10).bucket = b
    BY <1>2, RowTells
  <2>2. Row!SampleRow(s1m).bucket = mb
    BY <1>2, RowTells
  <2>3. \A r \in Row!ProcRows(p10) : r.bucket = b
    BY <1>2 DEF Row!ProcRows
  <2> QED BY <2>1, <2>2, <2>3
<1>5. \A counter \in Row!Counters : s1m[counter] = Row!Total(Parts(T2, s1m.bucket), counter)
  <2>1. TensTell(tens, frames)
    BY <1>1 DEF Disk
  <2> HIDE DEF mb
  <2> QED BY <1>1, <1>2, <2>1, CountingGoes DEF mb
<1>6. frames = Told(T2, frames)
  BY <1>2, <1>4 DEF Told
<1> HIDE DEF T2, P2, mb
<1>7. Disk(T2, minutes \union {Row!SampleRow(s1m)}, P2, frames)
  <2>1. InOf(frames, Minute, mb) \subseteq Told(T2, frames)
    BY <1>6 DEF InOf
  <2> QED BY <1>1, <1>2, <1>3, <1>5, <2>1, WriteMinute
<1>8. QED
  BY <1>2, <1>3, <1>4, <1>5, <1>6, <1>7 DEF T2, P2

Observed(t) ==
  LET b10 == Row!BucketOf(t, Ten)
      b1m == Row!BucketOf(t, Minute)
  IN  [a |-> Row!Opened(s10, b10, Row!NoSamples(b10)),
       m |-> Row!Opened(s1m, b1m, Row!NoSamples(b1m)),
       q |-> Row!Opened(p10, b10, Row!NoProcs(b10)),
       T |-> tens \union {Row!SampleRow(a) : a \in {x \in {s10} : Row!Crosses(x, b10)}},
       M |-> minutes \union {Row!SampleRow(a) : a \in {x \in {s1m} : Row!Crosses(x, b1m)}},
       P |-> prows \union UNION {Row!ProcRows(b) : b \in {x \in {p10} : Row!Crosses(x, b10)}}]

\* A fresh process bucket tells of no frame.
LEMMA NothingHeld ==
  ASSUME NEW fr, NEW b
  PROVE  ProcsTell(Row!NoProcs(b).procs, {}) /\ Row!NoProcs(b) = [bucket |-> b, procs |-> <<>>]
<1>1. DOMAIN <<>> = {}
  OBVIOUS
<1>2. UNION {DOMAIN g.f.procs : g \in {}} = {}
  OBVIOUS
<1>3. QED
  BY <1>1, <1>2 DEF ProcsTell, Row!NoProcs

\* Fresh accumulators for a bucket no frame is in.
LEMMA FreshHolds ==
  ASSUME NEW m, NEW T, NEW M, NEW P, NEW fr \in SUBSET Stamps, Disk(T, M, P, fr), NEW b \in Nat,
         m.bucket = Row!BucketOf(b, Minute), InOf(fr, Ten, b) = {},
         AccTells(m, InOf(fr, Minute, m.bucket)),
         Below(T, b), Below(P, b), Below(M, m.bucket),
         \A counter \in Row!Counters : m[counter] = Row!Total(Parts(T, m.bucket), counter),
         fr = Told(T, fr)
  PROVE  Holding(Row!NoSamples(b), m, Row!NoProcs(b), T, M, P, fr, b)
<1>1. AccTells(Row!NoSamples(b), InOf(fr, Ten, b))
  BY NothingTells
<1>2. ProcsTell(Row!NoProcs(b).procs, InOf(fr, Ten, b))
  BY NothingHeld
<1>3. Counting(m, T, Row!NoSamples(b))
  <2>1. ASSUME NEW counter \in Row!Counters
        PROVE  m[counter] = Row!Total(Parts(T, m.bucket), counter)
                             + Row!NoSamples(b)[counter]
    <3>1. Row!NoSamples(b)[counter] = 0
      BY DEF Row!NoSamples, Row!Counters
    <3>2. Row!Total(Parts(T, m.bucket), counter) \in Nat
      BY TotalIsNatural DEF Disk
    <3>3. m[counter] = Row!Total(Parts(T, m.bucket), counter)
      OBVIOUS
    <3>4. QED
      BY <3>1, <3>2, <3>3
  <2>2. QED
    BY <2>1 DEF Counting
<1>4. /\ Row!NoSamples(b).bucket = b /\ Row!NoProcs(b).bucket = b
      /\ Row!NoProcs(b) = [bucket |-> Row!NoProcs(b).bucket, procs |-> Row!NoProcs(b).procs]
  BY DEF Row!NoSamples, Row!NoProcs
<1>5. \A g \in fr : g \in Told(T, fr) \/ Row!BucketOf(g.at, Ten) = b
  OBVIOUS
<1>6. QED
  BY <1>1, <1>2, <1>3, <1>4, <1>5 DEF Holding

\* What the next frame finds: accumulators of its buckets, and everything of
\* earlier ones on disk.
LEMMA OpenedHolds ==
  ASSUME RollupInv, NEW t \in (ts + 1)..MaxTs
  PROVE  LET o == Observed(t)
         IN  /\ Holding(o.a, o.m, o.q, o.T, o.M, o.P, frames, Row!BucketOf(t, Ten))
             /\ Disk(o.T, o.M, o.P, frames)
<1> DEFINE b == Row!BucketOf(t, Ten)
           mb == Row!BucketOf(t, Minute)
           o == Observed(t)
<1>0. ts \in Nat /\ t \in Nat /\ ts < t /\ t \in 1..MaxTs /\ ts <= MaxTs
  BY RollupConstants DEF RollupInv
<1>1. b \in Nat /\ mb \in Nat /\ mb = Row!BucketOf(b, Minute) /\ b # None /\ mb # None
  BY <1>0, BucketIs, TensAreInMinutes, RollupConstants
<1>2. /\ frames \in SUBSET Stamps /\ Disk(tens, minutes, prows, frames)
      /\ \A g \in frames : g.at \in Nat /\ g.at <= ts
  BY StampIs DEF RollupInv
<1>3. CASE Closed
  <2>1. frames = {} /\ tens = {} /\ minutes = {} /\ prows = {}
    BY <1>0, <1>3, RollupConstants DEF Closed
  <2>2. /\ s10.bucket = None /\ s1m.bucket = None /\ p10.bucket = None
        /\ [s10 EXCEPT !.bucket = b] = Row!NoSamples(b)
        /\ [s1m EXCEPT !.bucket = mb] = Row!NoSamples(mb)
        /\ [p10 EXCEPT !.bucket = b] = Row!NoProcs(b)
    BY <1>3 DEF Closed, Row!NoSamples, Row!NoProcs
  <2>3. /\ o.a = Row!NoSamples(b) /\ o.m = Row!NoSamples(mb) /\ o.q = Row!NoProcs(b)
        /\ o.T = {} /\ o.M = {} /\ o.P = {}
    BY <2>1, <2>2 DEF Observed, Row!Opened, Row!Crosses
  <2>4. /\ InOf(frames, Ten, b) = {} /\ InOf(frames, Minute, mb) = {}
        /\ Told({}, frames) = frames /\ Parts({}, mb) = {}
    BY <2>1 DEF InOf, Told, Parts
  <2>5. /\ Row!NoSamples(mb).bucket = mb
        /\ \A counter \in Row!Counters : Row!NoSamples(mb)[counter] = 0
    BY DEF Row!NoSamples, Row!Counters
  <2>6. AccTells(Row!NoSamples(mb), {})
    BY NothingTells
  <2>7. Disk({}, {}, {}, frames)
    BY NothingOnDisk
  <2>8. Below({}, b) /\ Below({}, mb)
    BY DEF Below
  <2>9. \A counter \in Row!Counters :
          Row!NoSamples(mb)[counter] = Row!Total(Parts({}, mb), counter)
    BY <2>4, <2>5, TotalOfNone
  <2> HIDE DEF o, b, mb
  <2>10. Holding(Row!NoSamples(b), Row!NoSamples(mb), Row!NoProcs(b), {}, {}, {}, frames, b)
    BY <1>1, <1>2, <2>4, <2>5, <2>6, <2>7, <2>8, <2>9, FreshHolds
  <2>11. QED
    BY <2>3, <2>7, <2>10 DEF o, b
<1>4. CASE Opening
  <2> DEFINE b0 == Row!BucketOf(ts, Ten)
             m0 == Row!BucketOf(ts, Minute)
  <2>1. /\ b0 \in Nat /\ m0 \in Nat /\ m0 = Row!BucketOf(b0, Minute) /\ b0 <= b /\ m0 <= mb
        /\ b0 # None /\ m0 # None
    <3>1. b0 \in Nat /\ m0 \in Nat /\ m0 = Row!BucketOf(b0, Minute)
      BY <1>0, BucketIs, TensAreInMinutes, RollupConstants
    <3>2. b0 <= b
      BY <1>0, BucketsRun, RollupConstants
    <3>3. m0 <= mb
      BY <1>0, BucketsRun, RollupConstants
    <3> QED BY <3>1, <3>2, <3>3, RollupConstants
  <2>2. /\ Holding(s10, s1m, p10, tens, minutes, prows, frames, b0)
        /\ s10.bucket = b0 /\ p10.bucket = b0 /\ s1m.bucket = m0
    BY <1>4, <2>1 DEF Opening, Holding
  <2>3. \A g \in frames : /\ Row!BucketOf(g.at, Ten) \in Nat /\ Row!BucketOf(g.at, Ten) <= b0
                          /\ Row!BucketOf(g.at, Minute) \in Nat
                          /\ Row!BucketOf(g.at, Minute) <= m0
    <3>1. TAKE g \in frames
    <3>2. g.at \in Nat /\ g.at <= ts
      BY <1>2
    <3>3. Row!BucketOf(g.at, Ten) \in Nat /\ Row!BucketOf(g.at, Minute) \in Nat
      BY <3>2, BucketIs, RollupConstants
    <3>4. Row!BucketOf(g.at, Ten) <= b0
      BY <1>0, <3>2, BucketsRun, RollupConstants
    <3>5. Row!BucketOf(g.at, Minute) <= m0
      BY <1>0, <3>2, BucketsRun, RollupConstants
    <3> QED BY <3>3, <3>4, <3>5
  <2> DEFINE T2 == tens \union {Row!SampleRow(s10)}
             P2 == prows \union Row!ProcRows(p10)
             M2 == minutes \union {Row!SampleRow(s1m)}
  <2>4. /\ Disk(T2, minutes, P2, frames) /\ Disk(T2, M2, P2, frames)
        /\ \A counter \in Row!Counters :
             s1m[counter] = Row!Total(Parts(T2, s1m.bucket), counter)
        /\ frames = Told(T2, frames)
        /\ Row!SampleRow(s10).bucket = b0 /\ Row!SampleRow(s1m).bucket = m0
        /\ \A r \in Row!ProcRows(p10) : r.bucket = b0
    BY <1>4, <2>2, TenEnds
  <2>5. Below(tens, b0) /\ Below(prows, b0) /\ Below(minutes, m0)
    BY <2>2 DEF Holding
  <2> HIDE DEF b0, m0, b, mb
  <2>6. CASE b = b0
    <3>1. mb = m0
      BY <1>1, <2>1, <2>6
    <3>2. ~ Row!Crosses(s10, b) /\ ~ Row!Crosses(s1m, mb) /\ ~ Row!Crosses(p10, b)
      BY <1>1, <2>2, <2>6, <3>1 DEF Row!Crosses
    <3>3. /\ o.a = s10 /\ o.m = s1m /\ o.q = p10
          /\ o.T = tens /\ o.M = minutes /\ o.P = prows
      BY <2>1, <2>2, <3>2 DEF Observed, Row!Opened, b, mb
    <3> HIDE DEF o
    <3>4. QED
      BY <1>2, <2>2, <2>6, <3>3 DEF o, b
  <2>7. CASE b0 < b
    <3>1. Row!Crosses(s10, b) /\ Row!Crosses(p10, b)
      BY <2>1, <2>2, <2>7 DEF Row!Crosses
    <3>2. o.a = Row!NoSamples(b) /\ o.q = Row!NoProcs(b) /\ o.T = T2 /\ o.P = P2
      BY <3>1 DEF Observed, Row!Opened, b
    <3>3. InOf(frames, Ten, b) = {}
      BY <1>1, <2>1, <2>3, <2>7 DEF InOf
    <3>4. Below(T2, b) /\ Below(P2, b)
      <4>1. \A x \in Nat : x <= b0 => x < b
        BY <1>1, <2>1, <2>7
      <4>2. \A r \in T2 : r.bucket \in Nat /\ r.bucket <= b0
        BY <2>1, <2>4, <2>5 DEF Below
      <4>3. \A r \in P2 : r.bucket \in Nat /\ r.bucket <= b0
        BY <2>1, <2>4, <2>5 DEF Below
      <4> QED BY <4>1, <4>2, <4>3 DEF Below
    <3>5. CASE mb = m0
      <4>1. ~ Row!Crosses(s1m, mb)
        BY <1>1, <2>2, <3>5 DEF Row!Crosses
      <4>2. o.m = s1m /\ o.M = minutes
        BY <2>1, <2>2, <4>1 DEF Observed, Row!Opened, mb
      <4>3. /\ s1m.bucket = Row!BucketOf(b, Minute)
            /\ AccTells(s1m, InOf(frames, Minute, s1m.bucket)) /\ Below(minutes, s1m.bucket)
        BY <1>1, <2>2, <3>5 DEF Holding
      <4> HIDE DEF T2, P2, M2, o
      <4>4. Holding(Row!NoSamples(b), s1m, Row!NoProcs(b), T2, minutes, P2, frames, b)
        BY <1>1, <1>2, <2>4, <3>3, <3>4, <4>3, FreshHolds
      <4>5. QED
        BY <2>4, <3>2, <4>2, <4>4 DEF o, b
    <3>6. CASE m0 < mb
      <4>1. Row!Crosses(s1m, mb)
        BY <2>1, <2>2, <3>6 DEF Row!Crosses
      <4>2. o.m = Row!NoSamples(mb) /\ o.M = M2
        BY <4>1 DEF Observed, Row!Opened, mb
      <4>3. /\ Row!NoSamples(mb).bucket = mb
            /\ \A counter \in Row!Counters : Row!NoSamples(mb)[counter] = 0
        BY DEF Row!NoSamples, Row!Counters
      <4>4. InOf(frames, Minute, mb) = {}
        BY <1>1, <2>1, <2>3, <3>6 DEF InOf
      <4>5. AccTells(Row!NoSamples(mb), {})
        BY NothingTells
      <4>6. Below(M2, mb)
        BY <1>1, <2>1, <2>4, <2>5, <3>6 DEF Below
      <4>7. Parts(T2, mb) = {}
        <5>1. ASSUME NEW r \in T2
              PROVE  Row!BucketOf(r.bucket, Minute) # mb
          <6>1. r.bucket \in Nat /\ r.bucket <= b0
            BY <2>1, <2>4, <2>5 DEF Below
          <6>2. Row!BucketOf(r.bucket, Minute) <= Row!BucketOf(b0, Minute)
            BY <2>1, <6>1, BucketsRun, RollupConstants
          <6>3. Row!BucketOf(r.bucket, Minute) \in Nat
            BY <6>1, BucketIs, RollupConstants
          <6>4. QED
            BY <1>1, <2>1, <3>6, <6>2, <6>3
        <5>2. QED
          BY <5>1 DEF Parts
      <4>8. \A counter \in Row!Counters :
              Row!NoSamples(mb)[counter] = Row!Total(Parts(T2, mb), counter)
        BY <4>3, <4>7, TotalOfNone
      <4> HIDE DEF T2, P2, M2, o
      <4>9. Holding(Row!NoSamples(b), Row!NoSamples(mb), Row!NoProcs(b), T2, M2, P2, frames, b)
        BY <1>1, <1>2, <2>4, <3>3, <3>4, <4>3, <4>4, <4>5, <4>6, <4>8, FreshHolds
      <4>10. QED
        BY <2>4, <3>2, <4>2, <4>9 DEF o, b
    <3>7. QED
      BY <1>1, <2>1, <3>5, <3>6
  <2>8. QED
    BY <1>1, <2>1, <2>6, <2>7
<1>5. QED
  BY <1>3, <1>4 DEF RollupInv

\* A frame observed: in the open buckets, or after closing one or both.
LEMMA ObserveKeepsRollup ==
  ASSUME RollupInv, NEW f \in Frames, Row!Observe(f)
  PROVE  RollupInv'
<1> DEFINE o(t) == Observed(t)
<1>1. PICK t \in (ts + 1)..MaxTs :
        /\ ts' = t
        /\ s10' = Row!FoldSample(o(t).a, f)
        /\ s1m' = Row!FoldSample(o(t).m, f)
        /\ p10' = [o(t).q EXCEPT !.procs = Row!FoldProcs(@, f.procs)]
        /\ tens' = o(t).T /\ minutes' = o(t).M /\ prows' = o(t).P
        /\ frames' = frames \union {At(t, f)}
  BY DEF Row!Observe, Observed, At
<1> DEFINE b == Row!BucketOf(t, Ten)
<1>2. /\ Holding(o(t).a, o(t).m, o(t).q, o(t).T, o(t).M, o(t).P, frames, b)
      /\ Disk(o(t).T, o(t).M, o(t).P, frames)
  BY OpenedHolds
<1>3. /\ t \in 1..MaxTs /\ t \in 0..(MaxTs + 1) /\ t \in Nat /\ ts < t /\ ts \in Nat
      /\ frames \in SUBSET Stamps /\ IsFiniteSet(frames)
      /\ \A g \in frames : g.at \in Nat /\ g.at <= ts
  BY RollupConstants, StampIs DEF RollupInv
<1>4. b \in Nat
  BY <1>3, BucketIs, RollupConstants
<1>5. \A g \in frames : g.at < t
  BY <1>3
<1> HIDE DEF o
<1>6. /\ Holding(s10', s1m', p10', tens', minutes', prows', frames', b)
      /\ Disk(tens', minutes', prows', frames')
  <2>1. /\ Holding(Row!FoldSample(o(t).a, f), Row!FoldSample(o(t).m, f),
                   [o(t).q EXCEPT !.procs = Row!FoldProcs(@, f.procs)],
                   o(t).T, o(t).M, o(t).P, frames \union {At(t, f)}, b)
        /\ Disk(o(t).T, o(t).M, o(t).P, frames \union {At(t, f)})
    <3> HIDE DEF b
    <3> QED BY <1>2, <1>3, <1>4, <1>5, FoldKeepsHolding DEF b
  <2> HIDE DEF b
  <2> QED BY <1>1, <2>1
<1>7. /\ At(t, f) \in Stamps /\ At(t, f).at = t /\ At(t, f) \in frames'
      /\ frames' \in SUBSET Stamps /\ IsFiniteSet(frames')
  BY <1>1, <1>3, FS_AddElement DEF Stamps, At
<1>8. \A g \in frames' : g.at <= ts'
  BY <1>1, <1>3, <1>7
<1>9. Opening'
  BY <1>1, <1>3, <1>6, <1>7 DEF Opening
<1>10. QED
  BY <1>1, <1>3, <1>6, <1>7, <1>8, <1>9 DEF RollupInv

\* Finish writes what is open.
LEMMA FlushKeepsRollup ==
  ASSUME RollupInv, Row!Flush
  PROVE  RollupInv'
<1>0. /\ ts' = MaxTs + 1 /\ ts < MaxTs + 1 /\ frames' = frames
      /\ s10' = Row!NoSamples(None) /\ s1m' = Row!NoSamples(None)
      /\ p10' = Row!NoProcs(None)
      /\ tens' = tens \union {Row!SampleRow(a) : a \in {x \in {s10} : x.n > 0}}
      /\ minutes' = minutes \union {Row!SampleRow(a) : a \in {x \in {s1m} : x.n > 0}}
      /\ prows' = prows \union Row!ProcRows(p10)
  BY DEF Row!Flush
<1>1. Closed'
  BY <1>0 DEF Closed
<1>2. /\ ts' \in 0..(MaxTs + 1) /\ frames' \in SUBSET Stamps /\ IsFiniteSet(frames')
      /\ \A g \in frames' : g.at <= ts'
  <2>1. ts \in Nat /\ MaxTs \in Nat
    BY RollupConstants DEF RollupInv
  <2>2. \A g \in frames : g.at \in Nat /\ g.at <= ts
    BY StampIs DEF RollupInv
  <2>3. \A g \in frames : g.at <= MaxTs + 1
    BY <1>0, <2>1, <2>2
  <2> QED BY <1>0, <2>1, <2>3 DEF RollupInv
<1>3. Disk(tens, minutes, prows, frames)'
  <2>1. CASE Closed
    <3>1. ts = 0 /\ tens = {} /\ minutes = {} /\ prows = {}
      BY <1>0, <2>1, RollupConstants DEF Closed
    <3>2. s10.n = 0 /\ s1m.n = 0 /\ ~ (0 > 0)
      BY <2>1 DEF Closed, Row!NoSamples
    <3>3. Row!ProcRows(p10) = {}
      <4>1. DOMAIN p10.procs = {}
        BY <2>1 DEF Closed, Row!NoProcs
      <4> QED BY <4>1 DEF Row!ProcRows
    <3>4. tens' = {} /\ minutes' = {} /\ prows' = {}
      BY <1>0, <3>1, <3>2, <3>3
    <3>5. QED
      BY <3>4, NothingOnDisk
  <2>2. CASE Opening
    <3> DEFINE b == Row!BucketOf(ts, Ten)
               m == Row!BucketOf(b, Minute)
    <3>1. /\ AccTells(s10, InOf(frames, Ten, b)) /\ AccTells(s1m, InOf(frames, Minute, m))
      BY <2>2 DEF Opening, Holding
    <3>2. PICK g \in frames : g.at = ts /\ g.at \in Nat
      BY <2>2, StampIs DEF Opening, RollupInv
    <3>3. g \in InOf(frames, Ten, b) /\ g \in InOf(frames, Minute, m)
      BY <3>2, TensAreInMinutes DEF InOf
    <3>4. IsFiniteSet(InOf(frames, Ten, b)) /\ IsFiniteSet(InOf(frames, Minute, m))
      BY FS_Subset DEF InOf, RollupInv
    <3> HIDE DEF b, m
    <3>5. s10.n > 0
      <4>1. Cardinality(InOf(frames, Ten, b)) \in Nat /\ Cardinality(InOf(frames, Ten, b)) # 0
        BY <3>3, <3>4, FS_CardinalityType, FS_EmptySet
      <4> QED BY <3>1, <4>1 DEF AccTells
    <3>6. s1m.n > 0
      <4>1. /\ Cardinality(InOf(frames, Minute, m)) \in Nat
            /\ Cardinality(InOf(frames, Minute, m)) # 0
        BY <3>3, <3>4, FS_CardinalityType, FS_EmptySet
      <4> QED BY <3>1, <4>1 DEF AccTells
    <3>7. /\ tens' = tens \union {Row!SampleRow(s10)}
          /\ minutes' = minutes \union {Row!SampleRow(s1m)}
      BY <1>0, <3>5, <3>6
    <3>8. Disk(tens \union {Row!SampleRow(s10)}, minutes \union {Row!SampleRow(s1m)},
               prows \union Row!ProcRows(p10), frames)
      BY <2>2, TenEnds
    <3>9. QED
      BY <1>0, <3>7, <3>8
  <2>3. QED
    BY <2>1, <2>2 DEF RollupInv
<1>4. QED
  BY <1>1, <1>2, <1>3 DEF RollupInv

\* Both actions keep the invariant.
LEMMA RollupSteps == RollupInv /\ [Row!Next]_rowVars => RollupInv'
<1> SUFFICES ASSUME RollupInv, [Row!Next]_rowVars PROVE RollupInv'
  OBVIOUS
<1>1. CASE UNCHANGED rowVars
  BY <1>1 DEF rowVars, RollupInv, Closed, Opening
<1>2. ASSUME NEW f \in Frames, Row!Observe(f)
      PROVE  RollupInv'
  BY <1>2, ObserveKeepsRollup
<1>3. CASE Row!Flush
  BY <1>3, FlushKeepsRollup
<1>4. QED
  BY <1>1, <1>2, <1>3 DEF Row!Next

\* What the invariant says of the disk is what the property does.
LEMMA RollupShows == RollupInv => Row!RowsTellTheirFrames /\ Row!TypeOK
<1> SUFFICES ASSUME RollupInv PROVE Row!RowsTellTheirFrames /\ Row!TypeOK
  OBVIOUS
<1>1. Disk(tens, minutes, prows, frames)
  BY DEF RollupInv
<1>2. \A w, b : Row!In(w, b) = InOf(frames, w, b)
  BY DEF Row!In, InOf
<1>3. \A r \in tens : Row!Tells(r, Row!In(Ten, r.bucket))
  BY <1>1, <1>2 DEF Disk, TensTell
<1>4. ASSUME NEW m \in minutes
      PROVE  Row!Tells(m, Row!In(Minute, m.bucket)) /\ Row!TiersAgree(m)
  <2>1. Row!Tells(m, InOf(frames, Minute, m.bucket)) /\ Agree(m, tens)
    BY <1>1 DEF Disk, MinutesTell
  <2>2. Row!TiersAgree(m)
    BY <2>1 DEF Row!TiersAgree, Agree, Parts, Known
  <2>3. QED
    BY <1>2, <2>1, <2>2
<1>5. Row!ProcsTold
  <2>1. Rowed(prows) = SeenIn(Told(tens, frames))
    BY <1>1 DEF Disk, ProcRowsTell
  <2>2. {<<r.bucket, r.pid>> : r \in prows}
          = UNION {{<<Row!BucketOf(g.at, Ten), p>> : p \in DOMAIN g.f.procs} :
                     g \in {x \in frames : \E r \in tens : r.bucket = Row!BucketOf(x.at, Ten)}}
    BY <2>1 DEF Rowed, SeenIn, Told
  <2>3. ASSUME NEW r \in prows
        PROVE  LET his == {g \in Row!In(Ten, r.bucket) : r.pid \in DOMAIN g.f.procs}
                   mems == {g.f.procs[r.pid].mem : g \in his} \ {None}
               IN /\ \E g \in his : g.f.procs[r.pid].kind = r.kind /\ \A o \in his : o.at <= g.at
                  /\ r.mem = IF mems = {} THEN None ELSE Row!Max(mems)
    <3> DEFINE gs == InOf(frames, Ten, r.bucket)
               his == Listing(gs, r.pid)
               mems == Mems(gs, r.pid)
               entry == [mem |-> r.mem, kind |-> r.kind]
    <3>1. ProcTells(entry, r.pid, gs)
      BY <1>1 DEF Disk, ProcRowsTell, ProcRowTells
    <3>2. \E g \in his : g.f.procs[r.pid].kind = r.kind /\ \A o \in his : o.at <= g.at
      BY <3>1 DEF ProcTells
    <3>3. IsPeak(r.mem, mems)
      BY <3>1 DEF ProcTells
    <3>4. mems \in SUBSET Int
      <4>1. \A g \in his : g.f \in Frames /\ r.pid \in DOMAIN g.f.procs
        BY StampIs DEF RollupInv, Listing, InOf
      <4>2. \A g \in his : g.f.procs[r.pid].mem \in Figure
        BY <4>1, EngineAssumption DEF Row!RollupAssumption, Figure
      <4> QED BY <4>2 DEF Mems, Figure
    <3>5. r.mem = IF mems = {} THEN None ELSE Row!Max(mems)
      <4>1. CASE mems = {}
        BY <3>3, <4>1 DEF IsPeak
      <4>2. CASE mems # {}
        <5>1. r.mem \in mems /\ \A x \in mems : x <= r.mem
          BY <3>3, <4>2 DEF IsPeak
        <5> HIDE DEF mems
        <5> QED BY <3>4, <4>2, <5>1, RowMaxIs
      <4> QED BY <4>1, <4>2
    <3>6. /\ his = {g \in Row!In(Ten, r.bucket) : r.pid \in DOMAIN g.f.procs}
          /\ mems = {g.f.procs[r.pid].mem : g \in his} \ {None}
      BY <1>2 DEF Listing, Mems
    <3> HIDE DEF his, mems
    <3>7. QED
      BY <3>2, <3>5, <3>6
  <2>4. QED
    BY <2>2, <2>3 DEF Row!ProcsTold
<1>6. Row!TypeOK
  <2>1. ts \in 0..(MaxTs + 1)
    BY DEF RollupInv
  <2>2. CASE Closed
    BY <2>1, <2>2 DEF Closed, Row!TypeOK, Row!NoSamples, Row!NoProcs
  <2>3. CASE Opening
    <3>1. /\ s10.bucket = Row!BucketOf(ts, Ten) /\ p10.bucket = s10.bucket
          /\ s1m.bucket = Row!BucketOf(s10.bucket, Minute) /\ ts \in Nat
      BY <2>3 DEF Opening, Holding
    <3>2. s10.bucket \in Nat
      BY <3>1, BucketIs, RollupConstants
    <3>3. s1m.bucket \in Nat
      BY <3>1, <3>2, BucketIs, RollupConstants
    <3>4. s10.bucket # None /\ s1m.bucket # None
      BY <3>2, <3>3, RollupConstants
    <3> QED BY <2>1, <3>1, <3>4 DEF Row!TypeOK
  <2>4. QED
    BY <2>2, <2>3 DEF RollupInv
<1>7. QED
  BY <1>3, <1>4, <1>5, <1>6 DEF Row!RowsTellTheirFrames

\* Rows of both tiers and of the processes tell their frames, and each other.
LEMMA RollupPart == Spec2 => Row!Init /\ [][Row!Next]_rowVars
<1>1. Init2 => Row!Init
  BY DEF Init2
<1>2. [Next2]_<<setting, vars, outVars, regVars, prbVars, thrVars,
               qryVars, figVars, socVars, mckVars, rowVars, dmoVars>>
        => [Row!Next]_rowVars
  BY DEF Next2
<1>3. QED
  BY <1>1, <1>2, PTL DEF Spec2

\* The rows of a recorder, in every behaviour of the parts.
LEMMA RollupHolds == Spec2 => [](Row!RowsTellTheirFrames /\ Row!TypeOK)
BY RollupPart, RollupStart, RollupSteps, RollupShows, PTL
=============================================================================
