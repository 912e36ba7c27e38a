-------------------------------- MODULE Mock --------------------------------
(***************************************************************************)
(* The simulated machine (core/src/mock.rs): TrainSim, a training run with *)
(* idle gaps, memory that climbs and is let go, and thermal throttling     *)
(* with hysteresis; DesktopSim, whose `ollama` comes and goes. `step` is   *)
(* one tick of both, whether the live loop asks or the demo's seeder.      *)
(*                                                                         *)
(* Random draws are choices of the ranges the code draws from. Temperature *)
(* is the band it is in: a step moves it by less than the 5 degrees        *)
(* between the two thresholds, so never past a band. Memory is counted in  *)
(* what a tick may add.                                                    *)
(***************************************************************************)
EXTENDS Integers, FiniteSets

CONSTANTS
  GapEvery,              \* 90 ticks from one idle gap to the next
  GapMin, GapSpread,     \* 8 ticks at least, of 13 lengths; together at most GapEvery
  FirstToggle,           \* 45: when ollama first attaches
  Hold, Away, TogglesIn, \* 70 and 50 at least, of 30 lengths
  Floor, Start, Ceiling, \* 16.5, 19.2 and 22.8 GiB of the training process
  MaxTick,               \* bound of a behaviour
  None

VARIABLES
  tick,
  idle_until,    \* 0: not idle
  temp,          \* "cool" (<= 79), "warm" or "hot" (>= 84)
  throttling,
  vram,
  ollama_present, ollama_toggle_at,
  sample,        \* what the tick showed: samples and process lists, or None
  idled, stood   \* ticks this gap, and ollama's stay or absence, lasts (history)

vars == <<tick, idle_until, temp, throttling, vram, ollama_present, ollama_toggle_at,
          sample, idled, stood>>

Init ==
  /\ tick = 0 /\ idle_until = 0
  /\ temp = "cool" /\ throttling = FALSE
  /\ vram = Start
  /\ ollama_present = FALSE /\ ollama_toggle_at = FirstToggle
  /\ sample = None /\ idled = 0 /\ stood = 0

\* Bands a tick may end in.
Near(t) == CASE t = "cool" -> {"cool", "warm"}
             [] t = "warm" -> {"cool", "warm", "hot"}
             [] t = "hot" -> {"warm", "hot"}

\* The ends a gap that begins or goes on at tick t may have; 0 outside one.
IdleUntil(t) ==
  LET begins == IF idle_until = 0 /\ t % GapEvery = 0
                THEN {t + GapMin + r : r \in 0 .. (GapSpread - 1)} ELSE {idle_until}
  IN {IF u > t THEN u ELSE 0 : u \in begins}

Throttled(t) ==
  IF ~throttling /\ t = "hot" THEN TRUE
  ELSE IF throttling /\ t = "cool" THEN FALSE ELSE throttling

Climbed == LET v == vram + 1 IN IF v > Ceiling THEN Floor ELSE v

Toggles(t) == t >= ollama_toggle_at

\* When ollama next comes or goes, seen from a tick at which it did.
NextToggles(t) ==
  IF ~Toggles(t) THEN {ollama_toggle_at}
  ELSE {t + (IF ~ollama_present THEN Hold ELSE Away) + r : r \in 0 .. (TogglesIn - 1)}

\* What the training run shows of a tick: a throttled clock shows even in a
\* gap, a gap's power even where the clock is throttled.
TrainSample(idle, hot) ==
  [clock |-> IF hot THEN "throttled" ELSE IF idle THEN "idle" ELSE "full",
   power |-> IF idle THEN "idle" ELSE IF hot THEN "throttled" ELSE "full",
   util |-> IF idle THEN "idle" ELSE "busy",
   thermal |-> hot]

TrainStep(t) ==
  /\ idle_until' \in IdleUntil(t)
  /\ temp' \in Near(temp)
  /\ throttling' = Throttled(temp')
  /\ vram' = Climbed

\* The desktop's processes: gnome-shell, and ollama while it is attached.
DesktopPids(present) == IF present THEN {980, 7777} ELSE {980}

DesktopStep(t) ==
  /\ ollama_present' = (ollama_present # Toggles(t))
  /\ ollama_toggle_at' \in NextToggles(t)

\* One tick of both, and what it shows.
Step ==
  LET t == tick + 1
      idle == idle_until' > t
  IN /\ tick < MaxTick
     /\ tick' = t
     /\ TrainStep(t)
     /\ DesktopStep(t)
     /\ sample' = [train |-> TrainSample(idle, throttling'), pids |-> DesktopPids(ollama_present')]
     /\ idled' = IF idle THEN idled + 1 ELSE 0
     /\ stood' = IF Toggles(t) THEN 1 ELSE stood + 1

-----------------------------------------------------------------------------
(* Properties *)

\* A gap ends in a tick to come, memory stays in its range.
TypeOK ==
  /\ idle_until = 0 \/ (idle_until > tick /\ idle_until <= tick + GapMin + GapSpread)
  /\ vram \in Floor .. Ceiling
  /\ temp \in {"cool", "warm", "hot"}

\* However the draws fall, the simulated incident comes round again: a gap
\* begins every GapEvery ticks, is as long as the script has it, and lies well
\* apart from the next; ollama stays and stays away at least as long as it
\* should and not past its spread; what runs hot is throttled, what ran cool is not.
ScriptRepeats ==
  /\ \A g \in 1 .. (tick \div GapEvery) :
       tick - g * GapEvery < GapMin => sample.train.util = "idle"
  /\ idled < GapMin + GapSpread
  /\ tick > 0 /\ sample.train.util = "idle" => (tick % GapEvery) + 1 = idled
  /\ stood <= (IF ollama_present THEN Hold ELSE IF tick < FirstToggle THEN FirstToggle
               ELSE Away) + TogglesIn
  /\ tick > 0 => (temp = "hot" => sample.train.thermal) /\ (temp = "cool" => ~sample.train.thermal)
=============================================================================
