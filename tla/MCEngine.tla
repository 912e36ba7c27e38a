------------------------------ MODULE MCEngine ------------------------------
(***************************************************************************)
(* The parts around a tick, one per behaviour: the loop in time (Cadence), *)
(* a session on its way out (Stream), the rows made of its frames          *)
(* (Rollup), the demo's file (Demo) - and the backends beneath: which      *)
(* devices are registered (Registry), the counters of one device and the   *)
(* energy of one (Probes), its throttle state (Throttle), the shared       *)
(* Windows query (Pdh) and what is made of it (Figures), Apple's counters  *)
(* (Soc) and the simulation (Mock).                                        *)
(* They share no state, so a behaviour moves one and leaves the others in  *)
(* an initial state.                                                       *)
(***************************************************************************)
EXTENDS MCCadence, Sequences

VARIABLE setting

CONSTANTS MAX_CONSECUTIVE_PANICS, SINK_MAX_PER_MIN, SinkMinute, MaxTicks, MaxFacts
VARIABLES once, recorder, pending, ticks, panicked, finished, pc, queue, then, gone,
          now, window, lines, recorded, spawns
outVars == <<once, recorder, pending, ticks, panicked, finished, pc, queue, then,
             gone, now, window, lines, recorded, spawns>>
Out == INSTANCE Stream WITH Minute <- SinkMinute

CONSTANT Boards
VARIABLES os, machine, backends, listed, names, luids, seen_pci, devices, answered,
          skipped
regVars == <<os, machine, backends, listed, names, luids, seen_pci, devices,
             answered, skipped>>
Board(vendor, domain, bus) == [vendor |-> vendor, domain |-> domain, bus |-> bus]
MCBoards == {Board("nvidia", 0, 1), Board("nvidia", 0, 4), Board("nvidia", 1, 1),
             Board("amd", 0, 3), Board("intel", 0, 2), Board("apple", 0, 0)}
Reg == INSTANCE Registry

CONSTANTS Cards, Pids, Fds, MaxCount, MaxNow
VARIABLES dialect, clients, energy, cputime, usage, wall, cycles, engine, power,
          watermark, cpu, answer, did, drawn, stayed, known, fed, metered
prbVars == <<dialect, clients, energy, cputime, usage, wall, cycles, engine, power,
             watermark, cpu, answer, did, drawn, stayed, known, fed, metered>>
Prb == INSTANCE Probes WITH Devices <- Cards

CONSTANTS Sources, Bits, MaxAsserted
VARIABLES source, revision, written, asserted, latched, reading, seen, sample
thrVars == <<source, revision, written, asserted, latched, reading, seen, sample>>
Thr == INSTANCE Throttle

CONSTANTS Instances, SNAPSHOT_REUSE_MS, REEXPAND_MS, MaxClock
VARIABLES mode, handles, expanded, cache, clock, alive, held, served, blind,
          unread, hollow, setback
qryVars == <<mode, handles, expanded, cache, clock, alive, held, served, blind,
             unread, hollow, setback>>
MCInstances == {[pid |-> 1, luid |-> 1]}
Qry == INSTANCE Pdh WITH MaxNow <- MaxClock, skipped <- unread

CONSTANTS Adapters, Printed, Owners, Engines, Full, MaxReadings
VARIABLES readings, compute, graphics, hidden, figures
figVars == <<readings, compute, graphics, hidden, figures>>
MCAdapters == {<<0, 1>>, <<0, 2>>}
MCPrinted == {<<0, 1>>, <<2, 0>>, None}
MCEngines == {[eng |-> 0, engtype |-> "Compute"], [eng |-> 1, engtype |-> "VideoEncode"]}
Fig == INSTANCE Figures WITH Pids <- Owners

CONSTANTS GapEvery, GapMin, GapSpread, FirstToggle, Hold, Away, TogglesIn,
          Floor, Start, Ceiling, MaxTick
VARIABLES tick, idle_until, temp, throttling, vram, ollama_present, ollama_toggle_at,
          shown, idled, stood
mckVars == <<tick, idle_until, temp, throttling, vram, ollama_present,
             ollama_toggle_at, shown, idled, stood>>
Mck == INSTANCE Mock WITH sample <- shown

CONSTANTS Frames, Ten, Minute, MaxTs
VARIABLES ts, s10, s1m, p10, tens, minutes, prows, frames
rowVars == <<ts, s10, s1m, p10, tens, minutes, prows, frames>>
Frame(w, t, list) == [power |-> w, throttle |-> t, procs |-> list]
Alone(mem, kind) == [p \in {1} |-> [mem |-> mem, kind |-> kind]]
MCFrames == {Frame(None, None, <<>>), Frame(0, {}, Alone(None, "Compute")),
             Frame(3, {"thermal"}, Alone(2, "Compute")),
             Frame(1, {"other", "hw_slowdown"}, Alone(1, "Graphics"))}
Row == INSTANCE Rollup

CONSTANTS Inventories, Clocks, Ticks, Draws, Intervals
VARIABLES states, table, scale, drawn_mj, label, dt, soc
socVars == <<states, table, scale, drawn_mj, label, dt, soc>>
MCInventories == {<<"OFF", "P1", "P2">>, <<"P1", "P2">>, <<"IDLE", "P1">>, <<"OFF">>}
Soc == INSTANCE Soc WITH drawn <- drawn_mj, reading <- soc

CONSTANTS Demos, Others, SeedSteps, MaxKills
VARIABLES at, sides, lock, where, mine, steps, files, rows, intruders, torn, kills
dmoVars == <<at, sides, lock, where, mine, steps, files, rows, intruders, torn, kills>>
Dmo == INSTANCE Demo WITH pc <- where

ASSUME EngineAssumption ==
  /\ None \notin Int
  /\ SINK_MAX_PER_MIN \in Nat /\ SinkMinute \in Nat /\ MaxFacts \in Nat
  /\ MaxCount \in Nat /\ MaxNow \in Nat \ {0}
  /\ Reg!RegistryAssumption
  /\ Sources \subseteq {"nvml", "amdgpu", "intel", "none"}
  /\ SNAPSHOT_REUSE_MS \in Nat /\ REEXPAND_MS \in Nat \ {0}
  /\ MaxClock \in Nat /\ REEXPAND_MS <= MaxClock
  /\ None \notin Qry!Snapshot
  /\ GapEvery \in Nat \ {0} /\ GapMin \in Nat /\ GapSpread \in Nat \ {0}
  /\ GapMin + GapSpread <= GapEvery
  /\ FirstToggle \in Nat \ {0} /\ TogglesIn \in Nat \ {0}
  /\ Hold \in Nat /\ Away \in Nat
  /\ Fig!FiguresAssumption /\ Row!RollupAssumption /\ Soc!SocAssumption
  /\ None \notin Dmo!Procs

\* A session survives one panic at least; memory starts in its range.
ASSUME LimitsAssumption ==
  /\ MAX_CONSECUTIVE_PANICS \in Nat \ {0}
  /\ Floor \in Int /\ Ceiling \in Int /\ Start \in Floor .. Ceiling

-----------------------------------------------------------------------------
Settings == {"cadence", "stream", "registry", "counters", "energy", "throttle", "pdh",
             "figures", "soc", "mock", "rollup", "demo"}

\* Where a part is left that does not move.
Init2 ==
  /\ setting \in Settings
  /\ Init
  /\ Out!Init /\ (setting # "stream" => ~once /\ ~recorder)
  /\ Reg!Init /\ (setting # "registry" => os = "linux" /\ machine = {} /\ backends = <<>>)
  /\ Prb!Init /\ (setting = "energy" => dialect = "render")
              /\ (setting \notin {"counters", "energy"} => dialect = "nvml")
  /\ Thr!Init /\ (setting # "throttle" => source = "none")
  /\ Qry!Init /\ (setting # "pdh" => alive = {} /\ mode = [s \in Qry!Streams |-> "Absent"])
  /\ IF setting = "figures" THEN Fig!Init
     ELSE /\ readings = {} /\ compute = {} /\ graphics = {} /\ hidden = FALSE
          /\ figures = None
  /\ IF setting = "soc" THEN Soc!Init
     ELSE /\ states = <<>> /\ table = <<>> /\ scale = 1
          /\ drawn_mj = 0 /\ label = "mJ" /\ dt = 0 /\ soc = None
  /\ Mck!Init /\ Row!Init
  /\ Dmo!Init

Counters ==
  \/ \E d \in Cards, p \in Pids, f \in Fds :
       Prb!Close(d, p, f) \/ \E n \in 0..MaxCount : Prb!Open(d, p, f, n)
  \/ \E d \in Cards : \E busy \in SUBSET Prb!Clients(d) : Prb!Work(d, busy)
  \/ Prb!SetBack
  \/ \E d \in Cards : \E blur \in SUBSET Prb!Users(d) :
       \/ \E hide \in SUBSET Prb!Clients(d) : Prb!RefreshFdinfo(d, hide, blur)
       \/ \E hide \in SUBSET Prb!Users(d) : Prb!RefreshNvml(d, hide, blur)

Energy ==
  \/ Prb!SetBack
  \/ \E d \in Cards : \/ Prb!Draw(d) \/ Prb!ResetEnergy(d)
                        \/ \E legible \in BOOLEAN : Prb!RefreshEnergy(d, legible)

Next2 ==
  /\ UNCHANGED setting
  /\ IF setting = "cadence" THEN Next ELSE UNCHANGED vars
  /\ IF setting = "stream" THEN Out!Next ELSE UNCHANGED outVars
  /\ IF setting = "registry" THEN Reg!Next ELSE UNCHANGED regVars
  /\ IF setting = "counters" THEN Counters
     ELSE IF setting = "energy" THEN Energy ELSE UNCHANGED prbVars
  /\ IF setting = "throttle" THEN Thr!Next ELSE UNCHANGED thrVars
  /\ IF setting = "pdh" THEN Qry!Next ELSE UNCHANGED qryVars
  /\ IF setting = "figures" THEN Fig!Next ELSE UNCHANGED figVars
  /\ IF setting = "soc" THEN Soc!Read ELSE UNCHANGED socVars
  /\ IF setting = "mock" THEN Mck!Step ELSE UNCHANGED mckVars
  /\ IF setting = "rollup" THEN Row!Next ELSE UNCHANGED rowVars
  /\ IF setting = "demo" THEN Dmo!Next ELSE UNCHANGED dmoVars

Spec2 == Init2 /\ [][Next2]_<<setting, vars, outVars, regVars, prbVars, thrVars,
                              qryVars, figVars, socVars, mckVars, rowVars, dmoVars>>

-----------------------------------------------------------------------------
\* Every part stays in its type.
TypesOK == /\ TypeOK /\ Out!TypeOK /\ Reg!TypeOK /\ Prb!TypeOK /\ Thr!TypeOK
           /\ Qry!TypeOK /\ Fig!TypeOK /\ Mck!TypeOK /\ Row!TypeOK
           /\ Soc!TypeOK /\ Dmo!TypeOK

\* A session tells the same story to its recording, its hook and its stream.
SessionIsToldOnce == Out!SessionIsToldOnce

\* A board is listed once, and none is lost to the merging.
EachBoardOnce == Reg!EachBoardOnce

\* What a rate claims happened since the reading it is measured from.
RatesAreReal == Prb!RatesAreReal

\* What a backend reads is true: a throttle reading of a moment while it was
\* taken, a process list of Windows as far as the cache and the re-expansion
\* promise.
ReadingsAreTrue == Thr!ThrottleIsTrue /\ Qry!SnapshotIsCurrent

\* What is made of readings is true of them: the figures of a Windows snapshot
\* of each other and of one device, those of an Apple chip of what it did in the
\* interval, a row on disk of its bucket's frames.
FiguresAreTrue == Fig!FiguresAgree /\ Soc!SampleIsTrue /\ Row!RowsTellTheirFrames

\* The simulation keeps to its script, and only the gap the demo accepts can
\* take a recording from under its writer.
DemoHolds == Mck!ScriptRepeats /\ Dmo!OnlyTheGapTears
=============================================================================
