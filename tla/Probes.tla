------------------------------- MODULE Probes -------------------------------
(***************************************************************************)
(* How the Linux backends turn cumulative counters into rates, one refresh *)
(* of one device at a time: the per-process tables of                      *)
(* `refresh_processes` (core/src/nvidia.rs, amd.rs, intel.rs), the energy  *)
(* counter of Intel's `refresh_dynamic`, and the CPU baselines that all    *)
(* devices of a backend share (core/src/proc_meta.rs, `CpuTracker`).       *)
(*                                                                         *)
(* The kernel moves on between refreshes: clients open and close the       *)
(* device, counters grow, a pid is taken by another process, the wall      *)
(* clock is set back; and a refresh may be refused any of the files it     *)
(* reads. A rate is the pair of deltas it is computed from.                *)
(***************************************************************************)
EXTENDS Integers, FiniteSetsExt

CONSTANTS
  Devices,   \* the devices of one backend
  Pids,      \* process ids
  Fds,       \* file descriptors a process may hold on a device
  MaxCount,  \* bound of every cumulative counter
  MaxNow,    \* bound of the clocks
  None

VARIABLES
  dialect,   \* which driver: "nvml", "gfx" (amdgpu), "render" (i915), "cycles" (xe)
  clients,   \* busy counter of each open client, per device, pid and fd
  energy,    \* energy1_input of each device
  cputime,   \* utime + stime of each pid
  usage,     \* NVML's buffered utilization samples, per device
  wall,      \* now_ms()
  cycles,    \* drm-total-cycles-rcs
  engine,    \* last_gfx, last_render or last_cycles, per device and pid
  power,     \* last_energy, per device
  watermark, \* last_util_ts, per device
  cpu,       \* CpuTracker::seen, per pid
  answer,    \* the latest refresh: its device, the processes, the power; or None
  did,       \* busy time of a pid since its engine baseline was read
  drawn,     \* energy of a device since its baseline was read
  stayed,    \* pids in every process list of a device since their baseline
  known,     \* clients of a pid that its engine baseline accounts for
  fed,       \* NVML samples that already reached a row
  metered    \* pids whose CPU time the device's previous refresh read

kernel == <<dialect, clients, energy, cputime, usage, wall, cycles>>
backend == <<engine, power, watermark, cpu>>
history == <<did, drawn, stayed, known, fed, metered>>
vars == <<kernel, backend, answer, history>>

Opened(d, p) == {f \in Fds : clients[d][p][f] # None}
Users(d) == {p \in Pids : Opened(d, p) # {}}
Clients(d) == {c \in Pids \X Fds : clients[d][c[1]][c[2]] # None}
Answer(d, rows, mw) == [dev |-> d, rows |-> rows, power |-> mw]

-----------------------------------------------------------------------------
(* Deltas *)

\* engine_util_pct, cycles_util_pct, energy_delta_mw: no rate without time or
\* with a counter that went back. The cap at 100 is left out.
Delta(base, count, at) ==
  IF base = None \/ at <= base.at \/ count < base.count THEN None
  ELSE [count |-> count - base.count, span |-> at - base.at]

\* The clients of a pid whose fdinfo can be read, each on its own.
Readable(d, p, hidden) == {f \in Opened(d, p) : <<p, f>> \notin hidden}

\* merge_max over the readable clients of a pid. A client that has not used the
\* engine may print no line for it.
Merged(d, p, fs) ==
  LET most == Max({clients[d][p][f] : f \in fs})
  IN IF most = 0 THEN {None, 0} ELSE {most}

\* CpuTracker::sample of a pid whose stat can be read: the first sighting only
\* sets the baseline.
CpuRate(p) ==
  IF cpu[p] = None \/ cputime[p] < cpu[p] THEN None ELSE cputime[p] - cpu[p]

\* Mutant: watermarks of pids that left the device are kept.
KeepEverything(table, d, live) == table

\* HashMap::retain(|(d, pid)| d != dev || by_pid.contains_key(pid)).
Retained(table, d, live) ==
  [table EXCEPT ![d] = [p \in Pids |-> IF p \in live THEN table[d][p] ELSE None]]

\* Every pid of the list is sampled, then CpuTracker::prune drops every pid
\* that is not in it - of whatever device.
SampleAndPrune(live, readable) ==
  cpu' = [p \in Pids |-> IF p \notin live THEN None
                         ELSE IF p \in readable THEN cputime[p] ELSE cpu[p]]

-----------------------------------------------------------------------------
Init ==
  /\ dialect \in {"nvml", "gfx", "render", "cycles"}
  /\ clients = [d \in Devices |-> [p \in Pids |-> [f \in Fds |-> None]]]
  /\ energy = [d \in Devices |-> 0]
  /\ cputime = [p \in Pids |-> 0]
  /\ usage = [d \in Devices |-> {}]
  /\ wall = 1 /\ cycles = 0
  /\ engine = [d \in Devices |-> [p \in Pids |-> None]]
  /\ power = [d \in Devices |-> None]
  /\ watermark = [d \in Devices |-> 0]
  /\ cpu = [p \in Pids |-> None]
  /\ answer = None
  /\ did = [d \in Devices |-> [p \in Pids |-> 0]]
  /\ drawn = [d \in Devices |-> 0]
  /\ stayed = [d \in Devices |-> {}]
  /\ known = [d \in Devices |-> [p \in Pids |-> {}]]
  /\ fed = [d \in Devices |-> {}]
  /\ metered = [d \in Devices |-> {}]

(* The kernel between two refreshes *)

\* A client opens the device with a counter of its own, or comes with what it
\* counted elsewhere: a descriptor passed on or inherited. (What it counted is
\* nothing to NVML.)
Open(d, p, f, n) ==
  /\ clients[d][p][f] = None
  /\ dialect = "nvml" => n = 0
  /\ clients' = [clients EXCEPT ![d][p][f] = n]
  /\ known' = IF n = 0 THEN [known EXCEPT ![d][p] = @ \union {f}] ELSE known
  /\ answer' = None
  /\ UNCHANGED <<dialect, energy, cputime, usage, wall, cycles, backend,
                 did, drawn, stayed, fed, metered>>

\* A client closes it. The last one to go takes the process with it: its pid may
\* come back as another.
Close(d, p, f) ==
  /\ clients[d][p][f] # None
  /\ clients' = [clients EXCEPT ![d][p][f] = None]
  /\ known' = [known EXCEPT ![d][p] = @ \ {f}]
  /\ LET gone == \A e \in Devices : \A g \in Fds : clients'[e][p][g] = None
     IN /\ cputime' = IF gone THEN [cputime EXCEPT ![p] = 0] ELSE cputime
        /\ metered' = IF gone THEN [e \in Devices |-> metered[e] \ {p}] ELSE metered
  /\ answer' = None
  /\ UNCHANGED <<dialect, energy, usage, wall, cycles, backend,
                 did, drawn, stayed, fed>>

\* Clients keep the engine busy for a unit of time, several of them when they
\* are descriptors of one file. NVML buffers a sample of each process, the other
\* drivers count.
Work(d, busy) ==
  LET users == {c[1] : c \in busy}
  IN /\ busy # {} /\ busy \subseteq Clients(d) /\ wall < MaxNow /\ cycles < MaxNow
     /\ IF dialect = "nvml"
        THEN /\ usage' = [usage EXCEPT ![d] = @ \union [ts : {wall}, pid : users]]
             /\ UNCHANGED <<clients, did>>
        ELSE /\ \A c \in busy : clients[d][c[1]][c[2]] < MaxCount
             /\ \A p \in users : did[d][p] < MaxCount
             /\ clients' = [clients EXCEPT ![d] = [p \in Pids |-> [f \in Fds |->
                              IF <<p, f>> \in busy THEN @[p][f] + 1 ELSE @[p][f]]]]
             /\ did' = [did EXCEPT ![d] = [p \in Pids |->
                          IF p \in users THEN @[p] + 1 ELSE @[p]]]
             /\ UNCHANGED usage
     /\ wall' = wall + 1
     /\ cycles' = IF dialect = "cycles" THEN cycles + 1 ELSE cycles
     /\ answer' = None
     /\ UNCHANGED <<dialect, energy, cputime, backend, drawn, stayed, known, fed,
                    metered>>

\* The device draws energy, for a unit of time.
Draw(d) ==
  /\ wall < MaxNow /\ energy[d] < MaxCount /\ drawn[d] < MaxCount
  /\ energy' = [energy EXCEPT ![d] = @ + 1]
  /\ drawn' = [drawn EXCEPT ![d] = @ + 1]
  /\ wall' = wall + 1
  /\ answer' = None
  /\ UNCHANGED <<dialect, clients, cputime, usage, cycles, backend, did, stayed,
                 known, fed, metered>>

\* The process computes on the CPU.
Compute(p) ==
  /\ cputime[p] < MaxCount /\ \E d \in Devices : Opened(d, p) # {}
  /\ cputime' = [cputime EXCEPT ![p] = @ + 1]
  /\ answer' = None
  /\ UNCHANGED <<dialect, clients, energy, usage, wall, cycles, backend, history>>

\* The wall clock is set back. NVML stamps its samples itself.
SetBack ==
  /\ dialect # "nvml" /\ wall > 1
  /\ wall' = wall - 1
  /\ answer' = None
  /\ UNCHANGED <<dialect, clients, energy, cputime, usage, cycles, backend, history>>

\* The driver is reloaded: the energy counter starts over.
ResetEnergy(d) ==
  /\ energy[d] > 0
  /\ energy' = [energy EXCEPT ![d] = 0]
  /\ answer' = None
  /\ UNCHANGED <<dialect, clients, cputime, usage, wall, cycles, backend, history>>

-----------------------------------------------------------------------------
(* The backend *)

\* refresh_processes of amd.rs and intel.rs: every fdinfo of the device but the
\* `hidden` ones, which it may not read, merged per pid; the engine delta against
\* the (device, pid) watermark; then watermarks and CPU baselines are pruned to
\* the list.
RefreshFdinfo(d, hidden, unreadable) ==
  LET live  == {p \in Pids : Readable(d, p, hidden) # {}}
      stamp == IF dialect = "cycles" THEN cycles ELSE wall
  IN \E read \in [live -> 0..MaxCount \union {None}] :
       /\ dialect # "nvml"
       /\ \A p \in live : read[p] \in Merged(d, p, Readable(d, p, hidden))
       /\ answer' = Answer(d, [p \in live |->
            [util |-> IF read[p] = None THEN None
                      ELSE Delta(engine[d][p], read[p], stamp),
             cpu  |-> IF p \in unreadable THEN None ELSE CpuRate(p)]], None)
       /\ LET counted == {p \in live : read[p] # None}
              based == [engine EXCEPT ![d] =
                         [p \in Pids |-> IF p \in counted
                            THEN [count |-> read[p], at |-> stamp] ELSE engine[d][p]]]
          IN /\ engine' = Retained(based, d, live)
             /\ did' = [did EXCEPT ![d] =
                         [p \in Pids |-> IF p \in counted THEN 0 ELSE did[d][p]]]
             /\ stayed' = [stayed EXCEPT ![d] = (@ \intersect live) \union counted]
             /\ known' = [known EXCEPT ![d] = [p \in Pids |->
                            IF p \in counted THEN Readable(d, p, hidden)
                            ELSE IF p \in live THEN known[d][p] ELSE {}]]
       /\ SampleAndPrune(live, Pids \ unreadable)
       /\ metered' = [metered EXCEPT ![d] = live \ unreadable]
       /\ UNCHANGED <<kernel, power, watermark, drawn, fed>>

NewWatermark(since, new) == Max({since} \union {s.ts : s \in new})

\* refresh_processes of nvidia.rs: the two process lists, each of which counts
\* as empty when its query fails (then `unseen` names processes it hides); the
\* utilization samples past the watermark, of which the last in the driver's
\* order stands; the same CPU baselines. No sample at all is NOT_FOUND.
RefreshNvml(d, unseen, unreadable) ==
  LET live == Users(d) \ unseen
      new  == {s \in usage[d] : s.ts > watermark[d]}
      Of(p) == {s \in new : s.pid = p}
  IN \E told \in [live -> usage[d] \union {None}] :
       /\ dialect = "nvml"
       /\ \A p \in live : IF Of(p) = {} THEN told[p] = None ELSE told[p] \in Of(p)
       /\ answer' = Answer(d, [p \in live |->
            [util |-> told[p],
             cpu  |-> IF p \in unreadable THEN None ELSE CpuRate(p)]], None)
       /\ watermark' = [watermark EXCEPT ![d] = NewWatermark(@, new)]
       /\ fed' = [fed EXCEPT ![d] = (@ \union {told[p] : p \in live}) \ {None}]
       /\ SampleAndPrune(live, Pids \ unreadable)
       /\ metered' = [metered EXCEPT ![d] = live \ unreadable]
       /\ UNCHANGED <<kernel, engine, power, did, drawn, stayed, known>>

\* Intel's refresh_dynamic: power from the energy counter, if it can be read.
RefreshEnergy(d, legible) ==
  /\ dialect \in {"render", "cycles"}
  /\ answer' = Answer(d, [p \in {} |-> None],
                      IF legible THEN Delta(power[d], energy[d], wall) ELSE None)
  /\ power' = IF legible THEN [power EXCEPT ![d] = [count |-> energy[d], at |-> wall]]
              ELSE power
  /\ drawn' = IF legible THEN [drawn EXCEPT ![d] = 0] ELSE drawn
  /\ UNCHANGED <<kernel, engine, watermark, cpu, did, stayed, known, fed, metered>>

Next ==
  \/ \E d \in Devices, p \in Pids, f \in Fds :
       Close(d, p, f) \/ \E n \in 0..MaxCount : Open(d, p, f, n)
  \/ \E d \in Devices : \E busy \in SUBSET Clients(d) : Work(d, busy)
  \/ \E p \in Pids : Compute(p)
  \/ SetBack
  \/ \E d \in Devices : Draw(d) \/ ResetEnergy(d)
  \/ \E d \in Devices : \E u \in SUBSET Users(d) :
       \/ \E h \in SUBSET Clients(d) : RefreshFdinfo(d, h, u)
       \/ \E h \in SUBSET Users(d) : RefreshNvml(d, h, u)
  \/ \E d \in Devices, legible \in BOOLEAN : RefreshEnergy(d, legible)

Spec == Init /\ [][Next]_vars

-----------------------------------------------------------------------------
(* Properties *)

Counts == 0..MaxCount
Readings == [count : Counts, at : 0..MaxNow]
Rates == [count : Counts, span : 1..MaxNow]
UtilSamples == [ts : 1..MaxNow, pid : Pids]
Rows == [util : Rates \union UtilSamples \union {None}, cpu : Counts \union {None}]

\* The tables hold counters and times of their bounds; a row's rate has time
\* in it.
TypeOK ==
  /\ clients \in [Devices -> [Pids -> [Fds -> Counts \union {None}]]]
  /\ energy \in [Devices -> Counts] /\ cputime \in [Pids -> Counts]
  /\ usage \in [Devices -> SUBSET UtilSamples]
  /\ wall \in 1..MaxNow /\ cycles \in 0..MaxNow
  /\ engine \in [Devices -> [Pids -> Readings \union {None}]]
  /\ power \in [Devices -> Readings \union {None}]
  /\ watermark \in [Devices -> 0..MaxNow]
  /\ cpu \in [Pids -> Counts \union {None}]
  /\ answer # None => /\ answer.power \in Rates \union {None}
                      /\ \A p \in DOMAIN answer.rows :
                           answer.rows[p] \in Rows

\* The baseline accounts for the client whose counter the row is measured from:
\* it was read then, or has counted from nothing since. It does not for one that
\* could not be read then, or came with a past; the code cannot tell.
Accounted(d, p) == \E f \in known[d][p] : clients[d][p][f] = engine'[d][p].count

\* The engine rate of a row is of one stay: its baseline was read while the
\* pid has been in every list of the device since. It never claims more than
\* the pid's clients did on that device since then, when the baseline accounts
\* for its client - through several clients, a closed one, others that can be
\* read only now and then, a pid that changed hands, a clock set back.
EngineRateIsReal(d, p, util) ==
  /\ p \in stayed[d]
  /\ Accounted(d, p) => util.count <= did[d][p]

\* NVML's utilization samples reach one row each.
SampleCountsOnce(d, util) == util \notin fed[d]

\* A power figure never claims more than was drawn since its baseline.
PowerIsReal(d, mw) == mw # None => mw.count <= drawn[d]

\* A rate is never made up (proc_meta.rs: "never a panic or a fabricated
\* number"; amd.rs and intel.rs on watermarks): what it claims happened, on
\* that device, since the reading it is measured from.
RatesAreReal ==
  [][ answer' # None =>
        LET d == answer'.dev
        IN /\ PowerIsReal(d, answer'.power)
           /\ \A p \in DOMAIN answer'.rows :
                LET util == answer'.rows[p].util
                IN util # None => IF dialect = "nvml" THEN SampleCountsOnce(d, util)
                                  ELSE EngineRateIsReal(d, p, util) ]_vars

\* "Later sightings return the rate" (CpuTracker::sample): a process whose CPU
\* time this device's previous refresh read, and that is still the same, has a
\* rate at the next one that can read it.
LaterSightingsReturnTheRate ==
  [][ answer' # None =>
        \A p \in DOMAIN answer'.rows \intersect metered[answer'.dev] :
          p \in metered'[answer'.dev] => answer'.rows[p].cpu # None ]_vars
=============================================================================
