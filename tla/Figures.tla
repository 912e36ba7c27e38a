------------------------------ MODULE Figures ------------------------------
(***************************************************************************)
(* What the Windows backends make of one PDH snapshot (core/src/wddm.rs,   *)
(* `pdh` and `WddmBackend`; core/src/nvidia.rs, the join of                *)
(* `refresh_processes`): which counter instances are an adapter's, the     *)
(* headline of its busiest engine, its encoder, its memory, and its        *)
(* process table - alone, or joined to the lists NVML keeps.               *)
(*                                                                         *)
(* A reading is a parsed instance with its value: its LUID is the pair of  *)
(* numbers in the order Windows printed them, None where the name could    *)
(* not be read. Pdh says how current a snapshot is; here it is any one.    *)
(***************************************************************************)
EXTENDS Integers, FiniteSetsExt

CONSTANTS
  Adapters,    \* the adapters' LUIDs: pairs <<HighPart, LowPart>>
  Printed,     \* LUIDs as instance names print them, and None
  Pids,
  Engines,     \* engines of an adapter: records [eng, engtype]
  Full,        \* 100 %: what an engine is busy for at most
  MaxReadings, \* bound on the readings of a snapshot
  None

VARIABLES
  readings, \* the snapshot
  compute, graphics, \* NVML's two process lists
  hidden,   \* NVML gives no memory of a process (WDDM)
  figures   \* what a refresh returned, or None

vars == <<readings, compute, graphics, hidden, figures>>

Matches(luid, a) == luid \in {a, <<a[2], a[1]>>}

Of(stream, a) == {r \in readings : r.stream = stream /\ Matches(r.luid, a)}

\* Instances a snapshot may hold: the streams carry different parts of a name.
Names ==
  [stream : {"engine"}, pid : Pids, luid : Printed, engine : Engines]
  \union [stream : {"dedicated"}, pid : Pids, luid : Printed, engine : {None}]
  \union [stream : {"adapter"}, pid : {None}, luid : Printed, engine : {None}]

\* Adapters are pairs of numbers, and instance names finitely many.
FiguresAssumption ==
  /\ Adapters \subseteq Nat \X Nat
  /\ Printed \subseteq (Nat \X Nat) \union {None} /\ None \notin Nat \X Nat
  /\ None \notin Pids /\ None \notin Engines
  /\ IsFiniteSet(Names)
  /\ Full \in Nat

Valued(n, v) == [stream |-> n.stream, pid |-> n.pid, luid |-> n.luid,
                 engine |-> n.engine, value |-> v]

\* A memory counter may glitch below zero; a busy time does not.
Values(n) == IF n.stream = "engine" THEN {1, Full} ELSE {-1, Full}

Sum(rs) == MapThenSumSet(LAMBDA r : r.value, rs)
Bytes(rs) == MapThenSumSet(LAMBDA r : IF r.value < 0 THEN 0 ELSE r.value, rs)

Snapshots ==
  UNION {{ {Valued(n, f[n]) : n \in ns} :
             f \in {g \in [ns -> {-1, 1, Full}] : \A n \in ns : g[n] \in Values(n)} } :
           ns \in UNION {kSubset(k, Names) : k \in 0..MaxReadings}}

\* The times of one engine add up to no more than the time there was (sampling
\* skew, which may push a sum a little past it, is left out).
Init ==
  /\ readings \in Snapshots
  /\ \A a \in Adapters, e \in Engines :
       Sum({r \in Of("engine", a) : r.engine = e}) <= Full
  /\ compute \in SUBSET Pids /\ graphics \in SUBSET Pids
  /\ hidden \in BOOLEAN
  /\ figures = None

-----------------------------------------------------------------------------
(* The aggregations *)

\* Busy time per engine, summed across the processes.
engine_busy(a) ==
  [e \in {r.engine : r \in Of("engine", a)} |->
     Sum({r \in Of("engine", a) : r.engine = e})]

\* The engines a headline may be of: max_by over a HashMap breaks ties anyhow.
device_util(a) ==
  LET busy == engine_busy(a)
  IN {e \in DOMAIN busy : \A o \in DOMAIN busy : busy[o] <= busy[e]}

Greatest(S) == IF S = {} THEN None ELSE Max(S)

engtype_util(a, engtype) ==
  Greatest({engine_busy(a)[e] : e \in {o \in DOMAIN engine_busy(a) : o.engtype = engtype}})

per_pid_util(a) ==
  [p \in {r.pid : r \in Of("engine", a)} |->
     LET his == {r \in Of("engine", a) : r.pid = p}
     IN [pct |-> Max({r.value : r \in his}),
         compute_hint |-> \E r \in his : r.engine.engtype \in {"Compute", "Cuda"}]]

per_pid_bytes(a) ==
  [p \in {r.pid : r \in Of("dedicated", a)} |->
     Bytes({r \in Of("dedicated", a) : r.pid = p})]

adapter_bytes(a) == IF Of("adapter", a) = {} THEN None ELSE Bytes(Of("adapter", a))

\* A process the counters list.
Counted(a, p) ==
  LET util == per_pid_util(a)
      mem == per_pid_bytes(a)
  IN [kind |-> IF p \in DOMAIN util /\ util[p].compute_hint THEN "Compute" ELSE "Unknown",
      mem |-> IF p \in DOMAIN mem THEN mem[p] ELSE None,
      util |-> IF p \in DOMAIN util THEN util[p].pct ELSE None]

CountedPids(a) == DOMAIN per_pid_util(a) \union DOMAIN per_pid_bytes(a)

\* A process NVML lists: its kind and memory are NVML's, and what NVML does
\* not say is filled in from the counters.
Listed(a, p) ==
  [Counted(a, p) EXCEPT
     !.kind = IF p \in compute \intersect graphics THEN "Both"
              ELSE IF p \in compute THEN "Compute" ELSE "Graphics",
     !.mem = IF hidden THEN @ ELSE Full]

-----------------------------------------------------------------------------
\* WddmBackend::refresh_dynamic and refresh_processes on one snapshot.
RefreshWddm(a) ==
  /\ figures = None
  /\ \E headline \in device_util(a) \union {e \in {None} : device_util(a) = {}} :
       figures' = [dev |-> a, by |-> "wddm",
                   util |-> IF headline = None THEN None ELSE engine_busy(a)[headline],
                   util_engine |-> IF headline = None THEN None ELSE headline.engtype,
                   encoder |-> engtype_util(a, "VideoEncode"),
                   used |-> adapter_bytes(a),
                   table |-> [p \in CountedPids(a) |-> Counted(a, p)]]
  /\ UNCHANGED <<readings, compute, graphics, hidden>>

\* NvidiaBackend::refresh_processes: NVML's lists, joined by pid and LUID.
RefreshNvidia(a) ==
  /\ figures = None
  /\ figures' = [dev |-> a, by |-> "nvidia", util |-> None, util_engine |-> None,
                 encoder |-> None, used |-> None,
                 table |-> [p \in compute \union graphics \union CountedPids(a) |->
                              IF p \in compute \union graphics THEN Listed(a, p)
                              ELSE Counted(a, p)]]
  /\ UNCHANGED <<readings, compute, graphics, hidden>>

Next == \E a \in Adapters : RefreshWddm(a) \/ RefreshNvidia(a)

-----------------------------------------------------------------------------
(* Properties *)

Figure == Nat \union {None}

\* A snapshot holds one value of a name, a figure is a count or absent.
TypeOK ==
  /\ \A r, s \in readings :
       (r.stream = s.stream /\ r.pid = s.pid /\ r.luid = s.luid /\ r.engine = s.engine)
       => r = s
  /\ figures # None =>
       /\ figures.util \in Figure /\ figures.encoder \in Figure /\ figures.used \in Figure
       /\ \A p \in DOMAIN figures.table :
            figures.table[p].mem \in Figure /\ figures.table[p].util \in Figure

\* The readings that name the device, whichever way round.
Naming(a) == {r \in readings : r.luid # None /\ {r.luid[1], r.luid[2]} = {a[1], a[2]}}

\* The figures of one frame agree with each other: the headline is at least
\* what any process or any kind of engine of the device shows and never more
\* than one engine can do; a figure is absent, not zero, exactly when nothing of
\* the device was counted; and the table lists every process that NVML or a
\* counter of this device names, and none of another device.
FiguresAgree ==
  figures # None =>
    LET mine == Naming(figures.dev)
        AtMost(x) == x # None => figures.util # None /\ x <= figures.util
        nvml == IF figures.by = "nvidia" THEN compute \union graphics ELSE {}
    IN /\ figures.by = "wddm" =>
            /\ figures.util # None => figures.util <= Full
            /\ \A p \in DOMAIN figures.table : AtMost(figures.table[p].util)
            /\ AtMost(figures.encoder)
            /\ figures.util = None <=> \A r \in mine : r.stream # "engine"
            /\ figures.used = None <=> \A r \in mine : r.stream # "adapter"
       /\ DOMAIN figures.table = nvml \union {r.pid : r \in {q \in mine : q.pid # None}}
       /\ \A p \in DOMAIN figures.table \ nvml :
            figures.table[p].mem = None
            <=> \A r \in mine : r.pid = p => r.stream # "dedicated"
=============================================================================
