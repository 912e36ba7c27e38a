--------------------------- MODULE BackendProofs ---------------------------
(***************************************************************************)
(* Theorems about the backends beneath a tick - the counters and throttle  *)
(* readings of a device, the shared Windows query and the figures made of  *)
(* it, Apple's counters, the registration of devices - for every value of  *)
(* their constants, and that every part of MCEngine stays in its type.  No *)
(* part moves another, so each theorem starts from the part's own initial  *)
(* states and steps.                                                       *)
(***************************************************************************)
EXTENDS LoopProofs

-----------------------------------------------------------------------------
(* Probes: rates from counters *)

\* The probes move by their own actions alone.
LEMMA ProbesPart == Spec2 => Prb!Init /\ [][Prb!Next]_prbVars
<1>1. Init2 => Prb!Init
  BY DEF Init2
<1>2. Counters => Prb!Next
  BY DEF Counters, Prb!Next
<1>3. Energy => Prb!Next
  BY DEF Energy, Prb!Next
<1>4. [Next2]_<<setting, vars, outVars, regVars, prbVars, thrVars,
               qryVars, figVars, socVars, mckVars, rowVars, dmoVars>>
        => [Prb!Next]_prbVars
  BY <1>2, <1>3 DEF Next2
<1>5. QED
  BY <1>1, <1>4, PTL DEF Spec2

\* The clocks and tables, as far as the rates depend on them.
ProbeTypes ==
  /\ clients \in [Cards -> [Pids -> [Fds -> Prb!Counts \union {None}]]]
  /\ energy \in [Cards -> Nat] /\ drawn \in [Cards -> Nat]
  /\ did \in [Cards -> [Pids -> Nat]]
  /\ usage \in [Cards -> SUBSET Prb!UtilSamples]
  /\ wall \in 1..MaxNow /\ cycles \in 0..MaxNow
  /\ engine \in [Cards -> [Pids -> Prb!Readings \union {None}]]
  /\ power \in [Cards -> [count : Nat, at : Nat] \union {None}]
  /\ watermark \in [Cards -> 0..MaxNow]
  /\ stayed \in [Cards -> SUBSET Pids]
  /\ known \in [Cards -> [Pids -> SUBSET Fds]]
  /\ fed \in [Cards -> SUBSET Prb!UtilSamples]

\* An engine baseline is of the present stay, and no client it accounts for has
\* run ahead of it by more than the work done since.
BaselinesHold ==
  \A d \in Cards, p \in Pids : engine[d][p] # None =>
    /\ p \in stayed[d]
    /\ \A f \in known[d][p] : clients[d][p][f] # None =>
         clients[d][p][f] <= engine[d][p].count + did[d][p]

\* What a baseline accounts for is open.
KnownAreOpen ==
  \A d \in Cards, p \in Pids : \A f \in known[d][p] : clients[d][p][f] # None

\* Nothing past the watermark has reached a row.
FedIsBelow == \A d \in Cards : \A s \in fed[d] : s.ts <= watermark[d]

\* The energy counter has not run ahead of its baseline either.
PowerHolds == \A d \in Cards : power[d] # None => energy[d] <= power[d].count + drawn[d]

ProbeInv == ProbeTypes /\ BaselinesHold /\ KnownAreOpen /\ FedIsBelow /\ PowerHolds

\* No table has a baseline at first.
LEMMA ProbesStart == Prb!Init => ProbeInv
<1> SUFFICES ASSUME Prb!Init
             PROVE  ProbeInv
  OBVIOUS
<1>1. ProbeTypes
  BY EngineAssumption DEF ProbeTypes, Prb!Init, Prb!Counts
<1>2. QED
  BY <1>1 DEF ProbeInv, BaselinesHold, KnownAreOpen, FedIsBelow, PowerHolds, Prb!Init

\* A client opened has done nothing yet, or its baseline does not account for it.
LEMMA OpenKeepsProbes ==
  ASSUME ProbeInv, NEW d \in Cards, NEW p \in Pids, NEW f \in Fds, NEW n \in 0..MaxCount,
         Prb!Open(d, p, f, n)
  PROVE  ProbeInv'
<1> USE EngineAssumption DEF ProbeInv
<1>0. /\ clients' = [clients EXCEPT ![d][p][f] = n]
      /\ clients[d][p][f] = None
      /\ known' = IF n = 0 THEN [known EXCEPT ![d][p] = @ \union {f}] ELSE known
      /\ UNCHANGED <<energy, usage, wall, cycles, engine, power, watermark, did, drawn,
                     stayed, fed>>
  BY DEF Prb!Open, Prb!backend
<1>1. known' \in [Cards -> [Pids -> SUBSET Fds]]
  BY <1>0 DEF ProbeTypes
<1>2. ProbeTypes'
  BY <1>0, <1>1 DEF ProbeTypes, Prb!Counts
<1>3. ASSUME NEW e \in Cards, NEW q \in Pids, engine'[e][q] # None,
             NEW g \in known'[e][q], clients'[e][q][g] # None
      PROVE  clients'[e][q][g] <= engine'[e][q].count + did'[e][q]
  <2>1. engine[e][q].count \in Nat /\ did[e][q] \in Nat
    BY <1>0, <1>3 DEF ProbeTypes, Prb!Readings, Prb!Counts
  <2>2. g \in Fds
    BY <1>1, <1>3
  <2>3. CASE e = d /\ q = p /\ g = f /\ n = 0
    <3>1. clients'[e][q][g] = 0
      BY <1>0, <2>3 DEF ProbeTypes
    <3> QED BY <1>0, <2>1, <3>1
  <2>4. CASE e = d /\ q = p /\ g = f /\ n # 0
    <3>1. f \in known[d][p] /\ engine[d][p] # None
      BY <1>0, <1>3, <2>4
    <3>2. clients[d][p][f] = None /\ clients'[e][q][g] = n
      BY <1>0, <2>4 DEF ProbeTypes
    <3> QED BY <1>0, <1>3, <3>1, <3>2 DEF KnownAreOpen
  <2>5. CASE ~ (e = d /\ q = p /\ g = f)
    <3>1. clients'[e][q][g] = clients[e][q][g] /\ g \in known[e][q]
      BY <1>0, <1>3, <2>2, <2>5 DEF ProbeTypes
    <3> QED BY <1>0, <1>3, <3>1 DEF BaselinesHold
  <2> QED BY <2>3, <2>4, <2>5
<1>4. KnownAreOpen'
  <2>1. ASSUME NEW e \in Cards, NEW q \in Pids, NEW g \in known'[e][q]
        PROVE  clients'[e][q][g] # None
    <3>1. g \in Fds /\ n # None
      BY <1>1, <2>1
    <3>2. CASE e = d /\ q = p /\ g = f
      BY <1>0, <3>1, <3>2 DEF ProbeTypes
    <3>3. CASE ~ (e = d /\ q = p /\ g = f)
      <4>1. clients'[e][q][g] = clients[e][q][g] /\ g \in known[e][q]
        BY <1>0, <2>1, <3>1, <3>3 DEF ProbeTypes
      <4> QED BY <4>1 DEF KnownAreOpen
    <3> QED BY <3>2, <3>3
  <2> QED BY <2>1 DEF KnownAreOpen
<1>5. BaselinesHold'
  BY <1>0, <1>3 DEF BaselinesHold
<1>6. FedIsBelow' /\ PowerHolds'
  BY <1>0 DEF FedIsBelow, PowerHolds
<1>7. QED
  BY <1>2, <1>4, <1>5, <1>6

\* A client closed takes its counter along, and a process's last one its stay.
LEMMA CloseKeepsProbes ==
  ASSUME ProbeInv, NEW d \in Cards, NEW p \in Pids, NEW f \in Fds, Prb!Close(d, p, f)
  PROVE  ProbeInv'
<1> USE EngineAssumption DEF ProbeInv
<1>0. UNCHANGED <<energy, usage, wall, cycles, engine, power, watermark, did, drawn,
                  stayed, fed>>
  BY DEF Prb!Close, Prb!backend
<1>1. /\ clients' = [clients EXCEPT ![d][p][f] = None]
      /\ known' = [known EXCEPT ![d][p] = @ \ {f}]
  BY DEF Prb!Close
<1>2. ProbeTypes'
  BY <1>0, <1>1 DEF ProbeTypes
<1>3. \A e \in Cards, q \in Pids : known'[e][q] \subseteq known[e][q]
                                /\ known[e][q] \subseteq Fds
  BY <1>1 DEF ProbeTypes
<1>4. ASSUME NEW e \in Cards, NEW q \in Pids, NEW g \in known'[e][q]
      PROVE  clients'[e][q][g] = clients[e][q][g]
  <2>1. g \in Fds /\ ~ (e = d /\ q = p /\ g = f)
    BY <1>1, <1>3, <1>4 DEF ProbeTypes
  <2> QED BY <1>1, <2>1 DEF ProbeTypes
<1>5. BaselinesHold' /\ KnownAreOpen'
  BY <1>0, <1>3, <1>4 DEF BaselinesHold, KnownAreOpen
<1>6. QED
  BY <1>0, <1>2, <1>5 DEF FedIsBelow, PowerHolds

\* Work done moves the counters of busy clients and the record of it alike.
LEMMA WorkKeepsProbes ==
  ASSUME ProbeInv, NEW d \in Cards, NEW busy \in SUBSET Prb!Clients(d), Prb!Work(d, busy)
  PROVE  ProbeInv'
<1> USE EngineAssumption DEF ProbeInv
<1> DEFINE users == {c[1] : c \in busy}
<1>0. /\ UNCHANGED <<energy, engine, power, watermark, drawn, stayed, known, fed>>
      /\ wall' = wall + 1 /\ wall < MaxNow
      /\ cycles' = (IF dialect = "cycles" THEN cycles + 1 ELSE cycles) /\ cycles < MaxNow
  BY DEF Prb!Work, Prb!backend
<1>1. wall' \in 1..MaxNow /\ cycles' \in 0..MaxNow
  BY <1>0 DEF ProbeTypes
<1>2. busy \subseteq Pids \X Fds /\ users \subseteq Pids
  BY DEF Prb!Clients
<1>3. CASE dialect = "nvml"
  <2>1. /\ usage' = [usage EXCEPT ![d] = @ \union [ts : {wall}, pid : users]]
        /\ UNCHANGED <<clients, did>>
    BY <1>3 DEF Prb!Work
  <2>2. [ts : {wall}, pid : users] \subseteq Prb!UtilSamples
    BY <1>2 DEF ProbeTypes, Prb!UtilSamples
  <2>3. usage' \in [Cards -> SUBSET Prb!UtilSamples]
    BY <2>1, <2>2 DEF ProbeTypes
  <2>4. QED
    BY <1>0, <1>1, <2>1, <2>3
       DEF ProbeTypes, BaselinesHold, KnownAreOpen, FedIsBelow, PowerHolds
<1>4. CASE dialect # "nvml"
  <2>1. /\ \A c \in busy : clients[d][c[1]][c[2]] < MaxCount
        /\ clients' = [clients EXCEPT ![d] = [p \in Pids |-> [f \in Fds |->
                         IF <<p, f>> \in busy THEN @[p][f] + 1 ELSE @[p][f]]]]
        /\ did' = [did EXCEPT ![d] = [p \in Pids |->
                     IF p \in users THEN @[p] + 1 ELSE @[p]]]
        /\ UNCHANGED usage
    BY <1>4 DEF Prb!Work
  <2>2. \A p \in Pids, f \in Fds : <<p, f>> \in busy =>
          /\ clients[d][p][f] # None /\ clients[d][p][f] < MaxCount /\ p \in users
    <3>1. SUFFICES ASSUME NEW p \in Pids, NEW f \in Fds, <<p, f>> \in busy
                   PROVE  /\ clients[d][p][f] # None /\ clients[d][p][f] < MaxCount
                          /\ p \in users
      OBVIOUS
    <3>2. <<p, f>>[1] = p /\ <<p, f>>[2] = f
      OBVIOUS
    <3> QED BY <2>1, <3>1, <3>2 DEF Prb!Clients
  <2>3. \A p \in Pids, f \in Fds : clients[d][p][f] \in Prb!Counts \union {None}
                                /\ did[d][p] \in Nat
    BY DEF ProbeTypes
  <2>4. \A p \in Pids, f \in Fds : <<p, f>> \in busy =>
          clients[d][p][f] \in Nat /\ clients[d][p][f] + 1 \in Prb!Counts
    BY <2>2, <2>3 DEF Prb!Counts
  <2>5. /\ \A e \in Cards \ {d} : clients'[e] = clients[e] /\ did'[e] = did[e]
        /\ \A p \in Pids, f \in Fds :
             clients'[d][p][f] = IF <<p, f>> \in busy THEN clients[d][p][f] + 1
                                 ELSE clients[d][p][f]
        /\ \A p \in Pids : did'[d][p] = IF p \in users THEN did[d][p] + 1 ELSE did[d][p]
    <3> HIDE DEF users
    <3>1. QED
      BY <2>1 DEF ProbeTypes
  <2>6. clients' \in [Cards -> [Pids -> [Fds -> Prb!Counts \union {None}]]]
    BY <2>1, <2>3, <2>4 DEF ProbeTypes
  <2>7. did' \in [Cards -> [Pids -> Nat]]
    <3>1. \A p \in Pids : did[d][p] + 1 \in Nat /\ did[d][p] \in Nat
      BY DEF ProbeTypes
    <3> HIDE DEF users
    <3>2. QED
      BY <2>1, <3>1 DEF ProbeTypes
  <2>8. ProbeTypes'
    BY <1>0, <1>1, <2>1, <2>6, <2>7 DEF ProbeTypes
  <2>9. ASSUME NEW e \in Cards, NEW q \in Pids, NEW g \in known[e][q]
        PROVE  /\ clients'[e][q][g] # None
               /\ engine[e][q] # None =>
                    clients'[e][q][g] <= engine[e][q].count + did'[e][q]
    <3>1. clients[e][q][g] # None /\ g \in Fds
      BY <2>9 DEF KnownAreOpen, ProbeTypes
    <3>2. clients[e][q][g] \in Nat /\ did[e][q] \in Nat
      BY <3>1 DEF ProbeTypes, Prb!Counts
    <3>3. engine[e][q] # None => clients[e][q][g] <= engine[e][q].count + did[e][q]
      BY <2>9, <3>1 DEF BaselinesHold
    <3>4. engine[e][q] # None => engine[e][q].count \in Nat
      BY DEF ProbeTypes, Prb!Readings, Prb!Counts
    <3>5. \/ clients'[e][q][g] = clients[e][q][g]
             /\ did'[e][q] \in {did[e][q], did[e][q] + 1}
          \/ clients'[e][q][g] = clients[e][q][g] + 1 /\ did'[e][q] = did[e][q] + 1
      <4> HIDE DEF users
      <4>1. CASE e # d
        BY <2>5, <4>1
      <4>2. CASE e = d /\ <<q, g>> \in busy
        BY <2>2, <2>5, <3>1, <4>2
      <4>3. CASE e = d /\ <<q, g>> \notin busy
        BY <2>5, <3>1, <4>3
      <4> QED BY <4>1, <4>2, <4>3
    <3>6. clients'[e][q][g] \in Nat
      BY <3>2, <3>5
    <3> QED BY <3>2, <3>3, <3>4, <3>5, <3>6
  <2>10. BaselinesHold' /\ KnownAreOpen'
    BY <1>0, <2>9 DEF BaselinesHold, KnownAreOpen
  <2>11. QED
    BY <1>0, <2>8, <2>10 DEF FedIsBelow, PowerHolds
<1>5. QED
  BY <1>3, <1>4

\* So does energy drawn.
LEMMA DrawKeepsProbes ==
  ASSUME ProbeInv, NEW d \in Cards, Prb!Draw(d)
  PROVE  ProbeInv'
<1> USE EngineAssumption DEF ProbeInv
<1>0. /\ UNCHANGED <<clients, usage, cycles, engine, power, watermark, did, stayed, known, fed>>
      /\ wall' = wall + 1 /\ wall < MaxNow
      /\ energy' = [energy EXCEPT ![d] = @ + 1]
      /\ drawn' = [drawn EXCEPT ![d] = @ + 1]
  BY DEF Prb!Draw, Prb!backend
<1>1. wall' \in 1..MaxNow
  BY <1>0 DEF ProbeTypes
<1>2. energy' \in [Cards -> Nat] /\ drawn' \in [Cards -> Nat]
  BY <1>0 DEF ProbeTypes
<1>3. ProbeTypes'
  BY <1>0, <1>1, <1>2 DEF ProbeTypes
<1>4. ASSUME NEW e \in Cards, power'[e] # None
      PROVE  energy'[e] <= power'[e].count + drawn'[e]
  <2>1. power'[e] = power[e] /\ energy[e] <= power[e].count + drawn[e]
    BY <1>0, <1>4 DEF PowerHolds
  <2>2. power[e].count \in Nat /\ energy[e] \in Nat /\ drawn[e] \in Nat
    BY <1>4, <2>1 DEF ProbeTypes
  <2>3. \/ energy'[e] = energy[e] /\ drawn'[e] = drawn[e]
        \/ energy'[e] = energy[e] + 1 /\ drawn'[e] = drawn[e] + 1
    BY <1>0 DEF ProbeTypes
  <2>4. QED
    BY <2>1, <2>2, <2>3
<1>5. QED
  BY <1>0, <1>3, <1>4 DEF BaselinesHold, KnownAreOpen, FedIsBelow, PowerHolds

\* The energy counter starts over, above no baseline.
LEMMA ResetKeepsProbes ==
  ASSUME ProbeInv, NEW d \in Cards, Prb!ResetEnergy(d)
  PROVE  ProbeInv'
<1> USE EngineAssumption DEF ProbeInv
<1>0. /\ UNCHANGED <<clients, usage, wall, cycles, engine, power, watermark, did, drawn,
                     stayed, known, fed>>
      /\ energy' = [energy EXCEPT ![d] = 0]
  BY DEF Prb!ResetEnergy, Prb!backend, Prb!history
<1>1. ProbeTypes'
  BY <1>0 DEF ProbeTypes
<1>2. ASSUME NEW e \in Cards, power'[e] # None
      PROVE  energy'[e] <= power'[e].count + drawn'[e]
  <2>1. power'[e] = power[e] /\ energy[e] <= power[e].count + drawn[e]
    BY <1>0, <1>2 DEF PowerHolds
  <2>2. power[e].count \in Nat /\ drawn[e] \in Nat /\ drawn'[e] = drawn[e]
    BY <1>0, <1>2, <2>1 DEF ProbeTypes
  <2>3. energy'[e] = energy[e] \/ energy'[e] = 0
    BY <1>0 DEF ProbeTypes
  <2>4. QED
    BY <2>1, <2>2, <2>3
<1>3. QED
  BY <1>0, <1>1, <1>2 DEF BaselinesHold, KnownAreOpen, FedIsBelow, PowerHolds

\* The wall clock and the processor move no counter of a device.
LEMMA IdlingKeepsProbes ==
  ASSUME ProbeInv, Prb!SetBack \/ \E p \in Pids : Prb!Compute(p)
  PROVE  ProbeInv'
<1>0. /\ UNCHANGED <<clients, energy, usage, cycles, engine, power, watermark, did, drawn,
                     stayed, known, fed>>
      /\ wall' = wall \/ (wall > 1 /\ wall' = wall - 1)
  BY DEF Prb!SetBack, Prb!Compute, Prb!backend, Prb!history
<1>1. wall' \in 1..MaxNow
  BY <1>0, EngineAssumption DEF ProbeInv, ProbeTypes
<1>2. QED
  BY <1>0, <1>1 DEF ProbeInv, ProbeTypes, BaselinesHold, KnownAreOpen, FedIsBelow, PowerHolds

\* What one row of a step of RatesAreReal claims is so.
RateHolds(d, p, util) ==
  util # None => IF dialect = "nvml" THEN Prb!SampleCountsOnce(d, util)
                 ELSE Prb!EngineRateIsReal(d, p, util)

\* A pid's merged reading is that of its busiest readable client.
LEMMA MergedIsMost ==
  ASSUME ProbeInv, NEW d \in Cards, NEW p \in Pids, NEW h, NEW r,
         Prb!Readable(d, p, h) # {}, r \in Prb!Merged(d, p, Prb!Readable(d, p, h)), r # None
  PROVE  /\ r \in Prb!Counts
         /\ \A f \in Prb!Readable(d, p, h) :
              f \in Fds /\ clients[d][p][f] # None /\ clients[d][p][f] <= r
<1> DEFINE fs == Prb!Readable(d, p, h)
           S == {clients[d][p][f] : f \in fs}
<1>1. \A f \in fs : f \in Fds /\ clients[d][p][f] # None
  BY DEF Prb!Readable, Prb!Opened
<1>2. \A f \in Fds : clients[d][p][f] \in Prb!Counts \union {None}
  BY DEF ProbeInv, ProbeTypes
<1>3. S \subseteq Prb!Counts
  BY <1>1, <1>2
<1>4. S # {}
  OBVIOUS
<1>5. S \in SUBSET Nat /\ \A x \in S : x <= MaxCount
  BY <1>3, EngineAssumption DEF Prb!Counts
<1>6. Prb!Max(S) \in S /\ \A x \in S : x <= Prb!Max(S)
  BY <1>4, <1>5, EngineAssumption, MaxIsGreatest
<1>7. r = Prb!Max(S)
  BY DEF Prb!Merged
<1>8. QED
  BY <1>1, <1>3, <1>6, <1>7

\* AMD and Intel: a rate from the counters of clients is of work done since the baseline.
LEMMA FdinfoIsReal ==
  ASSUME ProbeInv, NEW d \in Cards, NEW h \in SUBSET Prb!Clients(d), NEW u,
         Prb!RefreshFdinfo(d, h, u)
  PROVE  /\ ProbeInv'
         /\ answer'.dev = d /\ answer'.power = None
         /\ \A p \in DOMAIN answer'.rows : RateHolds(d, p, answer'.rows[p].util)
<1> DEFINE live == {p \in Pids : Prb!Readable(d, p, h) # {}}
           stamp == IF dialect = "cycles" THEN cycles ELSE wall
<1> USE EngineAssumption
<1>1. PICK read \in [live -> 0..MaxCount \union {None}] :
        /\ dialect # "nvml"
        /\ \A p \in live : read[p] \in Prb!Merged(d, p, Prb!Readable(d, p, h))
        /\ answer' = Prb!Answer(d, [p \in live |->
             [util |-> IF read[p] = None THEN None
                       ELSE Prb!Delta(engine[d][p], read[p], stamp),
              cpu  |-> IF p \in u THEN None ELSE Prb!CpuRate(p)]], None)
        /\ LET counted == {p \in live : read[p] # None}
               based == [engine EXCEPT ![d] =
                          [p \in Pids |-> IF p \in counted
                             THEN [count |-> read[p], at |-> stamp] ELSE engine[d][p]]]
           IN /\ engine' = Prb!Retained(based, d, live)
              /\ did' = [did EXCEPT ![d] =
                          [p \in Pids |-> IF p \in counted THEN 0 ELSE did[d][p]]]
              /\ stayed' = [stayed EXCEPT ![d] = (@ \intersect live) \union counted]
              /\ known' = [known EXCEPT ![d] = [p \in Pids |->
                             IF p \in counted THEN Prb!Readable(d, p, h)
                             ELSE IF p \in live THEN known[d][p] ELSE {}]]
        /\ UNCHANGED <<clients, energy, usage, wall, cycles, power, watermark, drawn, fed>>
  BY DEF Prb!RefreshFdinfo, Prb!kernel
<1> DEFINE counted == {p \in live : read[p] # None}
<1>2. live \subseteq Pids /\ counted \subseteq live
  OBVIOUS
<1>3. stamp \in 0..MaxNow
  BY DEF ProbeInv, ProbeTypes
<1>4. \A p \in counted :
        /\ read[p] \in Prb!Counts
        /\ \A f \in Prb!Readable(d, p, h) :
             f \in Fds /\ clients[d][p][f] # None /\ clients[d][p][f] <= read[p]
  BY <1>1, <1>2, MergedIsMost
<1>5. \A p \in counted : [count |-> read[p], at |-> stamp] \in Prb!Readings
  BY <1>3, <1>4 DEF Prb!Readings
<1>6. /\ \A p \in counted : engine'[d][p] = [count |-> read[p], at |-> stamp]
      /\ \A p \in live \ counted : engine'[d][p] = engine[d][p]
      /\ \A p \in Pids \ live : engine'[d][p] = None
      /\ \A e \in Cards \ {d} : engine'[e] = engine[e]
  <2> HIDE DEF live, stamp
  <2>1. QED
    BY <1>1, <1>2 DEF Prb!Retained, ProbeInv, ProbeTypes
<1>7. engine' \in [Cards -> [Pids -> Prb!Readings \union {None}]]
  <2> DEFINE based == [engine EXCEPT ![d] =
                        [p \in Pids |-> IF p \in counted
                           THEN [count |-> read[p], at |-> stamp] ELSE engine[d][p]]]
  <2>1. based \in [Cards -> [Pids -> Prb!Readings \union {None}]]
    <3>0. engine \in [Cards -> [Pids -> Prb!Readings \union {None}]]
      BY DEF ProbeInv, ProbeTypes
    <3> HIDE DEF live, stamp, counted
    <3>1. QED
      BY <1>5, <3>0
  <2>2. engine' = Prb!Retained(based, d, live)
    BY <1>1
  <2> HIDE DEF based, live
  <2>3. QED
    BY <2>1, <2>2 DEF Prb!Retained
<1>8. /\ did' \in [Cards -> [Pids -> Nat]] /\ stayed' \in [Cards -> SUBSET Pids]
      /\ \A p \in counted : did'[d][p] = 0
      /\ \A p \in Pids \ counted : did'[d][p] = did[d][p]
      /\ \A e \in Cards \ {d} : did'[e] = did[e] /\ stayed'[e] = stayed[e]
      /\ stayed'[d] = (stayed[d] \intersect live) \union counted
  <2>1. did \in [Cards -> [Pids -> Nat]] /\ stayed \in [Cards -> SUBSET Pids]
    BY DEF ProbeInv, ProbeTypes
  <2>2. /\ did' = [did EXCEPT ![d] = [p \in Pids |-> IF p \in counted THEN 0 ELSE did[d][p]]]
        /\ stayed' = [stayed EXCEPT ![d] = (@ \intersect live) \union counted]
    BY <1>1
  <2> HIDE DEF live, counted
  <2>3. QED
    BY <1>2, <2>1, <2>2
<1>9. /\ known' \in [Cards -> [Pids -> SUBSET Fds]]
      /\ \A p \in counted : known'[d][p] = Prb!Readable(d, p, h)
      /\ \A p \in Pids \ counted : known'[d][p] \subseteq known[d][p]
      /\ \A e \in Cards \ {d} : known'[e] = known[e]
  <2>1. known \in [Cards -> [Pids -> SUBSET Fds]]
    BY DEF ProbeInv, ProbeTypes
  <2>2. known' = [known EXCEPT ![d] = [p \in Pids |->
                    IF p \in counted THEN Prb!Readable(d, p, h)
                    ELSE IF p \in live THEN known[d][p] ELSE {}]]
    BY <1>1
  <2>3. \A p \in Pids : Prb!Readable(d, p, h) \in SUBSET Fds
    BY DEF Prb!Readable, Prb!Opened
  <2> HIDE DEF live, counted
  <2>4. QED
    BY <1>2, <2>1, <2>2, <2>3
<1>10. ProbeTypes'
  BY <1>1, <1>7, <1>8, <1>9 DEF ProbeInv, ProbeTypes
<1>11. KnownAreOpen'
  <2>1. ASSUME NEW e \in Cards, NEW p \in Pids, NEW f \in known'[e][p]
        PROVE  clients[e][p][f] # None
    <3>1. CASE e = d /\ p \in counted
      BY <1>4, <1>9, <2>1, <3>1
    <3>2. CASE ~ (e = d /\ p \in counted)
      <4>1. f \in known[e][p]
        BY <1>9, <2>1, <3>2
      <4> QED BY <2>1, <4>1 DEF ProbeInv, KnownAreOpen
    <3> QED BY <3>1, <3>2
  <2>2. QED
    BY <1>1, <2>1 DEF KnownAreOpen
<1>12. ASSUME NEW e \in Cards, NEW p \in Pids, engine'[e][p] # None
       PROVE  /\ p \in stayed'[e]
              /\ \A f \in known'[e][p] : clients'[e][p][f] # None =>
                   clients'[e][p][f] <= engine'[e][p].count + did'[e][p]
  <2> BaselinesHold /\ clients' = clients
    BY <1>1 DEF ProbeInv
  <2> HIDE DEF live, counted
  <2>1. CASE e # d
    <3>1. /\ engine'[e][p] = engine[e][p] /\ did'[e][p] = did[e][p]
          /\ stayed'[e] = stayed[e] /\ known'[e][p] = known[e][p]
      BY <1>6, <1>8, <1>9, <2>1
    <3>2. QED
      BY <1>12, <3>1 DEF BaselinesHold
  <2> USE DEF live, counted
  <2>2. CASE e = d /\ p \in counted
    <3>1. engine'[e][p].count = read[p] /\ did'[e][p] = 0 /\ read[p] \in Nat
      <4>1. engine'[d][p] = [count |-> read[p], at |-> stamp]
        BY <1>6, <2>2
      <4>2. read[p] \in Prb!Counts /\ did'[d][p] = 0
        BY <1>4, <1>8, <2>2
      <4> HIDE DEF stamp, counted
      <4>3. QED
        BY <2>2, <4>1, <4>2 DEF Prb!Counts
    <3>2. p \in stayed'[e]
      BY <1>8, <2>2
    <3>3. \A f \in known'[e][p] : clients[e][p][f] <= read[p]
      BY <1>4, <1>9, <2>2
    <3>4. read[p] + 0 = read[p]
      BY <3>1
    <3>5. QED
      BY <1>1, <3>1, <3>2, <3>3, <3>4
  <2>3. CASE e = d /\ p \notin counted
    <3>1. p \in live
      BY <1>6, <1>12, <2>3
    <3>2. engine'[e][p] = engine[e][p] /\ did'[e][p] = did[e][p]
      BY <1>6, <1>8, <2>3, <3>1
    <3>3. p \in stayed[e]
      BY <1>12, <3>2 DEF ProbeInv, BaselinesHold
    <3>4. known'[e][p] \subseteq known[e][p]
      BY <1>9, <2>3
    <3>5. p \in stayed'[e]
      BY <1>8, <2>3, <3>1, <3>3
    <3> HIDE DEF live, counted
    <3>6. QED
      BY <1>12, <3>2, <3>4, <3>5 DEF BaselinesHold
  <2>4. QED
    BY <2>1, <2>2, <2>3
<1>13. ASSUME NEW p \in DOMAIN answer'.rows
       PROVE  RateHolds(d, p, answer'.rows[p].util)
  <2>1. p \in live /\ answer'.rows[p].util = (IF read[p] = None THEN None
                                             ELSE Prb!Delta(engine[d][p], read[p], stamp))
    BY <1>1, <1>13 DEF Prb!Answer
  <2>2. SUFFICES ASSUME answer'.rows[p].util # None
                 PROVE  Prb!EngineRateIsReal(d, p, answer'.rows[p].util)
    BY <1>1 DEF RateHolds
  <2>3. /\ read[p] # None /\ engine[d][p] # None
        /\ answer'.rows[p].util.count = read[p] - engine[d][p].count
    BY <2>1, <2>2 DEF Prb!Delta
  <2>4. p \in counted /\ p \in Pids
    BY <1>2, <2>1, <2>3
  <2>5. engine'[d][p].count = read[p]
    <3>1. engine'[d][p] = [count |-> read[p], at |-> stamp]
      BY <1>6, <2>4
    <3> HIDE DEF stamp
    <3>2. QED
      BY <3>1
  <2>6. p \in stayed[d]
    BY <2>3, <2>4 DEF ProbeInv, BaselinesHold
  <2>7. read[p] \in Nat /\ engine[d][p].count \in Nat /\ did[d][p] \in Nat
    <3>1. engine[d][p] \in Prb!Readings /\ did[d][p] \in Nat
      BY <2>3, <2>4 DEF ProbeInv, ProbeTypes
    <3>2. QED
      BY <1>4, <2>4, <3>1 DEF Prb!Readings, Prb!Counts
  <2>8. ASSUME Prb!Accounted(d, p)
        PROVE  answer'.rows[p].util.count <= did[d][p]
    <3>1. PICK f \in known[d][p] : clients[d][p][f] = read[p]
      BY <2>5, <2>8 DEF Prb!Accounted
    <3>2. read[p] <= engine[d][p].count + did[d][p]
      BY <2>3, <2>4, <3>1 DEF ProbeInv, BaselinesHold
    <3>3. QED
      BY <2>3, <2>7, <3>2
  <2>9. QED
    BY <2>6, <2>8 DEF Prb!EngineRateIsReal
<1>14. answer'.dev = d /\ answer'.power = None
  BY <1>1 DEF Prb!Answer
<1>15. FedIsBelow' /\ PowerHolds'
  BY <1>1 DEF ProbeInv, FedIsBelow, PowerHolds
<1>16. QED
  BY <1>10, <1>11, <1>12, <1>13, <1>14, <1>15 DEF ProbeInv, BaselinesHold

\* NVIDIA: a sample newer than the watermark is of the process it names.
LEMMA NvmlIsReal ==
  ASSUME ProbeInv, NEW d \in Cards, NEW h \in SUBSET Prb!Users(d), NEW u,
         Prb!RefreshNvml(d, h, u)
  PROVE  /\ ProbeInv'
         /\ answer'.dev = d /\ answer'.power = None
         /\ \A p \in DOMAIN answer'.rows : RateHolds(d, p, answer'.rows[p].util)
<1> DEFINE live == Prb!Users(d) \ h
           new == {s \in usage[d] : s.ts > watermark[d]}
<1> USE EngineAssumption
<1>1. PICK told \in [live -> usage[d] \union {None}] :
        /\ dialect = "nvml"
        /\ \A p \in live : IF {s \in new : s.pid = p} = {} THEN told[p] = None
                           ELSE told[p] \in {s \in new : s.pid = p}
        /\ answer' = Prb!Answer(d, [p \in live |->
             [util |-> told[p],
              cpu  |-> IF p \in u THEN None ELSE Prb!CpuRate(p)]], None)
        /\ watermark' = [watermark EXCEPT ![d] = Prb!NewWatermark(@, new)]
        /\ fed' = [fed EXCEPT ![d] = (@ \union {told[p] : p \in live}) \ {None}]
        /\ UNCHANGED <<clients, energy, usage, wall, cycles, engine, power, did, drawn, stayed,
                       known>>
  BY DEF Prb!RefreshNvml, Prb!kernel
<1>2. \A p \in live : told[p] = None \/ told[p] \in new
  BY <1>1
<1>3. usage[d] \subseteq Prb!UtilSamples /\ fed[d] \subseteq Prb!UtilSamples
      /\ watermark[d] \in 0..MaxNow
  BY DEF ProbeInv, ProbeTypes
<1>4. \A s \in usage[d] \union fed[d] : s.ts \in 1..MaxNow
  BY <1>3 DEF Prb!UtilSamples
<1> DEFINE S == {watermark[d]} \union {s.ts : s \in new}
<1>5. S \in SUBSET Nat /\ S # {} /\ \A x \in S : x <= MaxNow
  BY <1>3, <1>4
<1>6. Prb!Max(S) \in S /\ \A x \in S : x <= Prb!Max(S)
  BY <1>5, MaxIsGreatest
<1>7. /\ watermark'[d] = Prb!Max(S)
      /\ \A e \in Cards \ {d} : watermark'[e] = watermark[e] /\ fed'[e] = fed[e]
      /\ fed'[d] = (fed[d] \union {told[p] : p \in live}) \ {None}
  <2>1. watermark \in [Cards -> 0..MaxNow] /\ fed \in [Cards -> SUBSET Prb!UtilSamples]
    BY DEF ProbeInv, ProbeTypes
  <2> HIDE DEF live, new
  <2>2. QED
    BY <1>1, <2>1 DEF Prb!NewWatermark
<1>8. Prb!Max(S) \in 0..MaxNow
  BY <1>5, <1>6
<1>9. fed'[d] \subseteq Prb!UtilSamples
  BY <1>2, <1>3, <1>7
<1>10. ProbeTypes'
  <2>1. watermark \in [Cards -> 0..MaxNow] /\ fed \in [Cards -> SUBSET Prb!UtilSamples]
    BY DEF ProbeInv, ProbeTypes
  <2> HIDE DEF S, new, live
  <2>2. watermark' \in [Cards -> 0..MaxNow]
    BY <1>1, <1>7, <1>8, <2>1
  <2>3. fed' \in [Cards -> SUBSET Prb!UtilSamples]
    BY <1>1, <1>7, <1>9, <2>1
  <2>4. QED
    BY <1>1, <2>2, <2>3 DEF ProbeInv, ProbeTypes
<1>11. ASSUME NEW e \in Cards, NEW s \in fed'[e]
       PROVE  s.ts <= watermark'[e]
  <2>1. CASE e # d
    BY <1>7, <1>11, <2>1 DEF ProbeInv, FedIsBelow
  <2>2. CASE e = d /\ s \in fed[d]
    <3>1. s.ts <= watermark[d]
      BY <2>2 DEF ProbeInv, FedIsBelow
    <3>2. watermark[d] <= Prb!Max(S) /\ watermark[d] \in Nat /\ Prb!Max(S) \in Nat
      BY <1>3, <1>6, <1>8
    <3>3. s.ts \in Nat
      BY <1>4, <2>2
    <3> HIDE DEF S
    <3>4. QED
      BY <1>7, <2>2, <3>1, <3>2, <3>3
  <2>3. CASE e = d /\ s \notin fed[d]
    <3>1. s \in new
      BY <1>2, <1>7, <1>11, <2>3
    <3>2. QED
      BY <1>6, <1>7, <2>3, <3>1
  <2>4. QED
    BY <2>1, <2>2, <2>3
<1>12. ASSUME NEW p \in DOMAIN answer'.rows
       PROVE  RateHolds(d, p, answer'.rows[p].util)
  <2>1. p \in live /\ answer'.rows[p].util = told[p]
    BY <1>1, <1>12 DEF Prb!Answer
  <2>2. SUFFICES ASSUME told[p] # None
                 PROVE  told[p] \notin fed[d]
    BY <1>1, <2>1 DEF RateHolds, Prb!SampleCountsOnce
  <2>3. told[p] \in usage[d] /\ told[p].ts > watermark[d]
    BY <1>2, <2>1, <2>2
  <2>4. told[p].ts \in Nat /\ watermark[d] \in Nat
    BY <1>3, <1>4, <2>3
  <2>5. ~ (told[p].ts <= watermark[d])
    BY <2>3, <2>4
  <2>6. QED
    BY <2>5 DEF ProbeInv, FedIsBelow
<1>13. answer'.dev = d /\ answer'.power = None
  BY <1>1 DEF Prb!Answer
<1>14. BaselinesHold' /\ KnownAreOpen' /\ PowerHolds'
  BY <1>1 DEF ProbeInv, BaselinesHold, KnownAreOpen, PowerHolds
<1>15. QED
  BY <1>10, <1>11, <1>12, <1>13, <1>14 DEF ProbeInv, FedIsBelow

\* Intel: a power is of energy drawn since the baseline.
LEMMA EnergyIsReal ==
  ASSUME ProbeInv, NEW d \in Cards, NEW legible \in BOOLEAN, Prb!RefreshEnergy(d, legible)
  PROVE  /\ ProbeInv'
         /\ answer'.dev = d /\ DOMAIN answer'.rows = {}
         /\ Prb!PowerIsReal(d, answer'.power)
<1> USE EngineAssumption
<1>1. /\ answer' = Prb!Answer(d, [p \in {} |-> None],
                     IF legible THEN Prb!Delta(power[d], energy[d], wall) ELSE None)
      /\ power' = (IF legible THEN [power EXCEPT ![d] = [count |-> energy[d], at |-> wall]]
                   ELSE power)
      /\ drawn' = (IF legible THEN [drawn EXCEPT ![d] = 0] ELSE drawn)
      /\ UNCHANGED <<clients, energy, usage, wall, cycles, engine, watermark, did, stayed, known,
                     fed>>
  BY DEF Prb!RefreshEnergy, Prb!kernel
<1>2. energy[d] \in Nat /\ drawn[d] \in Nat /\ wall \in Nat
  BY DEF ProbeInv, ProbeTypes
<1>3. answer'.power # None =>
        /\ power[d] # None
        /\ answer'.power.count = energy[d] - power[d].count
  BY <1>1 DEF Prb!Answer, Prb!Delta
<1>4. ASSUME answer'.power # None
      PROVE  answer'.power.count <= drawn[d]
  <2>1. energy[d] <= power[d].count + drawn[d]
    BY <1>3, <1>4 DEF ProbeInv, PowerHolds
  <2>2. power[d].count \in Nat
    BY <1>3, <1>4 DEF ProbeInv, ProbeTypes
  <2>3. QED
    BY <1>2, <1>3, <1>4, <2>1, <2>2
<1>5. power' \in [Cards -> [count : Nat, at : Nat] \union {None}]
      /\ drawn' \in [Cards -> Nat]
  BY <1>1, <1>2 DEF ProbeInv, ProbeTypes
<1>6. ASSUME NEW e \in Cards, power'[e] # None
      PROVE  energy'[e] <= power'[e].count + drawn'[e]
  <2>1. CASE legible /\ e = d
    <3>1. power'[e] = [count |-> energy[d], at |-> wall] /\ drawn'[e] = 0
      BY <1>1, <2>1 DEF ProbeInv, ProbeTypes
    <3>2. QED
      BY <1>1, <1>2, <2>1, <3>1
  <2>2. CASE ~ (legible /\ e = d)
    BY <1>1, <1>6, <2>2 DEF ProbeInv, ProbeTypes, PowerHolds
  <2>3. QED
    BY <2>1, <2>2
<1>7. ProbeInv'
  BY <1>1, <1>5, <1>6 DEF ProbeInv, ProbeTypes, BaselinesHold, KnownAreOpen, FedIsBelow, PowerHolds
<1>8. answer'.dev = d /\ DOMAIN answer'.rows = {}
  BY <1>1 DEF Prb!Answer
<1>9. QED
  BY <1>4, <1>7, <1>8 DEF Prb!PowerIsReal

\* What a step of the probes shows, it can account for.
RatesHold ==
  answer' # None =>
    /\ Prb!PowerIsReal(answer'.dev, answer'.power)
    /\ \A p \in DOMAIN answer'.rows : RateHolds(answer'.dev, p, answer'.rows[p].util)

\* Every action keeps the invariant, and an answer it gives is real.
LEMMA ProbesStep == ProbeInv /\ [Prb!Next]_prbVars => ProbeInv' /\ (RatesHold \/ UNCHANGED prbVars)
<1> SUFFICES ASSUME ProbeInv, [Prb!Next]_prbVars
             PROVE  ProbeInv' /\ (RatesHold \/ UNCHANGED prbVars)
  OBVIOUS
<1>1. CASE UNCHANGED prbVars
  BY <1>1 DEF prbVars, ProbeInv, ProbeTypes, BaselinesHold, KnownAreOpen, FedIsBelow, PowerHolds
<1>2. CASE \/ \E d \in Cards, p \in Pids, f \in Fds :
                  Prb!Close(d, p, f) \/ \E n \in 0..MaxCount : Prb!Open(d, p, f, n)
           \/ \E d \in Cards : \E busy \in SUBSET Prb!Clients(d) : Prb!Work(d, busy)
  <2>1. answer' = None
    BY <1>2 DEF Prb!Open, Prb!Close, Prb!Work
  <2>2. QED
    BY <1>2, <2>1, OpenKeepsProbes, CloseKeepsProbes, WorkKeepsProbes DEF RatesHold
<1>3. CASE Prb!SetBack \/ \E p \in Pids : Prb!Compute(p)
  <2>1. answer' = None
    BY <1>3 DEF Prb!SetBack, Prb!Compute
  <2>2. QED
    BY <1>3, <2>1, IdlingKeepsProbes DEF RatesHold
<1>4. CASE \E d \in Cards : Prb!Draw(d) \/ Prb!ResetEnergy(d)
  <2>1. answer' = None
    BY <1>4 DEF Prb!Draw, Prb!ResetEnergy
  <2>2. QED
    BY <1>4, <2>1, DrawKeepsProbes, ResetKeepsProbes DEF RatesHold
<1>5. CASE \E d \in Cards : \E u \in SUBSET Prb!Users(d) :
             \/ \E h \in SUBSET Prb!Clients(d) : Prb!RefreshFdinfo(d, h, u)
             \/ \E h \in SUBSET Prb!Users(d) : Prb!RefreshNvml(d, h, u)
  BY <1>5, FdinfoIsReal, NvmlIsReal DEF RatesHold, Prb!PowerIsReal
<1>6. CASE \E d \in Cards, legible \in BOOLEAN : Prb!RefreshEnergy(d, legible)
  BY <1>6, EnergyIsReal DEF RatesHold
<1>7. QED
  BY <1>1, <1>2, <1>3, <1>4, <1>5, <1>6 DEF Prb!Next

\* A rate is never made up: a refresh of the Linux backends (nvidia.rs, amd.rs,
\* intel.rs) claims of a process or of the power supply only what happened since
\* the reading it measures from, of that device and of one stay of the pid,
\* however clients, pids, counters and the clock move between refreshes and
\* whichever clients can be read at each - as long as the client it measures was
\* read for its baseline or has counted from nothing since.
THEOREM RatesAreNeverMadeUp == Spec2 => RatesAreReal
<1>1. ProbeInv /\ [Prb!Next]_prbVars => ProbeInv'
  BY ProbesStep
<1>2. ProbeInv /\ [Prb!Next]_prbVars =>
        [ answer' # None =>
            LET d == answer'.dev
            IN /\ Prb!PowerIsReal(d, answer'.power)
               /\ \A p \in DOMAIN answer'.rows :
                    LET util == answer'.rows[p].util
                    IN util # None => IF dialect = "nvml" THEN Prb!SampleCountsOnce(d, util)
                                      ELSE Prb!EngineRateIsReal(d, p, util) ]_(Prb!vars)
  <2>1. UNCHANGED prbVars => UNCHANGED Prb!vars
    BY DEF prbVars, Prb!vars, Prb!kernel, Prb!backend, Prb!history
  <2>2. QED
    BY <2>1, ProbesStep DEF RatesHold, RateHolds
<1>3. QED
  BY <1>1, <1>2, ProbesPart, ProbesStart, PTL DEF RatesAreReal, Prb!RatesAreReal

-----------------------------------------------------------------------------
(* Registry: which boards are watched *)

\* Registration moves by its own actions alone.
LEMMA RegistryPart == Spec2 => Reg!Init /\ [][Reg!Next]_regVars
<1>1. Init2 => Reg!Init
  BY DEF Init2
<1>2. [Next2]_<<setting, vars, outVars, regVars, prbVars, thrVars,
               qryVars, figVars, socVars, mckVars, rowVars, dmoVars>>
        => [Reg!Next]_regVars
  BY DEF Next2
<1>3. QED
  BY <1>1, <1>2, PTL DEF Spec2

Key(e) == Reg!normalize_pci_id(e.id)

BackendNames == {"nvidia", "amd", "intel", "wddm", "apple", "mock"}
MockBoards == {<<"mock", i>> : i \in 1..2}
Ids == (BackendNames \X Nat) \union {Reg!PciId(digits, b) : digits \in {4, 8}, b \in Boards}

\* An entry has no key, or that of its board's address.
Entries ==
  {e \in [backend : BackendNames, board : Boards \union MockBoards, id : Ids] :
     Key(e) = None \/ (e.board \in Boards /\ Key(e) = <<e.board.domain, e.board.bus>>)}

RegistryTypes ==
  /\ machine \subseteq Boards
  /\ listed \in Seq(Entries) /\ devices \in Seq(Entries)

\* The addresses seen are those of the devices, and no two devices share one.
SeenAreRegistered ==
  /\ \A key \in seen_pci : key # None /\ \E j \in DOMAIN devices : Key(devices[j]) = key
  /\ \A j \in DOMAIN devices : Key(devices[j]) # None => Key(devices[j]) \in seen_pci
  /\ \A j, k \in DOMAIN devices : j < k =>
       Key(devices[j]) = None \/ Key(devices[k]) = None \/ Key(devices[j]) # Key(devices[k])

NoneIsLost == \A b \in skipped \union answered : \E j \in DOMAIN devices : devices[j].board = b

MatchedRight == \A m \in luids : m[1].board = m[2]

RegistryInv == RegistryTypes /\ SeenAreRegistered /\ NoneIsLost /\ MatchedRight

\* Nothing is registered at first.
LEMMA RegistryStart == Reg!Init => RegistryInv
BY DEF Reg!Init, RegistryInv, RegistryTypes, SeenAreRegistered, NoneIsLost, MatchedRight

\* normalize_pci_id reads the address out of a PCI id, and none out of an index.
LEMMA KeysAreAddresses ==
  /\ \A b \in Boards, digits \in {4, 8} :
       Reg!normalize_pci_id(Reg!PciId(digits, b)) = <<b.domain, b.bus>>
  /\ \A n \in BackendNames, i \in Nat : Reg!normalize_pci_id(<<n, i>>) = None
BY DEF Reg!normalize_pci_id, Reg!PciId, BackendNames

\* A backend lists entries.
LEMMA ListingIsEntries ==
  ASSUME NEW backend \in BackendNames, NEW digits \in {4, 8}, NEW found \in SUBSET Boards,
         NEW order \in Seq(found), NEW anonymous
  PROVE  Reg!Listing(backend, digits, order, anonymous) \in Seq(Entries)
<1> DEFINE L(i) == [backend |-> backend, board |-> order[i],
                    id |-> IF order[i] \in anonymous THEN <<backend, i>>
                           ELSE Reg!PciId(digits, order[i])]
<1>1. ASSUME NEW i \in 1..Len(order)
      PROVE  L(i) \in Entries
  <2>1. order[i] \in Boards
    OBVIOUS
  <2>2. CASE order[i] \in anonymous
    <3>1. L(i) = [backend |-> backend, board |-> order[i], id |-> <<backend, i>>]
      BY <2>2
    <3>2. <<backend, i>> \in Ids
      BY DEF Ids
    <3>3. Reg!normalize_pci_id(<<backend, i>>) = None
      BY KeysAreAddresses
    <3> HIDE DEF L
    <3>4. Key(L(i)) = None
      BY <3>1, <3>3 DEF Key
    <3>5. L(i) \in [backend : BackendNames, board : Boards \union MockBoards, id : Ids]
      BY <2>1, <3>1, <3>2
    <3>6. QED
      BY <3>4, <3>5 DEF Entries
  <2>3. CASE order[i] \notin anonymous
    <3>1. L(i) = [backend |-> backend, board |-> order[i], id |-> Reg!PciId(digits, order[i])]
      BY <2>3
    <3>2. Reg!PciId(digits, order[i]) \in Ids
      BY <2>1 DEF Ids
    <3>3. Reg!normalize_pci_id(Reg!PciId(digits, order[i])) = <<order[i].domain, order[i].bus>>
      BY <2>1, KeysAreAddresses
    <3> HIDE DEF L
    <3>4. L(i).board = order[i] /\ Key(L(i)) = <<order[i].domain, order[i].bus>>
      BY <3>1, <3>3 DEF Key
    <3>5. L(i) \in [backend : BackendNames, board : Boards \union MockBoards, id : Ids]
      BY <2>1, <3>1, <3>2
    <3>6. QED
      BY <2>1, <3>4, <3>5 DEF Entries
  <2>4. QED
    BY <2>2, <2>3
<1>2. Reg!Listing(backend, digits, order, anonymous) = [i \in 1..Len(order) |-> L(i)]
  BY DEF Reg!Listing
<1> HIDE DEF L
<1>3. QED
  BY <1>1, <1>2

\* An order of boards is a sequence of them.
LEMMA OrdersAreSequences ==
  ASSUME NEW found \in SUBSET Boards, NEW order \in Reg!Orders(found)
  PROVE  order \in Seq(found)
<1>0. IsFiniteSet(Boards) <=> Reg!IsFiniteSet(Boards)
  BY DEF IsFiniteSet, Reg!IsFiniteSet
<1>01. Cardinality(found) = Reg!Cardinality(found)
  BY Zenon DEF Cardinality, Reg!Cardinality
<1>1. IsFiniteSet(Boards)
  BY <1>0, EngineAssumption DEF Reg!RegistryAssumption
<1>2. Cardinality(found) \in Nat
  BY <1>1, FS_Subset, FS_CardinalityType
<1>3. order \in [1..Cardinality(found) -> found]
  BY <1>01 DEF Reg!Orders, Reg!SetToSeqs
<1>4. QED
  BY <1>2, <1>3

\* A backend that initialises hands over entries; nothing is registered yet.
LEMMA InitialisedKeepsRegistry ==
  ASSUME RegistryInv, NEW backend, NEW listing \in Seq(Entries),
         Reg!Initialised(backend, listing), MatchedRight'
  PROVE  RegistryInv'
<1>1. /\ listed' = listed \o listing
      /\ UNCHANGED <<machine, seen_pci, devices, answered, skipped>>
  BY DEF Reg!Initialised
<1>2. listed' \in Seq(Entries)
  BY <1>1 DEF RegistryInv, RegistryTypes
<1>3. QED
  BY <1>1, <1>2 DEF RegistryInv, RegistryTypes, SeenAreRegistered, NoneIsLost

\* NVML's backend comes up, with or without addresses.
LEMMA InitNvidiaKeepsRegistry == RegistryInv /\ Reg!InitNvidia => RegistryInv'
<1> SUFFICES ASSUME RegistryInv, Reg!InitNvidia
             PROVE  RegistryInv'
  OBVIOUS
<1>1. PICK found \in SUBSET Reg!Of("nvidia"), told \in SUBSET machine :
        \E order \in Reg!Orders(found), anonymous \in SUBSET found :
          /\ Reg!Initialised("nvidia", Reg!Listing("nvidia", 8, order, anonymous))
          /\ luids' = IF os = "windows"
                      THEN {m \in Reg!Range(Reg!Listing("nvidia", 8, order, anonymous)) \X told :
                              Reg!Matched(m)} ELSE {}
  BY DEF Reg!InitNvidia
<1>2. PICK order \in Reg!Orders(found), anonymous \in SUBSET found :
        /\ Reg!Initialised("nvidia", Reg!Listing("nvidia", 8, order, anonymous))
        /\ luids' = IF os = "windows"
                    THEN {m \in Reg!Range(Reg!Listing("nvidia", 8, order, anonymous)) \X told :
                            Reg!Matched(m)} ELSE {}
  BY <1>1
<1> DEFINE listing == Reg!Listing("nvidia", 8, order, anonymous)
<1>3. machine \subseteq Boards /\ found \subseteq machine
  BY DEF RegistryInv, RegistryTypes, Reg!Of
<1>4. order \in Seq(found)
  BY <1>3, OrdersAreSequences
<1>5. listing \in Seq(Entries)
  <2>1. "nvidia" \in BackendNames
    BY DEF BackendNames
  <2>2. QED
    BY <1>3, <1>4, <2>1, ListingIsEntries
<1> HIDE DEF listing
<1>6. ASSUME NEW m \in luids'
      PROVE  m[1].board = m[2]
  <2>1. m \in Reg!Range(listing) \X told /\ Reg!Matched(m)
    BY <1>2, <1>6 DEF listing
  <2>2. m[1] \in Reg!Range(listing) /\ m[2] \in Boards
    BY <1>3, <2>1
  <2>3. m[1] \in Entries
    BY <1>5, <2>2 DEF Reg!Range
  <2>4. Key(m[1]) # None /\ Reg!normalize_pci_id(Reg!PciId(4, m[2])) = Key(m[1])
    BY <2>1 DEF Reg!Matched, Key
  <2>5. m[1].board \in Boards /\ Key(m[1]) = <<m[1].board.domain, m[1].board.bus>>
    BY <2>3, <2>4 DEF Entries
  <2>6. Key(m[1]) = <<m[2].domain, m[2].bus>>
    BY <2>2, <2>4, KeysAreAddresses
  <2>7. m[1].board.domain = m[2].domain /\ m[1].board.bus = m[2].bus
    BY <2>5, <2>6
  <2>8. QED
    BY <2>2, <2>5, <2>7, EngineAssumption DEF Reg!RegistryAssumption
<1>7. QED
  BY <1>2, <1>5, <1>6, InitialisedKeepsRegistry DEF MatchedRight, listing

\* Another backend comes up and lists what is not seen yet.
LEMMA InitOtherKeepsRegistry ==
  ASSUME RegistryInv,
         Reg!InitWddm \/ Reg!InitApple \/ \E vendor \in {"amd", "intel"} : Reg!InitDrm(vendor)
  PROVE  RegistryInv'
<1>0. machine \subseteq Boards /\ \A v : Reg!Of(v) \subseteq machine
  BY DEF RegistryInv, RegistryTypes, Reg!Of
<1>1. luids' = luids
  BY DEF Reg!InitWddm, Reg!InitApple, Reg!InitDrm
<1>2. \E backend \in BackendNames, found \in SUBSET machine :
        \E order \in Reg!Orders(found), anonymous \in SUBSET found :
          Reg!Initialised(backend, Reg!Listing(backend, 4, order, anonymous))
  <2>1. CASE Reg!InitWddm
    BY <2>1 DEF Reg!InitWddm, BackendNames
  <2>2. CASE Reg!InitApple
    <3>1. PICK found \in SUBSET Reg!Of("apple") : \E order \in Reg!Orders(found) :
            Reg!Initialised("apple", Reg!Listing("apple", 4, order, found))
      BY <2>2 DEF Reg!InitApple
    <3>2. found \in SUBSET machine /\ "apple" \in BackendNames /\ found \in SUBSET found
      BY <1>0 DEF BackendNames
    <3>3. QED
      BY <3>1, <3>2
  <2>3. CASE \E vendor \in {"amd", "intel"} : Reg!InitDrm(vendor)
    <3>1. PICK vendor \in {"amd", "intel"} : Reg!InitDrm(vendor)
      BY <2>3
    <3>2. PICK found \in SUBSET Reg!Of(vendor) : \E order \in Reg!Orders(found) :
            Reg!Initialised(vendor, Reg!Listing(vendor, 4, order, {}))
      BY <3>1 DEF Reg!InitDrm
    <3>3. found \in SUBSET machine /\ vendor \in BackendNames /\ {} \in SUBSET found
      BY <1>0 DEF BackendNames
    <3>4. QED
      BY <3>2, <3>3
  <2>4. QED
    BY <2>1, <2>2, <2>3
<1>3. PICK backend \in BackendNames, found \in SUBSET machine :
        \E order \in Reg!Orders(found), anonymous \in SUBSET found :
          Reg!Initialised(backend, Reg!Listing(backend, 4, order, anonymous))
  BY <1>2
<1>4. PICK order \in Reg!Orders(found), anonymous \in SUBSET found :
        Reg!Initialised(backend, Reg!Listing(backend, 4, order, anonymous))
  BY <1>3
<1>5. found \in SUBSET Boards
  BY <1>0
<1>6. order \in Seq(found)
  BY <1>5, OrdersAreSequences
<1>7. Reg!Listing(backend, 4, order, anonymous) \in Seq(Entries)
  BY <1>5, <1>6, ListingIsEntries
<1>8. MatchedRight'
  BY <1>1 DEF RegistryInv, MatchedRight
<1>9. QED
  BY <1>4, <1>7, <1>8, InitialisedKeepsRegistry

\* The mock stands in only when no backend came up.
LEMMA MockKeepsRegistry == RegistryInv /\ Reg!FallBackToMock => RegistryInv'
<1> SUFFICES ASSUME RegistryInv, Reg!FallBackToMock
             PROVE  RegistryInv'
  OBVIOUS
<1> DEFINE E(i) == [backend |-> "mock", board |-> <<"mock", i>>, id |-> <<"mock", i>>]
<1>1. /\ listed' = [i \in 1..2 |-> E(i)]
      /\ UNCHANGED <<machine, luids, seen_pci, devices, answered, skipped>>
  BY DEF Reg!FallBackToMock
<1>2. ASSUME NEW i \in 1..2
      PROVE  E(i) \in Entries
  <2>1. "mock" \in BackendNames /\ <<"mock", i>> \in MockBoards /\ <<"mock", i>> \in Ids
    BY DEF BackendNames, MockBoards, Ids
  <2>2. Reg!normalize_pci_id(<<"mock", i>>) = None
    BY <2>1, KeysAreAddresses
  <2>3. QED
    BY <2>1, <2>2 DEF Entries, Key
<1> HIDE DEF E
<1>3. listed' \in Seq(Entries)
  BY <1>1, <1>2
<1>4. QED
  BY <1>1, <1>3 DEF RegistryInv, RegistryTypes, SeenAreRegistered, NoneIsLost, MatchedRight

\* The next id of the listing is registered, or does not answer.
LEMMA RegisterKeepsRegistry ==
  ASSUME RegistryInv, NEW answers \in BOOLEAN, Reg!Register(answers)
  PROVE  RegistryInv'
<1> DEFINE e == Head(listed)
           key == Key(Head(listed))
<1>1. /\ listed # <<>> /\ listed' = Tail(listed)
      /\ IF key # None /\ key \in seen_pci
         THEN /\ skipped' = skipped \union {e.board}
              /\ UNCHANGED <<seen_pci, devices, answered>>
         ELSE /\ seen_pci' = (IF answers THEN seen_pci \union ({key} \ {None}) ELSE seen_pci)
              /\ devices' = (IF answers THEN Append(devices, e) ELSE devices)
              /\ answered' = (IF answers THEN answered \union {e.board} ELSE answered)
              /\ UNCHANGED skipped
      /\ UNCHANGED <<machine, luids>>
  BY DEF Reg!Register, Reg!SeenAfter, Key
<1>2. listed \in Seq(Entries) /\ devices \in Seq(Entries)
  BY DEF RegistryInv, RegistryTypes
<1>3. e \in Entries /\ listed' \in Seq(Entries)
  BY <1>1, <1>2
<1>4. MatchedRight'
  BY <1>1 DEF RegistryInv, MatchedRight
<1>5. CASE key # None /\ key \in seen_pci
  <2>1. PICK j \in DOMAIN devices : Key(devices[j]) = key
    BY <1>5 DEF RegistryInv, SeenAreRegistered
  <2>2. devices[j] \in Entries
    BY <1>2, <2>1
  <2>3. /\ devices[j].board \in Boards /\ e.board \in Boards
        /\ key = <<devices[j].board.domain, devices[j].board.bus>>
        /\ key = <<e.board.domain, e.board.bus>>
    BY <1>3, <1>5, <2>1, <2>2 DEF Entries
  <2>4. devices[j].board.domain = e.board.domain /\ devices[j].board.bus = e.board.bus
    BY <2>3
  <2>5. devices[j].board = e.board
    BY <2>3, <2>4, EngineAssumption DEF Reg!RegistryAssumption
  <2>6. NoneIsLost'
    BY <1>1, <1>5, <2>5 DEF RegistryInv, NoneIsLost
  <2>7. QED
    BY <1>1, <1>3, <1>4, <1>5, <2>6 DEF RegistryInv, RegistryTypes, SeenAreRegistered
<1>6. CASE ~ (key # None /\ key \in seen_pci) /\ ~answers
  BY <1>1, <1>3, <1>4, <1>6 DEF RegistryInv, RegistryTypes, SeenAreRegistered, NoneIsLost
<1>7. CASE ~ (key # None /\ key \in seen_pci) /\ answers
  <2>1. /\ seen_pci' = seen_pci \union ({key} \ {None})
        /\ devices' = Append(devices, e)
        /\ answered' = answered \union {e.board} /\ skipped' = skipped
    BY <1>1, <1>7
  <2>2. /\ Len(devices') = Len(devices) + 1 /\ devices'[Len(devices) + 1] = e
        /\ \A j \in DOMAIN devices : j \in DOMAIN devices' /\ devices'[j] = devices[j]
        /\ DOMAIN devices' = DOMAIN devices \union {Len(devices) + 1}
        /\ devices' \in Seq(Entries)
    BY <1>2, <1>3, <2>1
  <2>3. Len(devices) \in Nat /\ DOMAIN devices = 1..Len(devices)
    BY <1>2
  <2>4. RegistryTypes'
    BY <1>1, <1>3, <2>2 DEF RegistryInv, RegistryTypes
  <2>5. NoneIsLost'
    BY <2>1, <2>2 DEF RegistryInv, NoneIsLost
  <2> DEFINE n == Len(devices) + 1
  <2>6. n \in DOMAIN devices' /\ Key(devices'[n]) = key
    BY <2>2
  <2>7. \A j \in DOMAIN devices : Key(devices'[j]) = Key(devices[j])
    BY <2>2
  <2>8. \A k \in seen_pci' : k # None /\ \E j \in DOMAIN devices' : Key(devices'[j]) = k
    BY <2>1, <2>2, <2>6, <2>7 DEF RegistryInv, SeenAreRegistered
  <2>9. \A j \in DOMAIN devices' : Key(devices'[j]) # None => Key(devices'[j]) \in seen_pci'
    BY <2>1, <2>2, <2>6, <2>7 DEF RegistryInv, SeenAreRegistered
  <2>10. ASSUME NEW j \in DOMAIN devices', NEW k \in DOMAIN devices', j < k
         PROVE  \/ Key(devices'[j]) = None \/ Key(devices'[k]) = None
                \/ Key(devices'[j]) # Key(devices'[k])
    <3>1. j \in DOMAIN devices
      BY <2>2, <2>3, <2>10
    <3>2. CASE k \in DOMAIN devices
      BY <2>7, <2>10, <3>1, <3>2 DEF RegistryInv, SeenAreRegistered
    <3>3. CASE k = n
      <4>1. Key(devices[j]) = None \/ Key(devices[j]) \in seen_pci
        BY <3>1 DEF RegistryInv, SeenAreRegistered
      <4> HIDE DEF n, key
      <4>2. QED
        BY <1>7, <2>6, <2>7, <3>1, <3>3, <4>1
    <3>4. QED
      BY <2>2, <3>2, <3>3
  <2>11. SeenAreRegistered'
    BY <2>8, <2>9, <2>10 DEF SeenAreRegistered
  <2>12. QED
    BY <1>4, <2>4, <2>5, <2>11 DEF RegistryInv
<1>8. QED
  BY <1>5, <1>6, <1>7

\* Every step of a start keeps the invariant.
LEMMA RegistryStep == RegistryInv /\ [Reg!Next]_regVars => RegistryInv'
<1> SUFFICES ASSUME RegistryInv, [Reg!Next]_regVars
             PROVE  RegistryInv'
  OBVIOUS
<1>1. CASE UNCHANGED regVars
  BY <1>1 DEF regVars, RegistryInv, RegistryTypes, SeenAreRegistered, NoneIsLost, MatchedRight
<1>2. CASE Reg!Next
  BY <1>2, InitNvidiaKeepsRegistry, InitOtherKeepsRegistry, MockKeepsRegistry,
     RegisterKeepsRegistry DEF Reg!Next
<1>3. QED
  BY <1>1, <1>2

\* A board is listed once unless a source could not tell its address, a board
\* is skipped only for one that is registered, and an NVIDIA device is matched
\* to no adapter but its own (collector.rs, with_backends; nvidia.rs): for any
\* boards, in any order the sources enumerate them.
THEOREM BoardsAreListedOnce == Spec2 => []EachBoardOnce
<1>1. RegistryInv => EachBoardOnce
  <2> SUFFICES ASSUME RegistryInv
               PROVE  EachBoardOnce
    OBVIOUS
  <2>1. devices \in Seq(Entries)
    BY DEF RegistryInv, RegistryTypes
  <2>2. ASSUME NEW j \in DOMAIN devices, NEW k \in DOMAIN devices,
               j < k, devices[j].board = devices[k].board
        PROVE  \E n \in {j, k} : Reg!normalize_pci_id(devices[n].id) = None
    <3>1. devices[j] \in Entries /\ devices[k] \in Entries
      BY <2>1
    <3>2. Key(devices[j]) = None \/ Key(devices[k]) = None \/ Key(devices[j]) # Key(devices[k])
      BY <2>2 DEF RegistryInv, SeenAreRegistered
    <3>3. Key(devices[j]) = None \/ Key(devices[k]) = None
      BY <2>2, <3>1, <3>2 DEF Entries
    <3>4. QED
      BY <3>3 DEF Key
  <2>3. \A b \in skipped \union answered : Reg!Registered(b)
    BY <2>1 DEF RegistryInv, NoneIsLost, Reg!Registered, Reg!Range
  <2>4. QED
    BY <2>2, <2>3 DEF EachBoardOnce, Reg!EachBoardOnce, RegistryInv, MatchedRight
<1>2. QED
  BY <1>1, RegistryPart, RegistryStart, RegistryStep, PTL

-----------------------------------------------------------------------------
(* Throttle: what a reading tells *)

\* A throttle reading moves by its own actions alone.
LEMMA ThrottlePart == Spec2 => Thr!Init /\ [][Thr!Next]_thrVars
<1>1. Init2 => Thr!Init
  BY DEF Init2
<1>2. [Next2]_<<setting, vars, outVars, regVars, prbVars, thrVars,
               qryVars, figVars, socVars, mckVars, rowVars, dmoVars>>
        => [Thr!Next]_thrVars
  BY DEF Next2
<1>3. QED
  BY <1>1, <1>2, PTL DEF Spec2

\* A reading under way is of something that limits, and every cause it has is
\* one a limit was asserted, or still latched, for.
ThrottleInv ==
  /\ source \in {"nvml", "amdgpu", "intel", "none"}
  /\ asserted \subseteq Thr!Published
  /\ asserted \subseteq seen.ever
  /\ IF Thr!Limiting(asserted) = {} THEN seen.quiet ELSE seen.limited
  /\ reading # None =>
       /\ source = "intel" /\ seen.limited
       /\ reading.files \in 0..7
       /\ \A cause \in reading.told :
            \E b \in Thr!Known(seen.ever \union latched) : Thr!Vocabulary[b] = cause
  /\ Thr!ThrottleIsTrue

\* The bits of each source; idleness is a cause in none.
LEMMA Vocabularies ==
  /\ source = "nvml" => Thr!Vocabulary = Thr!NvmlBits
  /\ source = "amdgpu" => Thr!Vocabulary = Thr!IndepGroups
  /\ source = "intel" => Thr!Vocabulary = Thr!IntelReasons
  /\ "GPU_IDLE" \notin DOMAIN Thr!NvmlBits
  /\ "GPU_IDLE" \notin DOMAIN Thr!IndepGroups
  /\ "GPU_IDLE" \notin DOMAIN Thr!IntelReasons
BY DEF Thr!Vocabulary, Thr!NvmlBits, Thr!IndepGroups, Thr!IntelReasons

\* Intel's files are those of its reasons.
LEMMA ReasonFilesAreReasons ==
  /\ Len(Thr!ReasonFiles) = 8
  /\ \A i \in 1..8 : Thr!ReasonFiles[i] \in DOMAIN Thr!IntelReasons
BY DEF Thr!ReasonFiles, Thr!IntelReasons

\* Nothing is read at first.
LEMMA ThrottleStart == Thr!Init => ThrottleInv
<1> SUFFICES ASSUME Thr!Init PROVE ThrottleInv
  OBVIOUS
<1>1. asserted = {} /\ reading = None /\ seen = Thr!Now({}) /\ sample = <<>>
  BY DEF Thr!Init
<1>2. source \in {"nvml", "amdgpu", "intel", "none"}
  BY EngineAssumption DEF Thr!Init
<1>3. Thr!Limiting(asserted) = {}
  BY <1>1 DEF Thr!Limiting
<1>4. seen.quiet
  BY <1>1 DEF Thr!Now, Thr!Limiting
<1>5. QED
  BY <1>1, <1>2, <1>3, <1>4 DEF ThrottleInv, Thr!ThrottleIsTrue

\* The limits that were in force, or whose file still says so, only grow in
\* number while a reading lasts.
LEMMA DriverKeepsThrottle ==
  ASSUME ThrottleInv, NEW b \in Bits \intersect Thr!Published,
         Thr!Assert(b) \/ \E lingers \in BOOLEAN : Thr!Release(b, lingers)
  PROVE  ThrottleInv'
<1>1. /\ UNCHANGED <<source, reading>> /\ sample' = <<>>
      /\ seen' = Thr!And(seen, Thr!Now(asserted'))
      /\ asserted' \subseteq asserted \union {b}
      /\ latched \subseteq latched' \union asserted
  BY DEF Thr!Assert, Thr!Release, ThrottleInv
<1>2. /\ seen.ever \union asserted' = seen'.ever
      /\ seen'.quiet = (seen.quiet \/ Thr!Limiting(asserted') = {})
      /\ seen'.limited = (seen.limited \/ Thr!Limiting(asserted') # {})
  BY <1>1 DEF Thr!And, Thr!Now
<1>3. Thr!Published' = Thr!Published /\ Thr!Vocabulary' = Thr!Vocabulary
  BY <1>1 DEF Thr!Published, Thr!Vocabulary
<1>4. seen.ever \union latched \subseteq seen'.ever \union latched'
  BY <1>1, <1>2 DEF ThrottleInv
<1>5. Thr!Known(seen.ever \union latched) \subseteq
        (seen'.ever \union latched') \intersect DOMAIN Thr!Vocabulary
  BY <1>4 DEF Thr!Known
<1>6. reading' # None =>
       /\ source' = "intel" /\ seen'.limited
       /\ reading'.files \in 0..7
       /\ \A cause \in reading'.told :
            \E c \in (seen'.ever \union latched') \intersect DOMAIN Thr!Vocabulary :
              Thr!Vocabulary[c] = cause
  BY <1>1, <1>2, <1>5 DEF ThrottleInv
<1>7. Thr!ThrottleIsTrue'
  BY <1>1 DEF Thr!ThrottleIsTrue
<1>8. IF Thr!Limiting(asserted') = {} THEN seen'.quiet ELSE seen'.limited
  BY <1>2
<1>9. asserted' \subseteq Thr!Published /\ asserted' \subseteq seen'.ever
  BY <1>1, <1>2 DEF ThrottleInv
<1>10. QED
  BY <1>1, <1>3, <1>6, <1>7, <1>8, <1>9 DEF ThrottleInv, Thr!Known, Thr!Limiting

\* A word decoded is empty when nothing limits, and names what its bits say.
LEMMA DecodedIsTrue ==
  ASSUME source \in {"nvml", "amdgpu", "intel"}, NEW bits
  PROVE  /\ Thr!Decoded(bits) = {} <=> Thr!Limiting(bits) = {}
         /\ \A cause \in Thr!Decoded(bits) \ {"other"} :
              \E b \in Thr!Known(bits) : Thr!Vocabulary[b] = cause
<1>1. "GPU_IDLE" \notin DOMAIN Thr!Vocabulary
  BY Vocabularies
<1>2. Thr!Known(bits) \subseteq Thr!Limiting(bits)
  BY <1>1 DEF Thr!Known, Thr!Limiting
<1>3. QED
  BY <1>2 DEF Thr!Decoded

\* A reading that is of one moment, true of that moment, is true.
LEMMA MomentsAreTrue ==
  ASSUME ThrottleInv, NEW told, Thr!Sampled(told), seen' = Thr!Now(asserted),
         told = None \/
           /\ IF told = {} THEN Thr!Limiting(asserted) = {}
              ELSE Thr!Limiting(asserted) # {}
           /\ \A cause \in told \ {"other"} :
                \E b \in Thr!Known(asserted) : Thr!Vocabulary[b] = cause
  PROVE  ThrottleInv'
<1>1. /\ UNCHANGED <<source, asserted, latched>>
      /\ reading' = None /\ sample' = <<told>>
  BY DEF Thr!Sampled
<1>2. Thr!Published' = Thr!Published /\ Thr!Vocabulary' = Thr!Vocabulary
  BY <1>1 DEF Thr!Published, Thr!Vocabulary
<1>3. /\ seen'.ever = asserted /\ seen'.quiet = (Thr!Limiting(asserted) = {})
      /\ seen'.limited = (Thr!Limiting(asserted) # {})
  BY DEF Thr!Now
<1>4. Thr!ThrottleIsTrue'
  <2>1. CASE told = None
    BY <1>1, <2>1 DEF Thr!ThrottleIsTrue
  <2>2. CASE told # None
    <3>1. IF told = {} THEN seen'.quiet ELSE seen'.limited
      BY <1>3, <2>2
    <3>2. Thr!Known(asserted) \subseteq
            (seen'.ever \union latched') \intersect DOMAIN Thr!Vocabulary
      BY <1>3 DEF Thr!Known
    <3>3. \A cause \in told \ {"other"} :
            \E b \in (seen'.ever \union latched') \intersect DOMAIN Thr!Vocabulary :
              Thr!Vocabulary[b] = cause
      BY <2>2, <3>2
    <3>4. sample'[1] = told
      BY <1>1
    <3>5. QED
      BY <1>2, <3>1, <3>3, <3>4 DEF Thr!ThrottleIsTrue, Thr!Known
  <2>3. QED
    BY <2>1, <2>2
<1>5. IF Thr!Limiting(asserted') = {} THEN seen'.quiet ELSE seen'.limited
  BY <1>1, <1>3
<1>6. QED
  BY <1>1, <1>2, <1>3, <1>4, <1>5 DEF ThrottleInv, Thr!Limiting

\* Sources that tell everything in one read.
LEMMA WordsKeepThrottle ==
  ASSUME ThrottleInv, NEW ok \in BOOLEAN,
         Thr!QueryNvml(ok) \/ Thr!ReadGpuMetrics(ok) \/ Thr!CannotTell
  PROVE  ThrottleInv'
<1>1. CASE Thr!QueryNvml(ok)
  <2>1. DEFINE told == IF ok THEN Thr!Decoded(asserted) ELSE None
  <2>2. source = "nvml" /\ seen' = Thr!Now(asserted) /\ Thr!Sampled(told)
    BY <1>1 DEF Thr!QueryNvml
  <2>3. told = None \/
           /\ IF told = {} THEN Thr!Limiting(asserted) = {}
              ELSE Thr!Limiting(asserted) # {}
           /\ \A cause \in told \ {"other"} :
                \E b \in Thr!Known(asserted) : Thr!Vocabulary[b] = cause
    BY <2>2, DecodedIsTrue
  <2>4. HIDE DEF told
  <2>5. QED
    BY <2>2, <2>3, MomentsAreTrue
<1>2. CASE Thr!ReadGpuMetrics(ok)
  <2>1. DEFINE told == Thr!decode_gpu_metrics_throttle(ok, asserted)
  <2>2. source = "amdgpu" /\ seen' = Thr!Now(asserted) /\ Thr!Sampled(told)
    BY <1>2 DEF Thr!ReadGpuMetrics
  <2>3. "GPU_IDLE" \notin asserted
    BY <2>2, Vocabularies DEF ThrottleInv, Thr!Published
  <2>4. Thr!Limiting(asserted) = asserted
    BY <2>3 DEF Thr!Limiting
  <2>5. told \in {None, Thr!Decoded(asserted), IF asserted # {} THEN {"other"} ELSE {}}
    BY DEF Thr!decode_gpu_metrics_throttle
  <2>6. told = None \/
           /\ IF told = {} THEN Thr!Limiting(asserted) = {}
              ELSE Thr!Limiting(asserted) # {}
           /\ \A cause \in told \ {"other"} :
                \E b \in Thr!Known(asserted) : Thr!Vocabulary[b] = cause
    <3>1. CASE told = Thr!Decoded(asserted)
      BY <2>2, <3>1, DecodedIsTrue
    <3>2. CASE told = IF asserted # {} THEN {"other"} ELSE {}
      BY <2>4, <3>2
    <3>3. QED
      BY <2>5, <3>1, <3>2
  <2>7. HIDE DEF told
  <2>8. QED
    BY <2>2, <2>6, MomentsAreTrue
<1>3. CASE Thr!CannotTell
  BY <1>3, MomentsAreTrue DEF Thr!CannotTell
<1>4. QED
  BY <1>1, <1>2, <1>3

\* Intel's status, which the causes wait for.
LEMMA StatusKeepsThrottle ==
  ASSUME ThrottleInv, NEW legible \in BOOLEAN, Thr!ReadStatus(legible)
  PROVE  ThrottleInv'
<1>1. source = "intel" /\ reading = None /\ seen' = Thr!Now(asserted)
  BY DEF Thr!ReadStatus
<1>2. "GPU_IDLE" \notin asserted
  BY <1>1, Vocabularies DEF ThrottleInv, Thr!Published
<1>3. Thr!Limiting(asserted) = asserted
  BY <1>2 DEF Thr!Limiting
<1>4. CASE asserted = {} \/ ~legible
  <2>1. Thr!Sampled(IF legible THEN {} ELSE None)
    BY <1>4 DEF Thr!ReadStatus
  <2>2. QED
    BY <1>1, <1>3, <1>4, <2>1, MomentsAreTrue
<1>5. CASE asserted # {} /\ legible
  <2>1. /\ reading' = [files |-> 0, told |-> {}] /\ sample' = <<>>
        /\ UNCHANGED <<source, asserted, latched>>
    BY <1>5 DEF Thr!ReadStatus
  <2>2. Thr!Published' = Thr!Published
    BY <2>1 DEF Thr!Published, Thr!Vocabulary
  <2>3. seen'.ever = asserted /\ seen'.limited
    BY <1>1, <1>3, <1>5 DEF Thr!Now
  <2>4. Thr!ThrottleIsTrue'
    BY <2>1 DEF Thr!ThrottleIsTrue
  <2>5. IF Thr!Limiting(asserted') = {} THEN seen'.quiet ELSE seen'.limited
    BY <1>3, <1>5, <2>1, <2>3
  <2>6. /\ reading'.files \in 0..7
        /\ \A cause \in reading'.told :
             \E b \in (Thr!Known(seen.ever \union latched)') : (Thr!Vocabulary[b] = cause)'
    BY <2>1
  <2>7. QED
    BY <1>1, <2>1, <2>2, <2>3, <2>4, <2>5, <2>6 DEF ThrottleInv, Thr!Limiting
<1>6. QED
  BY <1>4, <1>5

\* One of Intel's reasons, of a later instant than the status.
LEMMA FilesKeepThrottle ==
  ASSUME ThrottleInv, NEW legible \in BOOLEAN, Thr!ReadReason(legible)
  PROVE  ThrottleInv'
<1> DEFINE file == Thr!ReasonFiles[reading.files + 1]
<1> DEFINE field == Thr!IntelReasons[file]
<1> DEFINE told == IF legible /\ file \in latched /\ field \notin reading.told
                   THEN reading.told \union {field} ELSE reading.told
<1>2. reading # None /\ source = "intel" /\ seen.limited /\ reading.files \in 0..7
  BY DEF Thr!ReadReason, ThrottleInv
<1>3. seen' = Thr!And(seen, Thr!Now(asserted))
  BY DEF Thr!ReadReason
<1>4. /\ seen'.ever = seen.ever \union asserted
      /\ seen'.limited /\ (seen'.quiet = (seen.quiet \/ Thr!Limiting(asserted) = {}))
  BY <1>2, <1>3 DEF Thr!And, Thr!Now
<1>5. Len(Thr!ReasonFiles) = 8 /\ Len(Thr!ReasonFiles) \in Int
  BY ReasonFilesAreReasons
<1>6. reading.files + 1 \in 1..8
  BY <1>2
<1>7. file \in DOMAIN Thr!Vocabulary /\ Thr!Vocabulary[file] = field
  BY <1>2, <1>6, ReasonFilesAreReasons, Vocabularies
<1>8. /\ UNCHANGED <<source, asserted, latched>>
      /\ \/ /\ sample' = <<IF told = {} THEN {"other"} ELSE told>> /\ reading' = None
         \/ /\ sample' = <<>> /\ reading.files + 1 # 8
            /\ reading' = [files |-> reading.files + 1, told |-> told]
  BY <1>5 DEF Thr!ReadReason, Thr!Sampled
<1>9. \A cause \in told :
        \E b \in (seen'.ever \union latched) \intersect DOMAIN Thr!Vocabulary :
          Thr!Vocabulary[b] = cause
  <2>1. \A cause \in reading.told :
          \E b \in (seen'.ever \union latched) \intersect DOMAIN Thr!Vocabulary :
            Thr!Vocabulary[b] = cause
    BY <1>2, <1>4 DEF ThrottleInv, Thr!Known
  <2>2. file \in latched =>
          \E b \in (seen'.ever \union latched) \intersect DOMAIN Thr!Vocabulary :
            Thr!Vocabulary[b] = field
    BY <1>7
  <2>3. HIDE DEF file, field
  <2>4. QED
    BY <2>1, <2>2
<1>10. Thr!Published' = Thr!Published /\ Thr!Vocabulary' = Thr!Vocabulary
  BY <1>8 DEF Thr!Published, Thr!Vocabulary
<1>11. /\ asserted' \subseteq Thr!Published' /\ asserted' \subseteq seen'.ever
       /\ source' \in {"nvml", "amdgpu", "intel", "none"}
  BY <1>4, <1>8, <1>10 DEF ThrottleInv
<1>12. IF Thr!Limiting(asserted)' = {} THEN seen'.quiet ELSE seen'.limited
  BY <1>4, <1>8 DEF Thr!Limiting
<1>13. HIDE DEF told
<1>14. reading' # None =>
         /\ source' = "intel" /\ seen'.limited
         /\ reading'.files \in 0..7
         /\ \A cause \in reading'.told :
              \E b \in (Thr!Known(seen.ever \union latched)') :
                (Thr!Vocabulary[b] = cause)'
  BY <1>2, <1>4, <1>6, <1>8, <1>9, <1>10 DEF Thr!Known
<1>15. Thr!ThrottleIsTrue'
  <2>1. CASE sample' = <<>>
    BY <2>1 DEF Thr!ThrottleIsTrue
  <2>2. CASE sample' = <<IF told = {} THEN {"other"} ELSE told>>
    <3>1. sample'[1] = (IF told = {} THEN {"other"} ELSE told)
      BY <2>2
    <3>2. sample'[1] # {} /\ sample'[1] \ {"other"} \subseteq told
      BY <3>1
    <3>3. QED
      BY <1>4, <1>8, <1>9, <1>10, <3>2 DEF Thr!ThrottleIsTrue, Thr!Known
  <2>3. QED
    BY <1>8, <2>1, <2>2
<1>16. QED
  BY <1>11, <1>12, <1>14, <1>15 DEF ThrottleInv

\* Every action of the driver and of a reading keeps the invariant.
LEMMA ThrottleSteps == ThrottleInv /\ [Thr!Next]_thrVars => ThrottleInv'
<1> SUFFICES ASSUME ThrottleInv, [Thr!Next]_thrVars PROVE ThrottleInv'
  OBVIOUS
<1>1. CASE UNCHANGED thrVars
  BY <1>1 DEF thrVars, ThrottleInv, Thr!Limiting, Thr!Published, Thr!Vocabulary,
              Thr!Known, Thr!ThrottleIsTrue
<1>2. ASSUME NEW b \in Bits \intersect Thr!Published,
             Thr!Assert(b) \/ \E lingers \in BOOLEAN : Thr!Release(b, lingers)
      PROVE  ThrottleInv'
  BY <1>2, DriverKeepsThrottle
<1>3. ASSUME NEW ok \in BOOLEAN,
             Thr!QueryNvml(ok) \/ Thr!ReadGpuMetrics(ok) \/ Thr!CannotTell
      PROVE  ThrottleInv'
  BY <1>3, WordsKeepThrottle
<1>4. ASSUME NEW ok \in BOOLEAN, Thr!ReadStatus(ok) \/ Thr!ReadReason(ok)
      PROVE  ThrottleInv'
  BY <1>4, StatusKeepsThrottle, FilesKeepThrottle
<1>5. QED
  BY <1>1, <1>2, <1>3, <1>4 DEF Thr!Next

\* What a reading says was so at some instant of it.
LEMMA ThrottleReadings == Spec2 => []Thr!ThrottleIsTrue
<1>1. ThrottleInv => Thr!ThrottleIsTrue
  BY DEF ThrottleInv
<1>2. QED
  BY <1>1, ThrottlePart, ThrottleStart, ThrottleSteps, PTL

-----------------------------------------------------------------------------
(* Pdh: what a process list of Windows promises *)

\* The shared query moves by its own actions alone.
LEMMA PdhPart == Spec2 => Qry!Init /\ [][Qry!Next]_qryVars
<1>1. Init2 => Qry!Init
  BY DEF Init2
<1>2. [Next2]_<<setting, vars, outVars, regVars, prbVars, thrVars,
               qryVars, figVars, socVars, mckVars, rowVars, dmoVars>>
        => [Qry!Next]_qryVars
  BY DEF Next2
<1>3. QED
  BY <1>1, <1>2, PTL DEF Spec2

PdhTypes ==
  /\ mode \in [Qry!Streams -> {"Wildcard", "Expanded", "Absent"}]
  /\ alive \subseteq Instances
  /\ clock \in 0..MaxClock /\ expanded \in Nat
  /\ held \in [Instances -> Nat]
  /\ cache \in Qry!Snapshot \union {None}
  /\ hollow \in BOOLEAN
  /\ mode["memory"] = "Absent" => blind["memory"] = Instances

\* An instance the memory stream has no handle of came after the expansion.
HandlesAreRecent ==
  /\ expanded <= clock
  /\ mode["memory"] = "Expanded" =>
       \A i \in alive \ blind["memory"] :
         i \in handles["memory"] \/ held[i] <= clock - expanded

\* What the cache lists went after it was filled; what a cache that still
\* serves does not list came after the expansion before that, or was missed.
CacheIsRecent ==
  cache # None =>
    /\ cache.at <= clock
    /\ \A i \in cache.engine \union cache.memory :
         i \in alive \/ held[i] <= clock - cache.at
    /\ Qry!CacheServes /\ ~hollow =>
         \A i \in alive \ Qry!Missed :
           i \in cache.memory \/ held[i] < REEXPAND_MS + (clock - cache.at)

PdhInv == PdhTypes /\ (~setback => HandlesAreRecent /\ CacheIsRecent
                                   /\ Qry!SnapshotIsCurrent)

\* Ages of the cache are counts, and the clock covers one of each.
LEMMA PdhConstants ==
  /\ SNAPSHOT_REUSE_MS \in Nat /\ REEXPAND_MS \in Nat /\ MaxClock \in Nat
  /\ REEXPAND_MS <= MaxClock
  /\ None \notin Qry!Snapshot
<1>1. SNAPSHOT_REUSE_MS \in Nat /\ REEXPAND_MS \in Nat \ {0}
  BY EngineAssumption
<1>2. MaxClock \in Nat /\ REEXPAND_MS <= MaxClock
  BY EngineAssumption
<1>3. None \notin Qry!Snapshot
  BY EngineAssumption
<1>4. QED
  BY <1>1, <1>2, <1>3

\* No query is open at first.
LEMMA PdhStart == Qry!Init => PdhInv
<1> SUFFICES ASSUME Qry!Init PROVE PdhInv
  OBVIOUS
<1>1. "memory" \in Qry!Streams
  BY DEF Qry!Streams
<1>2. PdhTypes
  <2>1. mode \in [Qry!Streams -> {"Wildcard", "Expanded", "Absent"}]
        /\ alive \subseteq Instances
    BY DEF Qry!Init
  <2>2. clock \in 0..MaxClock /\ expanded \in Nat
    BY PdhConstants DEF Qry!Init
  <2>3. Qry!MaxHeld \in Nat
    BY PdhConstants DEF Qry!MaxHeld
  <2>4. held \in [Instances -> Nat]
    BY <2>3 DEF Qry!Init
  <2>5. cache = None /\ hollow \in BOOLEAN
        /\ (mode["memory"] = "Absent" => blind["memory"] = Instances)
    BY <1>1 DEF Qry!Init
  <2>6. QED
    BY <2>1, <2>2, <2>4, <2>5 DEF PdhTypes
<1>3. HandlesAreRecent
  <2>1. expanded <= clock
    BY PdhConstants DEF Qry!Init
  <2>2. mode["memory"] = "Expanded" => alive \ blind["memory"] \subseteq handles["memory"]
    BY <1>1 DEF Qry!Init
  <2>3. QED
    BY <2>1, <2>2 DEF HandlesAreRecent
<1>4. CacheIsRecent /\ Qry!SnapshotIsCurrent
  BY DEF Qry!Init, CacheIsRecent, Qry!SnapshotIsCurrent
<1>5. QED
  BY <1>2, <1>3, <1>4 DEF PdhInv

\* How long ago, of a moment that is not in the future.
LEMMA PassedIsPast ==
  ASSUME clock \in Nat, NEW since \in Nat, since <= clock
  PROVE  Qry!Passed(since) = clock - since
BY DEF Qry!Passed

\* A snapshot of the cache has its moment, its engines and its memories.
LEMMA CacheHasParts ==
  ASSUME PdhTypes, cache # None
  PROVE  /\ cache.at \in Nat
         /\ cache.engine \subseteq Instances /\ cache.memory \subseteq Instances
BY DEF PdhTypes, Qry!Snapshot

\* A snapshot that lists nothing long gone and everything long there is current.
LEMMA ListedIsCurrent ==
  ASSUME PdhTypes, NEW snap, snap # None,
         served' = [snap |-> snap, stale |-> FALSE],
         UNCHANGED <<alive, held>>,
         \A i \in Instances :
           /\ i \notin alive /\ held[i] >= SNAPSHOT_REUSE_MS =>
                i \notin snap.engine \union snap.memory
           /\ i \in alive /\ held[i] >= REEXPAND_MS + SNAPSHOT_REUSE_MS
                /\ i \notin Qry!Missed' => i \in snap.memory
  PROVE  Qry!SnapshotIsCurrent'
<1>1. served'.snap = snap
  OBVIOUS
<1>2. ASSUME NEW i \in Instances,
             Qry!There(i, REEXPAND_MS + SNAPSHOT_REUSE_MS)', i \notin Qry!Missed'
      PROVE  i.pid \in Qry!ProcessList(snap, i.luid)
  <2>1. i \in snap.memory
    BY <1>2 DEF Qry!There
  <2>2. QED
    BY <2>1 DEF Qry!ProcessList
<1>3. ASSUME NEW i \in Instances, Qry!Gone(i, SNAPSHOT_REUSE_MS)'
      PROVE  i \notin snap.engine \union snap.memory
  BY <1>3 DEF Qry!Gone
<1>4. QED
  BY <1>1, <1>2, <1>3 DEF Qry!SnapshotIsCurrent, Qry!Gone, Qry!There,
                           Qry!ProcessList

\* A call the cache serves.
LEMMA ReuseKeepsPdh ==
  ASSUME PdhInv, Qry!Reuse
  PROVE  PdhInv'
<1>1. /\ Qry!CacheServes /\ served' = [snap |-> cache, stale |-> hollow]
      /\ UNCHANGED <<mode, handles, expanded, cache, clock, alive, held, blind,
                     unread, hollow, setback>>
  BY DEF Qry!Reuse
<1>2. PdhTypes' /\ (~setback' => HandlesAreRecent' /\ CacheIsRecent')
  BY <1>1 DEF PdhInv, PdhTypes, HandlesAreRecent, CacheIsRecent, Qry!CacheServes,
              Qry!Passed, Qry!Missed
<1>3. ASSUME ~setback
      PROVE  Qry!SnapshotIsCurrent'
  <2>1. CASE hollow
    BY <1>1, <2>1 DEF Qry!SnapshotIsCurrent
  <2>2. CASE ~hollow
    <3>1. cache # None /\ clock \in Nat /\ held \in [Instances -> Nat]
      BY <1>1 DEF PdhInv, PdhTypes, Qry!CacheServes
    <3>2. /\ cache.at \in Nat
          /\ cache.engine \subseteq Instances /\ cache.memory \subseteq Instances
      BY <3>1, CacheHasParts DEF PdhInv
    <3>3. cache.at <= clock /\ CacheIsRecent
      BY <1>3, <3>1 DEF PdhInv, CacheIsRecent
    <3>4. clock - cache.at < SNAPSHOT_REUSE_MS
      BY <1>1, <3>1, <3>2, <3>3, PassedIsPast DEF Qry!CacheServes
    <3>5. ASSUME NEW i \in Instances, i \notin alive, held[i] >= SNAPSHOT_REUSE_MS
          PROVE  i \notin cache.engine \union cache.memory
      <4>1. held[i] \in Nat /\ SNAPSHOT_REUSE_MS \in Nat
        BY <3>1, PdhConstants
      <4>2. ~(held[i] <= clock - cache.at)
        BY <3>1, <3>2, <3>4, <3>5, <4>1
      <4>3. QED
        BY <3>1, <3>3, <3>5, <4>2 DEF CacheIsRecent
    <3>6. ASSUME NEW i \in Instances, i \in alive, i \notin Qry!Missed',
                 held[i] >= REEXPAND_MS + SNAPSHOT_REUSE_MS
          PROVE  i \in cache.memory
      <4>1. held[i] \in Nat /\ SNAPSHOT_REUSE_MS \in Nat /\ REEXPAND_MS \in Nat
        BY <3>1, PdhConstants
      <4>2. ~(held[i] < REEXPAND_MS + (clock - cache.at))
        BY <3>1, <3>2, <3>4, <3>6, <4>1
      <4>3. QED
        BY <1>1, <2>2, <3>1, <3>3, <3>6, <4>2 DEF CacheIsRecent, Qry!Missed
    <3>7. served' = [snap |-> cache, stale |-> FALSE]
      <4>1. hollow = FALSE
        BY <2>2 DEF PdhInv, PdhTypes
      <4>2. QED
        BY <1>1, <4>1
    <3>8. QED
      BY <1>1, <3>1, <3>5, <3>6, <3>7, ListedIsCurrent DEF PdhInv
  <2>3. QED
    BY <2>1, <2>2
<1>4. QED
  BY <1>1, <1>2, <1>3 DEF PdhInv

\* What the memory stream sees when it is collected, due for expansion or not.
LEMMA MemoryIsSeen ==
  ASSUME PdhTypes, HandlesAreRecent, NEW status, NEW failed, NEW skip,
         Qry!Collect(status, failed, skip)
  PROVE  /\ HandlesAreRecent'
         /\ mode["memory"] = "Absent" => blind'["memory"] = Instances
         /\ \A i \in alive \ (blind'["memory"] \union skip["memory"]) :
              i \in Qry!Formatted("memory", handles', skip) \/ held[i] < REEXPAND_MS
<1>1. "memory" \in Qry!Streams
  BY DEF Qry!Streams
<1>2. /\ handles' = [s \in Qry!Streams |->
                       IF mode[s] # "Expanded" \/ ~Qry!ExpansionDue THEN handles[s]
                       ELSE alive \ failed[s]]
      /\ blind' = [s \in Qry!Streams |->
                     IF mode[s] # "Expanded" \/ ~Qry!ExpansionDue THEN blind[s]
                     ELSE failed[s]]
      /\ expanded' = IF Qry!ExpansionDue THEN clock ELSE expanded
      /\ UNCHANGED <<mode, clock, alive, held, setback>>
  BY DEF Qry!Collect
<1>3. /\ handles'["memory"] = IF mode["memory"] # "Expanded" \/ ~Qry!ExpansionDue
                              THEN handles["memory"]
                              ELSE alive \ failed["memory"]
      /\ blind'["memory"] = IF mode["memory"] # "Expanded" \/ ~Qry!ExpansionDue
                            THEN blind["memory"]
                            ELSE failed["memory"]
  BY <1>1, <1>2
<1>4. mode["memory"] \in {"Wildcard", "Expanded", "Absent"}
  BY <1>1 DEF PdhTypes
<1>5. clock \in Nat /\ expanded \in Nat /\ expanded <= clock
      /\ alive \subseteq Instances /\ held \in [Instances -> Nat]
  BY PdhConstants DEF PdhTypes, HandlesAreRecent
<1>6. Qry!Formatted("memory", handles', skip) =
        (IF mode["memory"] = "Wildcard" THEN alive
         ELSE IF mode["memory"] = "Expanded" THEN handles'["memory"] \intersect alive
         ELSE {}) \ skip["memory"]
  BY DEF Qry!Formatted
<1>7. CASE mode["memory"] # "Expanded"
  <2>1. expanded' <= clock'
    BY <1>2, <1>5
  <2>2. mode["memory"] = "Absent" => blind'["memory"] = Instances
    BY <1>3, <1>7 DEF PdhTypes
  <2>3. QED
    BY <1>2, <1>4, <1>5, <1>6, <1>7, <2>1, <2>2 DEF HandlesAreRecent
<1>8. CASE mode["memory"] = "Expanded" /\ Qry!ExpansionDue
  <2>1. expanded' <= clock'
    BY <1>2, <1>5, <1>8
  <2>2. \A i \in alive \ blind'["memory"] : i \in handles'["memory"]
    BY <1>3, <1>5, <1>8
  <2>3. QED
    BY <1>2, <1>6, <1>8, <2>1, <2>2 DEF HandlesAreRecent
<1>9. CASE mode["memory"] = "Expanded" /\ ~Qry!ExpansionDue
  <2>1. HandlesAreRecent'
    BY <1>2, <1>3, <1>9 DEF HandlesAreRecent
  <2>2. clock - expanded < REEXPAND_MS
    BY <1>5, <1>9, PassedIsPast, PdhConstants DEF Qry!ExpansionDue
  <2>3. ASSUME NEW i \in alive \ blind'["memory"], i \notin handles'["memory"]
        PROVE  held[i] < REEXPAND_MS
    <3>1. held[i] <= clock - expanded
      BY <1>3, <1>9, <2>3 DEF HandlesAreRecent
    <3>2. held[i] \in Nat
      BY <1>5, <2>3
    <3>3. QED
      BY <1>5, <2>2, <3>1, <3>2, PdhConstants
  <2>4. QED
    BY <1>2, <1>6, <1>9, <2>1, <2>3
<1>10. QED
  BY <1>7, <1>8, <1>9

\* A call that collects: when Windows has answered, what is listed is what the
\* streams see now; otherwise the last answer is only repeated.
LEMMA CollectKeepsPdh ==
  ASSUME PdhInv, NEW status \in {"ok", "timeout", "absence", "failure"},
         NEW failed, NEW skip, Qry!Collect(status, failed, skip)
  PROVE  PdhInv'
<1> DEFINE snap == [at |-> clock, engine |-> Qry!Formatted("engine", handles', skip),
                    memory |-> Qry!Formatted("memory", handles', skip)]
<1>1. /\ ~Qry!CacheServes
      /\ hollow' = (status = "absence" \/ (status # "ok" /\ hollow))
      /\ UNCHANGED <<mode, clock, alive, held, setback>>
      /\ expanded' = IF Qry!ExpansionDue THEN clock ELSE expanded
  BY DEF Qry!Collect
<1>2. \/ /\ status = "ok" /\ cache' = snap /\ served' = [snap |-> snap, stale |-> FALSE]
         /\ unread' = skip
      \/ status \in {"timeout", "failure"} /\ cache' = cache /\ served'.stale = TRUE
      \/ status = "absence" /\ cache' = Qry!Nothing(clock) /\ served'.stale = TRUE
  <2>1. ASSUME status = "ok"
        PROVE  /\ cache' = snap /\ served' = [snap |-> snap, stale |-> FALSE]
               /\ unread' = skip
    BY <2>1 DEF Qry!Collect
  <2>2. ASSUME status = "timeout" PROVE cache' = cache /\ served'.stale = TRUE
    BY <2>2 DEF Qry!Collect
  <2>3. ASSUME status = "failure" PROVE cache' = cache /\ served'.stale = TRUE
    BY <2>3 DEF Qry!Collect
  <2>4. ASSUME status = "absence"
        PROVE  cache' = Qry!Nothing(clock) /\ served'.stale = TRUE
    BY <2>4 DEF Qry!Collect
  <2>5. QED
    BY <2>1, <2>2, <2>3, <2>4
<1>3. snap \in Qry!Snapshot /\ Qry!Nothing(clock) \in Qry!Snapshot
      /\ snap.at = clock
      /\ snap.engine \subseteq alive /\ snap.memory \subseteq alive
      /\ snap.memory = Qry!Formatted("memory", handles', skip)
  <2>1. /\ Qry!Formatted("engine", handles', skip) \subseteq alive
        /\ Qry!Formatted("memory", handles', skip) \subseteq alive
    BY DEF Qry!Formatted
  <2>2. clock \in 0..MaxClock /\ alive \subseteq Instances
    BY DEF PdhInv, PdhTypes
  <2>3. QED
    BY <2>1, <2>2 DEF Qry!Snapshot, Qry!Nothing
<1>4. clock \in Nat /\ expanded \in Nat /\ held \in [Instances -> Nat]
      /\ alive \subseteq Instances
  BY PdhConstants DEF PdhInv, PdhTypes
<1>5. cache' \in Qry!Snapshot \union {None}
  BY <1>2, <1>3 DEF PdhInv, PdhTypes
<1> HIDE DEF snap
<1>6. mode["memory"] = "Absent" => blind'["memory"] = Instances
  <2>1. "memory" \in Qry!Streams
    BY DEF Qry!Streams
  <2>2. mode["memory"] = "Absent" => blind'["memory"] = blind["memory"]
    BY <2>1 DEF Qry!Collect
  <2>3. QED
    BY <2>2 DEF PdhInv, PdhTypes
<1>7. PdhTypes'
  BY <1>1, <1>4, <1>5, <1>6 DEF PdhInv, PdhTypes
<1>8. ASSUME ~setback
      PROVE  HandlesAreRecent' /\ CacheIsRecent' /\ Qry!SnapshotIsCurrent'
  <2>1. PdhTypes /\ HandlesAreRecent /\ CacheIsRecent
    BY <1>8 DEF PdhInv
  <2>2. /\ HandlesAreRecent'
        /\ \A i \in alive \ (blind'["memory"] \union skip["memory"]) :
             i \in Qry!Formatted("memory", handles', skip) \/ held[i] < REEXPAND_MS
    BY <2>1, MemoryIsSeen
  <2>3. CASE status = "ok"
    <3>1. /\ cache' = snap /\ served' = [snap |-> snap, stale |-> FALSE]
          /\ snap # None /\ unread' = skip
      BY <1>2, <1>3, <2>3, PdhConstants
    <3>2. \A i \in alive \ Qry!Missed' :
            i \in snap.memory \/ held[i] < REEXPAND_MS
      BY <1>3, <2>2, <3>1 DEF Qry!Missed
    <3>3. CacheIsRecent'
      <4>1. clock <= clock /\ REEXPAND_MS + (clock - clock) = REEXPAND_MS
        BY <1>4, PdhConstants
      <4>2. QED
        BY <1>1, <1>3, <3>1, <3>2, <4>1 DEF CacheIsRecent
    <3>4. ASSUME NEW i \in Instances, i \in alive, i \notin Qry!Missed',
                 held[i] >= REEXPAND_MS + SNAPSHOT_REUSE_MS
          PROVE  i \in snap.memory
      <4>1. held[i] \in Nat
        BY <1>4
      <4>2. ~(held[i] < REEXPAND_MS)
        BY <3>4, <4>1, PdhConstants
      <4>3. QED
        BY <3>2, <3>4, <4>2
    <3>5. Qry!SnapshotIsCurrent'
      BY <1>1, <1>3, <2>1, <3>1, <3>4, ListedIsCurrent
    <3>6. QED
      BY <2>2, <3>3, <3>5
  <2>4. CASE status \in {"timeout", "failure"}
    <3>1. cache' = cache /\ served'.stale = TRUE
      BY <1>2, <2>4
    <3>2. ~Qry!CacheServes'
      BY <1>1, <3>1 DEF Qry!CacheServes, Qry!Passed
    <3>3. CacheIsRecent'
      BY <1>1, <2>1, <3>1, <3>2 DEF CacheIsRecent
    <3>4. QED
      BY <2>2, <3>1, <3>3 DEF Qry!SnapshotIsCurrent
  <2>5. CASE status = "absence"
    <3>1. cache' = Qry!Nothing(clock) /\ served'.stale = TRUE /\ hollow'
      BY <1>1, <1>2, <2>5
    <3>2. cache'.at = clock /\ cache'.engine = {} /\ cache'.memory = {}
      BY <3>1 DEF Qry!Nothing
    <3>3. CacheIsRecent'
      BY <1>1, <1>4, <3>1, <3>2 DEF CacheIsRecent
    <3>4. QED
      BY <2>2, <3>1, <3>3 DEF Qry!SnapshotIsCurrent
  <2>6. QED
    BY <2>3, <2>4, <2>5
<1>9. QED
  BY <1>1, <1>7, <1>8 DEF PdhInv

\* An instance that comes or goes has done so just now.
LEMMA ChurnKeepsPdh ==
  ASSUME PdhInv, NEW i \in Instances, Qry!Churn(i)
  PROVE  PdhInv'
<1>1. /\ alive' \subseteq alive \union {i} /\ alive \subseteq alive' \union {i}
      /\ held' = [held EXCEPT ![i] = 0] /\ served' = None
      /\ UNCHANGED <<mode, handles, expanded, cache, clock, blind, unread, hollow,
                     setback>>
      /\ UNCHANGED Qry!Missed
  BY DEF Qry!Churn, Qry!Missed
<1>2. PdhTypes'
  BY <1>1 DEF PdhInv, PdhTypes
<1>3. /\ \A j \in Instances : j # i => held'[j] = held[j]
      /\ held'[i] = 0
  BY <1>1 DEF PdhInv, PdhTypes
<1>4. clock \in Nat /\ expanded \in Nat /\ alive \subseteq Instances
      /\ held \in [Instances -> Nat]
  BY PdhConstants DEF PdhInv, PdhTypes
<1>5. ASSUME ~setback
      PROVE  HandlesAreRecent' /\ CacheIsRecent'
  <2>1. HandlesAreRecent /\ CacheIsRecent
    BY <1>5 DEF PdhInv
  <2>2. HandlesAreRecent'
    <3>1. ASSUME NEW j \in alive' \ blind["memory"], mode["memory"] = "Expanded"
          PROVE  j \in handles["memory"] \/ held'[j] <= clock - expanded
      <4>1. CASE j = i
        BY <1>3, <1>4, <2>1, <4>1 DEF HandlesAreRecent
      <4>2. CASE j # i
        BY <1>1, <1>3, <1>4, <2>1, <3>1, <4>2 DEF HandlesAreRecent
      <4>3. QED
        BY <4>1, <4>2
    <3>2. QED
      BY <1>1, <2>1, <3>1 DEF HandlesAreRecent
  <2>3. CacheIsRecent'
    <3>1. ASSUME cache # None
          PROVE  /\ \A j \in cache.engine \union cache.memory :
                      j \in alive' \/ held'[j] <= clock - cache.at
                 /\ Qry!CacheServes /\ ~hollow =>
                      \A j \in alive' \ Qry!Missed :
                        j \in cache.memory
                        \/ held'[j] < REEXPAND_MS + (clock - cache.at)
      <4>1. /\ cache.at \in Nat /\ cache.at <= clock
            /\ cache.engine \union cache.memory \subseteq Instances
        BY <2>1, <3>1, CacheHasParts DEF PdhInv, CacheIsRecent
      <4>2. ASSUME NEW j \in cache.engine \union cache.memory
            PROVE  j \in alive' \/ held'[j] <= clock - cache.at
        <5>1. CASE j = i
          BY <1>3, <1>4, <4>1, <5>1
        <5>2. CASE j # i
          <6>1. j \in alive \/ held[j] <= clock - cache.at
            BY <2>1, <3>1 DEF CacheIsRecent
          <6>2. QED
            BY <1>1, <1>3, <4>1, <5>2, <6>1
        <5>3. QED
          BY <5>1, <5>2
      <4>3. ASSUME Qry!CacheServes, ~hollow, NEW j \in alive' \ Qry!Missed
            PROVE  j \in cache.memory \/ held'[j] < REEXPAND_MS + (clock - cache.at)
        <5>1. CASE j = i
          <6>1. REEXPAND_MS \in Nat \ {0}
            BY EngineAssumption
          <6>2. 0 < REEXPAND_MS + (clock - cache.at)
            BY <1>4, <4>1, <6>1
          <6>3. QED
            BY <1>3, <5>1, <6>2
        <5>2. CASE j # i
          <6>1. j \in alive \ Qry!Missed /\ j \in Instances
            BY <1>1, <1>4, <4>3, <5>2
          <6>2. j \in cache.memory \/ held[j] < REEXPAND_MS + (clock - cache.at)
            BY <2>1, <3>1, <4>3, <6>1 DEF CacheIsRecent
          <6>3. QED
            BY <1>3, <5>2, <6>1, <6>2
        <5>3. QED
          BY <5>1, <5>2
      <4>4. QED
        BY <4>2, <4>3
    <3>2. Qry!CacheServes' <=> Qry!CacheServes
      BY <1>1 DEF Qry!CacheServes, Qry!Passed
    <3>3. QED
      BY <1>1, <2>1, <3>1, <3>2 DEF CacheIsRecent
  <2>4. QED
    BY <2>2, <2>3
<1>6. Qry!SnapshotIsCurrent'
  BY <1>1 DEF Qry!SnapshotIsCurrent
<1>7. QED
  BY <1>1, <1>2, <1>5, <1>6 DEF PdhInv

\* Time passes for the clock and for every instance alike.
LEMMA PassKeepsPdh ==
  ASSUME PdhInv, Qry!Pass
  PROVE  PdhInv'
<1>1. /\ clock < MaxClock /\ clock' = clock + 1 /\ served' = None
      /\ held' = [j \in Instances |-> IF held[j] < Qry!MaxHeld THEN held[j] + 1
                                      ELSE Qry!MaxHeld]
      /\ UNCHANGED <<mode, handles, expanded, cache, alive, blind, unread, hollow,
                     setback>>
      /\ UNCHANGED Qry!Missed
  BY DEF Qry!Pass, Qry!Missed
<1>2. clock \in Nat /\ clock \in 0..MaxClock /\ expanded \in Nat
      /\ alive \subseteq Instances /\ held \in [Instances -> Nat]
  BY PdhConstants DEF PdhInv, PdhTypes
<1>3. \A j \in Instances : held'[j] \in Nat /\ held'[j] <= held[j] + 1
  <2>1. Qry!MaxHeld \in Nat
    BY PdhConstants DEF Qry!MaxHeld
  <2>2. TAKE j \in Instances
  <2>3. held[j] \in Nat
    BY <1>2
  <2>4. held'[j] = IF held[j] < Qry!MaxHeld THEN held[j] + 1 ELSE Qry!MaxHeld
    BY <1>1
  <2>5. QED
    BY <2>1, <2>3, <2>4
<1>4. PdhTypes'
  <2>1. held' \in [Instances -> Nat]
    BY <1>1, <1>3
  <2>2. clock' \in 0..MaxClock
    BY <1>1, <1>2, PdhConstants
  <2>3. QED
    BY <1>1, <2>1, <2>2 DEF PdhInv, PdhTypes
<1>5. ASSUME ~setback
      PROVE  HandlesAreRecent' /\ CacheIsRecent'
  <2>1. HandlesAreRecent /\ CacheIsRecent
    BY <1>5 DEF PdhInv
  <2>2. HandlesAreRecent'
    <3>1. ASSUME NEW j \in alive \ blind["memory"], mode["memory"] = "Expanded"
          PROVE  j \in handles["memory"] \/ held'[j] <= clock' - expanded
      <4>1. j \in Instances /\ held[j] \in Nat /\ held'[j] <= held[j] + 1
            /\ held'[j] \in Nat
        BY <1>2, <1>3
      <4>2. j \in handles["memory"] \/ held[j] <= clock - expanded
        BY <2>1, <3>1 DEF HandlesAreRecent
      <4>3. QED
        BY <1>1, <1>2, <4>1, <4>2
    <3>2. expanded <= clock'
      BY <1>1, <1>2, <2>1 DEF HandlesAreRecent
    <3>3. QED
      BY <1>1, <3>1, <3>2 DEF HandlesAreRecent
  <2>3. CacheIsRecent'
    <3>1. ASSUME cache # None
          PROVE  /\ cache.at <= clock'
                 /\ \A j \in cache.engine \union cache.memory :
                      j \in alive \/ held'[j] <= clock' - cache.at
                 /\ Qry!CacheServes' /\ ~hollow =>
                      \A j \in alive \ Qry!Missed :
                        j \in cache.memory
                        \/ held'[j] < REEXPAND_MS + (clock' - cache.at)
      <4>1. /\ cache.at \in Nat /\ cache.at <= clock
            /\ cache.engine \union cache.memory \subseteq Instances
        BY <2>1, <3>1, CacheHasParts DEF PdhInv, CacheIsRecent
      <4>2. ASSUME NEW j \in cache.engine \union cache.memory, j \notin alive
            PROVE  held'[j] <= clock' - cache.at
        <5>1. j \in Instances /\ held[j] \in Nat /\ held'[j] <= held[j] + 1
              /\ held'[j] \in Nat
          BY <1>2, <1>3, <4>1
        <5>2. held[j] <= clock - cache.at
          BY <2>1, <3>1, <4>2 DEF CacheIsRecent
        <5>3. QED
          BY <1>1, <1>2, <4>1, <5>1, <5>2
      <4>3. ASSUME Qry!CacheServes', ~hollow, NEW j \in alive \ Qry!Missed,
                   j \notin cache.memory
            PROVE  held'[j] < REEXPAND_MS + (clock' - cache.at)
        <5>1. j \in Instances /\ held[j] \in Nat /\ held'[j] <= held[j] + 1
              /\ held'[j] \in Nat
          BY <1>2, <1>3
        <5>2. Qry!CacheServes
          <6>1. cache' = cache /\ clock' \in Nat /\ cache.at <= clock'
            BY <1>1, <1>2, <4>1
          <6>2. Qry!Passed(cache.at) = clock - cache.at
            BY <1>2, <4>1, PassedIsPast
          <6>3. (IF clock' > cache.at THEN clock' - cache.at ELSE 0)
                  < SNAPSHOT_REUSE_MS
            BY <4>3, <6>1 DEF Qry!CacheServes, Qry!Passed
          <6>4. clock - cache.at < SNAPSHOT_REUSE_MS
            BY <1>1, <1>2, <4>1, <6>3, PdhConstants
          <6>5. QED
            BY <3>1, <6>2, <6>4 DEF Qry!CacheServes
        <5>3. held[j] < REEXPAND_MS + (clock - cache.at)
          BY <2>1, <3>1, <4>3, <5>2 DEF CacheIsRecent
        <5>4. QED
          BY <1>1, <1>2, <4>1, <5>1, <5>3, PdhConstants
      <4>4. cache.at <= clock'
        BY <1>1, <1>2, <4>1
      <4>5. QED
        BY <4>2, <4>3, <4>4
    <3>2. QED
      BY <1>1, <3>1 DEF CacheIsRecent
  <2>4. QED
    BY <2>2, <2>3
<1>6. Qry!SnapshotIsCurrent'
  BY <1>1 DEF Qry!SnapshotIsCurrent
<1>7. QED
  BY <1>1, <1>4, <1>5, <1>6 DEF PdhInv

\* Every action on the query keeps the invariant.
LEMMA PdhSteps == PdhInv /\ [Qry!Next]_qryVars => PdhInv'
<1> SUFFICES ASSUME PdhInv, [Qry!Next]_qryVars PROVE PdhInv'
  OBVIOUS
<1>1. CASE UNCHANGED qryVars
  BY <1>1 DEF qryVars, PdhInv, PdhTypes, HandlesAreRecent, CacheIsRecent,
              Qry!CacheServes, Qry!Passed, Qry!SnapshotIsCurrent, Qry!Gone,
              Qry!There, Qry!Missed
<1>2. CASE Qry!Reuse
  BY <1>2, ReuseKeepsPdh
<1>3. ASSUME NEW status \in {"ok", "timeout", "absence", "failure"},
             NEW failed, NEW skip, Qry!Collect(status, failed, skip)
      PROVE  PdhInv'
  BY <1>3, CollectKeepsPdh
<1>4. ASSUME NEW i \in Instances, Qry!Churn(i)
      PROVE  PdhInv'
  BY <1>4, ChurnKeepsPdh
<1>5. CASE Qry!Pass
  BY <1>5, PassKeepsPdh
<1>6. CASE Qry!SetBack
  <2>1. /\ setback' /\ clock' \in REEXPAND_MS..(clock - 1)
        /\ UNCHANGED <<mode, handles, expanded, cache, alive, held, blind, unread, hollow>>
    BY <1>6 DEF Qry!SetBack
  <2>2. clock \in 0..MaxClock
    BY DEF PdhInv, PdhTypes
  <2>3. clock' \in 0..MaxClock
    BY <2>1, <2>2, PdhConstants
  <2>4. QED
    BY <2>1, <2>3 DEF PdhInv, PdhTypes
<1>7. QED
  BY <1>1, <1>2, <1>3, <1>4, <1>5, <1>6 DEF Qry!Next

\* What a backend reads is true: a throttle reading of a moment while it was
\* taken, with a cause only on the word of a bit for it, and a process list of
\* Windows of what is there, as late as the cache and the re-expansion may make
\* it and but for a counter of memory that could not be added or read - for any drivers, limits, instances and bounds of the two (throttle of
\* nvidia.rs, amd.rs and intel.rs; SharedPdh::snapshot).
THEOREM ReadingsAlwaysTrue == Spec2 => []ReadingsAreTrue
<1>1. PdhInv => Qry!SnapshotIsCurrent
  BY DEF PdhInv, Qry!SnapshotIsCurrent
<1>2. Spec2 => []Qry!SnapshotIsCurrent
  BY <1>1, PdhPart, PdhStart, PdhSteps, PTL
<1>3. Spec2 => []Thr!ThrottleIsTrue
  BY ThrottleReadings
<1>4. QED
  BY <1>2, <1>3, PTL DEF ReadingsAreTrue

-----------------------------------------------------------------------------
(* Figures: what is made of a Windows snapshot *)

\* LUIDs are pairs of numbers, names finitely many.
LEMMA FigureConstants ==
  /\ Adapters \subseteq Nat \X Nat
  /\ Printed \subseteq (Nat \X Nat) \union {None} /\ None \notin Nat \X Nat
  /\ None \notin Owners /\ None \notin Engines
  /\ IsFiniteSet(Fig!Names)
  /\ Full \in Nat /\ None \notin Int /\ None \notin Nat
<1>1. Fig!IsFiniteSet(Fig!Names) => IsFiniteSet(Fig!Names)
  BY Zenon DEF Fig!IsFiniteSet, IsFiniteSet
<1>2. QED
  BY <1>1, EngineAssumption DEF Fig!FiguresAssumption

Positive(r) == IF r.value < 0 THEN 0 ELSE r.value

\* The sums of Figures are sums.
LEMMA BusyIsSum ==
  ASSUME NEW rs, IsFiniteSet(rs), NEW v, \A r \in rs : v[r] = r.value
  PROVE  Fig!Sum(rs) = SumOf(rs, v)
<1> DEFINE Iter(g) == g = [s \in SUBSET rs |->
                            IF s = {} THEN 0
                            ELSE (CHOOSE x \in s : TRUE).value
                                 + g[s \ {CHOOSE x \in s : TRUE}]]
<1>1. Fig!Sum(rs) = (CHOOSE g : Iter(g))[rs]
  BY Zenon DEF Fig!Sum, Fig!MapThenSumSet, Fig!MapThenFoldSet
<1>2. \A g : Iter(g) <=> Iterates(rs, v, g)
  <2>1. TAKE g
  <2>2. \A s \in SUBSET rs : s # {} =>
          v[CHOOSE x \in s : TRUE] = (CHOOSE x \in s : TRUE).value
    OBVIOUS
  <2>3. QED
    BY <2>2 DEF Iterates
<1>3. Iterates(rs, v, CHOOSE g : Iter(g))
  <2>1. \E g : Iter(g)
    <3>1. PICK g : Iterates(rs, v, g)
      BY FoldsExist DEF Foldable
    <3>2. Iter(g)
      BY <1>2, <3>1
    <3> HIDE DEF Iter
    <3> QED BY <3>2
  <2>2. Iter(CHOOSE g : Iter(g))
    BY <2>1
  <2> HIDE DEF Iter
  <2>3. QED
    BY <1>2, <2>2
<1>4. Iterates(rs, v, Iterated(rs, v))
  BY SumIterates
<1> HIDE DEF Iter
<1>5. QED
  BY <1>1, <1>3, <1>4, IterationsAgree DEF SumOf

\* adapter_bytes adds what is not negative.
LEMMA BytesAreSum ==
  ASSUME NEW rs, IsFiniteSet(rs), NEW v, \A r \in rs : v[r] = Positive(r)
  PROVE  Fig!Bytes(rs) = SumOf(rs, v)
<1> DEFINE Iter(g) == g = [s \in SUBSET rs |->
                            IF s = {} THEN 0
                            ELSE (IF (CHOOSE x \in s : TRUE).value < 0 THEN 0
                                  ELSE (CHOOSE x \in s : TRUE).value)
                                 + g[s \ {CHOOSE x \in s : TRUE}]]
<1>1. Fig!Bytes(rs) = (CHOOSE g : Iter(g))[rs]
  BY Zenon DEF Fig!Bytes, Fig!MapThenSumSet, Fig!MapThenFoldSet
<1>2. \A g : Iter(g) <=> Iterates(rs, v, g)
  <2>1. TAKE g
  <2>2. \A s \in SUBSET rs : s # {} =>
          v[CHOOSE x \in s : TRUE]
            = IF (CHOOSE x \in s : TRUE).value < 0 THEN 0 ELSE (CHOOSE x \in s : TRUE).value
    BY DEF Positive
  <2>3. QED
    BY <2>2 DEF Iterates
<1>3. Iterates(rs, v, CHOOSE g : Iter(g))
  <2>1. \E g : Iter(g)
    <3>1. PICK g : Iterates(rs, v, g)
      BY FoldsExist DEF Foldable
    <3>2. Iter(g)
      BY <1>2, <3>1
    <3> HIDE DEF Iter
    <3> QED BY <3>2
  <2>2. Iter(CHOOSE g : Iter(g))
    BY <2>1
  <2> HIDE DEF Iter
  <2>3. QED
    BY <1>2, <2>2
<1>4. Iterates(rs, v, Iterated(rs, v))
  BY SumIterates
<1> HIDE DEF Iter
<1>5. QED
  BY <1>1, <1>3, <1>4, IterationsAgree DEF SumOf

\* So it is never negative.
LEMMA BytesAreNatural ==
  ASSUME NEW rs, IsFiniteSet(rs), \A r \in rs : r.value \in Int
  PROVE  Fig!Bytes(rs) \in Nat
<1> DEFINE v == [r \in rs |-> Positive(r)]
<1>1. \A r \in rs : v[r] = Positive(r) /\ v[r] \in Nat
  BY DEF Positive
<1> HIDE DEF v
<1>2. QED
  BY <1>1, BytesAreSum, SumIsNatural

\* A sum of busy times is no less than any of them.
LEMMA BusyIsNatural ==
  ASSUME NEW rs, IsFiniteSet(rs), \A r \in rs : r.value \in Nat
  PROVE  Fig!Sum(rs) \in Nat /\ \A r \in rs : r.value <= Fig!Sum(rs)
<1> DEFINE v == [r \in rs |-> r.value]
<1>1. \A r \in rs : v[r] = r.value /\ v[r] \in Nat
  OBVIOUS
<1> HIDE DEF v
<1>2. QED
  BY <1>1, BusyIsSum, SumIsNatural

\* A number of a set that none of it exceeds is its maximum, and a nonempty set
\* of naturals below a bound has one.
LEMMA FigMaxIs ==
  ASSUME NEW S \in SUBSET Nat, S # {}, NEW b \in Nat, \A x \in S : x <= b
  PROVE  Fig!Max(S) \in S /\ \A x \in S : x <= Fig!Max(S)
<1>1. Prb!Max(S) \in S /\ \A x \in S : x <= Prb!Max(S)
  BY MaxIsGreatest
<1>2. \E m \in S : \A x \in S : m >= x
  BY <1>1
<1>3. Fig!Max(S) \in S /\ \A x \in S : Fig!Max(S) >= x
  BY <1>2 DEF Fig!Max
<1>4. QED
  BY <1>3

Reading(r) ==
  /\ r.luid \in Printed /\ r.value \in Int
  /\ \/ r.stream = "engine" /\ r.value \in Nat /\ r.pid \in Owners /\ r.engine \in Engines
     \/ r.stream = "dedicated" /\ r.pid \in Owners
     \/ r.stream = "adapter" /\ r.pid = None

OneOfEach ==
  \A r, s \in readings :
    (r.stream = s.stream /\ r.pid = s.pid /\ r.luid = s.luid /\ r.engine = s.engine) => r = s

BusyOf(a, e) == {r \in Fig!Of("engine", a) : r.engine = e}

ReadingsInv ==
  /\ IsFiniteSet(readings) /\ \A r \in readings : Reading(r)
  /\ OneOfEach
  /\ \A a \in Adapters, e \in Engines : Fig!Sum(BusyOf(a, e)) <= Full

FiguresInv == ReadingsInv /\ (figures # None => Fig!FiguresAgree /\ Fig!TypeOK)

\* A snapshot has at most one value of an instance.
LEMMA SnapshotsAreReadings ==
  ASSUME NEW rs \in Fig!Snapshots
  PROVE  /\ IsFiniteSet(rs) /\ \A r \in rs : Reading(r)
         /\ \A r, s \in rs : (r.stream = s.stream /\ r.pid = s.pid /\ r.luid = s.luid
                              /\ r.engine = s.engine) => r = s
<1>0. PICK ns \in SUBSET Fig!Names :
        rs \in {{Fig!Valued(n, g[n]) : n \in ns} :
                 g \in {h \in [ns -> {-1, 1, Full}] : \A n \in ns : h[n] \in Fig!Values(n)}}
  BY DEF Fig!Snapshots, Fig!kSubset
<1>1. PICK f \in [ns -> {-1, 1, Full}] :
        /\ \A n \in ns : f[n] \in Fig!Values(n)
        /\ rs = {Fig!Valued(n, f[n]) : n \in ns}
  BY <1>0
<1>2. IsFiniteSet(ns)
  BY FigureConstants, FS_Subset
<1>3. IsFiniteSet(rs)
  <2> DEFINE h == [n \in ns |-> Fig!Valued(n, f[n])]
  <2>1. h \in Surjection(ns, rs)
    BY <1>1 DEF Surjection
  <2>2. QED
    BY <1>2, <2>1, FS_Surjection
<1>4. \A n \in ns : /\ n = [stream |-> n.stream, pid |-> n.pid, luid |-> n.luid,
                             engine |-> n.engine]
                    /\ n.luid \in Printed
                    /\ \/ n.stream = "engine" /\ n.pid \in Owners /\ n.engine \in Engines
                       \/ n.stream = "dedicated" /\ n.pid \in Owners
                       \/ n.stream = "adapter" /\ n.pid = None
  BY DEF Fig!Names
<1>5. ASSUME NEW r \in rs
      PROVE  Reading(r)
  <2>1. PICK n \in ns : r = Fig!Valued(n, f[n])
    BY <1>1
  <2>2. /\ r.stream = n.stream /\ r.pid = n.pid /\ r.luid = n.luid /\ r.engine = n.engine
        /\ r.value = f[n]
    BY <2>1 DEF Fig!Valued
  <2>3. f[n] \in Int /\ (n.stream = "engine" => f[n] \in Nat)
    <3>1. f[n] \in Fig!Values(n) /\ Full \in Nat
      BY <1>1, FigureConstants
    <3>2. QED
      BY <3>1 DEF Fig!Values
  <2>4. QED
    BY <1>4, <2>2, <2>3 DEF Reading
<1>6. ASSUME NEW r \in rs, NEW s \in rs, r.stream = s.stream, r.pid = s.pid,
             r.luid = s.luid, r.engine = s.engine
      PROVE  r = s
  <2>1. PICK n \in ns : r = Fig!Valued(n, f[n])
    BY <1>1
  <2>2. PICK m \in ns : s = Fig!Valued(m, f[m])
    BY <1>1
  <2>3. /\ n.stream = m.stream /\ n.pid = m.pid /\ n.luid = m.luid /\ n.engine = m.engine
    BY <1>6, <2>1, <2>2 DEF Fig!Valued
  <2>4. n = m
    BY <1>4, <2>3
  <2>5. QED
    BY <2>1, <2>2, <2>4
<1>7. QED
  BY <1>3, <1>5, <1>6

\* No figure is shown at first.
LEMMA FiguresStart == Fig!Init => FiguresInv
<1> SUFFICES ASSUME Fig!Init PROVE FiguresInv
  OBVIOUS
<1>1. readings \in Fig!Snapshots /\ figures = None
      /\ \A a \in Adapters, e \in Engines : Fig!Sum(BusyOf(a, e)) <= Full
  BY DEF Fig!Init, BusyOf
<1>2. QED
  BY <1>1, SnapshotsAreReadings DEF FiguresInv, ReadingsInv, OneOfEach

-----------------------------------------------------------------------------
\* A LUID matches whichever way round it was printed.
LEMMA NamingIsMatching ==
  ASSUME ReadingsInv, NEW a \in Adapters, NEW r \in readings
  PROVE  r \in Fig!Naming(a) <=> Fig!Matches(r.luid, a)
<1>1. PICK h \in Nat, l \in Nat : a = <<h, l>>
  BY FigureConstants
<1>2. r.luid \in Printed
  BY DEF ReadingsInv, Reading
<1>3. CASE r.luid = None
  <2>1. None # <<h, l>> /\ None # <<l, h>>
    BY FigureConstants
  <2>2. QED
    BY <1>1, <1>3, <2>1 DEF Fig!Naming, Fig!Matches
<1>4. CASE r.luid # None
  <2>1. PICK x \in Nat, y \in Nat : r.luid = <<x, y>>
    BY <1>2, <1>4, FigureConstants
  <2>2. {x, y} = {h, l} <=> <<x, y>> \in {<<h, l>>, <<l, h>>}
    OBVIOUS
  <2>3. QED
    BY <1>1, <1>4, <2>1, <2>2 DEF Fig!Naming, Fig!Matches
<1>5. QED
  BY <1>3, <1>4

\* The readings that name an adapter, stream by stream.
LEMMA MineAreOf ==
  ASSUME ReadingsInv, NEW a \in Adapters
  PROVE  \A stream : Fig!Of(stream, a) = {r \in Fig!Naming(a) : r.stream = stream}
BY NamingIsMatching DEF Fig!Of, Fig!Naming

\* The times of an adapter's engines.
LEMMA BusyEngines ==
  ASSUME ReadingsInv, NEW a \in Adapters
  PROVE  /\ DOMAIN Fig!engine_busy(a) \subseteq Engines
         /\ DOMAIN Fig!engine_busy(a) = {r.engine : r \in Fig!Of("engine", a)}
         /\ \A e \in DOMAIN Fig!engine_busy(a) :
              Fig!engine_busy(a)[e] \in Nat /\ Fig!engine_busy(a)[e] <= Full
         /\ \A r \in Fig!Of("engine", a) :
              r.value \in Nat /\ r.value <= Fig!engine_busy(a)[r.engine]
<1> DEFINE busy == Fig!engine_busy(a)
<1>1. \A r \in Fig!Of("engine", a) :
        r \in readings /\ r.value \in Nat /\ r.engine \in Engines
  BY DEF Fig!Of, ReadingsInv, Reading
<1>2. /\ DOMAIN busy = {r.engine : r \in Fig!Of("engine", a)}
      /\ \A e \in DOMAIN busy : busy[e] = Fig!Sum(BusyOf(a, e))
  BY DEF Fig!engine_busy, BusyOf
<1>3. \A e : IsFiniteSet(BusyOf(a, e)) /\ \A r \in BusyOf(a, e) : r.value \in Nat
  BY <1>1, FS_Subset DEF BusyOf, Fig!Of, ReadingsInv
<1>4. \A e : /\ Fig!Sum(BusyOf(a, e)) \in Nat
             /\ \A r \in BusyOf(a, e) : r.value <= Fig!Sum(BusyOf(a, e))
  BY <1>3, BusyIsNatural
<1> HIDE DEF busy
<1>5. \A e \in DOMAIN busy : e \in Engines /\ busy[e] \in Nat /\ busy[e] <= Full
  BY <1>1, <1>2, <1>4 DEF ReadingsInv
<1>6. \A r \in Fig!Of("engine", a) : r.value <= busy[r.engine]
  BY <1>2, <1>4 DEF BusyOf
<1>7. QED
  BY <1>1, <1>2, <1>5, <1>6 DEF busy

\* The headline, and the figures below it.
LEMMA HeadlineIsGreatest ==
  ASSUME ReadingsInv, NEW a \in Adapters
  PROVE  /\ Fig!device_util(a) \subseteq DOMAIN Fig!engine_busy(a)
         /\ \A e \in Fig!device_util(a) : \A o \in DOMAIN Fig!engine_busy(a) :
              Fig!engine_busy(a)[o] <= Fig!engine_busy(a)[e]
         /\ Fig!device_util(a) = {} <=> Fig!Of("engine", a) = {}
<1> DEFINE busy == Fig!engine_busy(a)
           E == DOMAIN busy
           times == {busy[e] : e \in E}
<1>1. /\ E = {r.engine : r \in Fig!Of("engine", a)}
      /\ \A e \in E : busy[e] \in Nat /\ busy[e] <= Full
  BY BusyEngines
<1>2. Fig!device_util(a) = {e \in E : \A o \in E : busy[o] <= busy[e]}
  BY DEF Fig!device_util
<1>3. E # {} => Fig!device_util(a) # {}
  <2>1. SUFFICES ASSUME E # {} PROVE Fig!device_util(a) # {}
    OBVIOUS
  <2>2. times \in SUBSET Nat /\ times # {} /\ \A x \in times : x <= Full
    BY <1>1, <2>1
  <2>3. PICK m \in times : \A x \in times : x <= m
    <3> HIDE DEF times
    <3>1. Fig!Max(times) \in times /\ \A x \in times : x <= Fig!Max(times)
      BY <2>2, FigMaxIs, FigureConstants
    <3> QED BY <3>1
  <2>4. PICK e \in E : m = busy[e]
    OBVIOUS
  <2>5. QED
    BY <1>2, <2>3, <2>4
<1> HIDE DEF busy
<1>4. E = {} <=> Fig!Of("engine", a) = {}
  BY <1>1
<1>5. QED
  BY <1>2, <1>3, <1>4 DEF busy

\* What a process is shown to use is no more than some engine is busy.
LEMMA ProcessIsBelow ==
  ASSUME ReadingsInv, NEW a \in Adapters, NEW p \in DOMAIN Fig!per_pid_util(a)
  PROVE  /\ Fig!per_pid_util(a)[p].pct \in Nat
         /\ \E e \in DOMAIN Fig!engine_busy(a) :
              Fig!per_pid_util(a)[p].pct <= Fig!engine_busy(a)[e]
<1> DEFINE his == {r \in Fig!Of("engine", a) : r.pid = p}
           values == {r.value : r \in his}
           busy == Fig!engine_busy(a)
<1>1. his # {} /\ Fig!per_pid_util(a)[p].pct = Fig!Max(values)
  BY DEF Fig!per_pid_util
<1>2. /\ DOMAIN busy = {r.engine : r \in Fig!Of("engine", a)}
      /\ \A e \in DOMAIN busy : busy[e] \in Nat /\ busy[e] <= Full
      /\ \A r \in Fig!Of("engine", a) : r.value \in Nat /\ r.value <= busy[r.engine]
  BY BusyEngines
<1> HIDE DEF busy
<1>3. \A r \in his : /\ r.engine \in DOMAIN busy /\ r.value \in Nat
                     /\ r.value <= busy[r.engine] /\ r.value <= Full
  <2>1. SUFFICES ASSUME NEW r \in his
                 PROVE  /\ r.engine \in DOMAIN busy /\ r.value \in Nat
                        /\ r.value <= busy[r.engine] /\ r.value <= Full
    OBVIOUS
  <2>2. /\ r.engine \in DOMAIN busy /\ r.value \in Nat /\ r.value <= busy[r.engine]
    BY <1>2
  <2>3. busy[r.engine] \in Nat /\ busy[r.engine] <= Full /\ Full \in Nat
    BY <1>2, <2>2, FigureConstants
  <2>4. QED
    BY <2>2, <2>3
<1>4. values \in SUBSET Nat /\ values # {} /\ \A x \in values : x <= Full
  BY <1>1, <1>3
<1>5. Fig!Max(values) \in values
  <2> HIDE DEF values
  <2> QED BY <1>4, FigMaxIs, FigureConstants
<1>6. PICK r \in his : Fig!Max(values) = r.value
  BY <1>5
<1>7. QED
  BY <1>1, <1>3, <1>6 DEF busy

\* Nor is what a kind of engine is.
LEMMA KindIsBelow ==
  ASSUME ReadingsInv, NEW a \in Adapters, NEW t, Fig!engtype_util(a, t) # None
  PROVE  /\ Fig!engtype_util(a, t) \in Nat
         /\ \E e \in DOMAIN Fig!engine_busy(a) :
              Fig!engtype_util(a, t) <= Fig!engine_busy(a)[e]
<1> DEFINE busy == Fig!engine_busy(a)
           S == {busy[e] : e \in {o \in DOMAIN busy : o.engtype = t}}
<1>1. Fig!engtype_util(a, t) = IF S = {} THEN None ELSE Fig!Max(S)
  BY DEF Fig!engtype_util, Fig!Greatest
<1>2. \A e \in DOMAIN busy : busy[e] \in Nat /\ busy[e] <= Full
  BY BusyEngines
<1> HIDE DEF busy
<1>3. S \in SUBSET Nat /\ S # {} /\ \A x \in S : x <= Full
  BY <1>1, <1>2
<1>4. Fig!Max(S) \in S
  <2> HIDE DEF S
  <2> QED BY <1>3, FigMaxIs, FigureConstants
<1>5. PICK e \in DOMAIN busy : Fig!Max(S) = busy[e]
  BY <1>4
<1>6. Fig!engtype_util(a, t) = busy[e] /\ busy[e] \in Nat /\ busy[e] <= busy[e]
  BY <1>1, <1>2, <1>3, <1>5
<1>7. QED
  BY <1>6 DEF busy

\* What the counters say of a process.
LEMMA CountedIs ==
  ASSUME ReadingsInv, NEW a \in Adapters, NEW p
  PROVE  /\ Fig!Counted(a, p).mem \in Figure
         /\ Fig!Counted(a, p).mem = None
              <=> \A r \in Fig!Naming(a) : r.pid = p => r.stream # "dedicated"
         /\ Fig!Counted(a, p).util \in Figure
         /\ Fig!Counted(a, p).util # None
              => \E e \in DOMAIN Fig!engine_busy(a) :
                   Fig!Counted(a, p).util <= Fig!engine_busy(a)[e]
<1> DEFINE util == Fig!per_pid_util(a)
           mem == Fig!per_pid_bytes(a)
<1>1. /\ Fig!Counted(a, p).mem = IF p \in DOMAIN mem THEN mem[p] ELSE None
      /\ Fig!Counted(a, p).util = IF p \in DOMAIN util THEN util[p].pct ELSE None
  BY DEF Fig!Counted
<1>2. DOMAIN mem = {r.pid : r \in Fig!Of("dedicated", a)}
  BY DEF Fig!per_pid_bytes
<1>3. p \in DOMAIN mem => mem[p] \in Nat
  <2> DEFINE his == {r \in Fig!Of("dedicated", a) : r.pid = p}
  <2>1. IsFiniteSet(his) /\ \A r \in his : r.value \in Int
    BY FS_Subset DEF Fig!Of, ReadingsInv, Reading
  <2>2. p \in DOMAIN mem => mem[p] = Fig!Bytes(his)
    BY DEF Fig!per_pid_bytes
  <2> HIDE DEF his, mem
  <2>3. QED
    BY <2>1, <2>2, BytesAreNatural
<1>4. p \in DOMAIN util => util[p].pct \in Nat
                           /\ \E e \in DOMAIN Fig!engine_busy(a) :
                                util[p].pct <= Fig!engine_busy(a)[e]
  BY ProcessIsBelow
<1>5. p \in DOMAIN mem <=> \E r \in Fig!Naming(a) : r.pid = p /\ r.stream = "dedicated"
  BY <1>2, MineAreOf
<1> HIDE DEF util, mem
<1>6. QED
  BY <1>1, <1>3, <1>4, <1>5, FigureConstants DEF Figure

\* The processes counted are those a reading names.
LEMMA CountedPidsAre ==
  ASSUME ReadingsInv, NEW a \in Adapters
  PROVE  Fig!CountedPids(a) = {r.pid : r \in {q \in Fig!Naming(a) : q.pid # None}}
<1>1. Fig!CountedPids(a) = {r.pid : r \in Fig!Of("engine", a)}
                             \union {r.pid : r \in Fig!Of("dedicated", a)}
  BY DEF Fig!CountedPids, Fig!per_pid_util, Fig!per_pid_bytes
<1>2. \A r \in Fig!Naming(a) :
        r.pid # None <=> r.stream = "engine" \/ r.stream = "dedicated"
  BY FigureConstants DEF Fig!Naming, ReadingsInv, Reading
<1>3. QED
  BY <1>1, <1>2, MineAreOf

\* Bytes of an adapter are a figure, absent if no reading has them.
LEMMA AdapterIs ==
  ASSUME ReadingsInv, NEW a \in Adapters
  PROVE  /\ Fig!adapter_bytes(a) \in Figure
         /\ Fig!adapter_bytes(a) = None <=> \A r \in Fig!Naming(a) : r.stream # "adapter"
<1>1. /\ IsFiniteSet(Fig!Of("adapter", a))
      /\ \A r \in Fig!Of("adapter", a) : r.value \in Int
  BY FS_Subset DEF Fig!Of, ReadingsInv, Reading
<1>2. Fig!Bytes(Fig!Of("adapter", a)) \in Nat
  BY <1>1, BytesAreNatural
<1>3. Fig!Of("adapter", a) = {} <=> \A r \in Fig!Naming(a) : r.stream # "adapter"
  BY MineAreOf
<1>4. QED
  BY <1>2, <1>3, FigureConstants DEF Fig!adapter_bytes, Figure

\* A refresh of the Windows backend keeps the figures in agreement.
LEMMA WddmAgrees ==
  ASSUME FiguresInv, NEW a \in Adapters, Fig!RefreshWddm(a)
  PROVE  FiguresInv'
<1> DEFINE busy == Fig!engine_busy(a)
<1>0. ReadingsInv
  BY DEF FiguresInv
<1>1. PICK headline \in Fig!device_util(a) \union {e \in {None} : Fig!device_util(a) = {}} :
        figures' = [dev |-> a, by |-> "wddm",
                    util |-> IF headline = None THEN None ELSE busy[headline],
                    util_engine |-> IF headline = None THEN None ELSE headline.engtype,
                    encoder |-> Fig!engtype_util(a, "VideoEncode"),
                    used |-> Fig!adapter_bytes(a),
                    table |-> [p \in Fig!CountedPids(a) |-> Fig!Counted(a, p)]]
  BY DEF Fig!RefreshWddm
<1>2. UNCHANGED <<readings, compute, graphics, hidden>>
  BY DEF Fig!RefreshWddm
<1>3. ReadingsInv'
  BY <1>0, <1>2 DEF ReadingsInv, OneOfEach, BusyOf, Fig!Of
<1> DEFINE fig == [dev |-> a, by |-> "wddm",
                    util |-> IF headline = None THEN None ELSE busy[headline],
                    util_engine |-> IF headline = None THEN None ELSE headline.engtype,
                    encoder |-> Fig!engtype_util(a, "VideoEncode"),
                    used |-> Fig!adapter_bytes(a),
                    table |-> [p \in Fig!CountedPids(a) |-> Fig!Counted(a, p)]]
           own == Fig!Naming(a)
<1>4. /\ fig.dev = a /\ fig.by = "wddm" /\ fig.used = Fig!adapter_bytes(a)
      /\ fig.util = (IF headline = None THEN None ELSE busy[headline])
      /\ fig.encoder = Fig!engtype_util(a, "VideoEncode")
      /\ DOMAIN fig.table = Fig!CountedPids(a)
      /\ \A p \in DOMAIN fig.table : fig.table[p] = Fig!Counted(a, p)
  OBVIOUS
<1> HIDE DEF fig, own, busy
<1>5. /\ \A e \in DOMAIN busy : e \in Engines /\ busy[e] \in Nat /\ busy[e] <= Full
      /\ Fig!device_util(a) \subseteq DOMAIN busy
      /\ \A e \in Fig!device_util(a) : \A o \in DOMAIN busy : busy[o] <= busy[e]
      /\ Fig!device_util(a) = {} <=> Fig!Of("engine", a) = {}
  <2>1. \A e \in DOMAIN busy : e \in Engines /\ busy[e] \in Nat /\ busy[e] <= Full
    BY <1>0, BusyEngines DEF busy
  <2> QED BY <1>0, <2>1, HeadlineIsGreatest DEF busy
<1>6. /\ headline = None <=> Fig!device_util(a) = {}
      /\ headline # None => headline \in Fig!device_util(a)
  BY <1>5, FigureConstants
<1>7. /\ fig.util \in Figure
      /\ fig.util # None => fig.util <= Full
      /\ fig.util = None <=> \A r \in own : r.stream # "engine"
  <2>1. Fig!Of("engine", a) = {} <=> \A r \in own : r.stream # "engine"
    BY <1>0, MineAreOf DEF own
  <2>2. headline # None => busy[headline] \in Nat /\ busy[headline] <= Full
    BY <1>5, <1>6
  <2> QED BY <1>4, <1>5, <1>6, <2>1, <2>2, FigureConstants DEF Figure
<1>8. ASSUME NEW x \in Nat, NEW e \in DOMAIN busy, x <= busy[e]
      PROVE  fig.util # None /\ x <= fig.util
  <2>1. headline # None /\ headline \in Fig!device_util(a)
    BY <1>5, <1>6, HeadlineIsGreatest, <1>0, BusyEngines DEF busy
  <2>2. busy[e] <= busy[headline] /\ busy[headline] \in Nat /\ busy[e] \in Nat
    BY <1>5, <2>1
  <2>3. fig.util = busy[headline]
    BY <1>4, <2>1
  <2>4. x <= busy[headline]
    BY <1>8, <2>2
  <2>5. QED
    BY <2>2, <2>3, <2>4, FigureConstants
<1>9. \A p \in DOMAIN fig.table :
        /\ fig.table[p].util # None => fig.util # None /\ fig.table[p].util <= fig.util
        /\ fig.table[p].util \in Figure /\ fig.table[p].mem \in Figure
        /\ fig.table[p].mem = None <=> \A r \in own : r.pid = p => r.stream # "dedicated"
  <2> SUFFICES ASSUME NEW p \in DOMAIN fig.table
               PROVE
        /\ fig.table[p].util # None => fig.util # None /\ fig.table[p].util <= fig.util
        /\ fig.table[p].util \in Figure /\ fig.table[p].mem \in Figure
        /\ fig.table[p].mem = None <=> \A r \in own : r.pid = p => r.stream # "dedicated"
    OBVIOUS
  <2>1. fig.table[p] = Fig!Counted(a, p)
    BY <1>4
  <2>2. /\ Fig!Counted(a, p).mem \in Figure /\ Fig!Counted(a, p).util \in Figure
        /\ Fig!Counted(a, p).mem = None
             <=> \A r \in own : r.pid = p => r.stream # "dedicated"
        /\ Fig!Counted(a, p).util # None
             => \E e \in DOMAIN busy : Fig!Counted(a, p).util <= busy[e]
    BY <1>0, CountedIs DEF own, busy
  <2>3. Fig!Counted(a, p).util # None =>
          fig.util # None /\ Fig!Counted(a, p).util <= fig.util
    BY <1>8, <2>2 DEF Figure
  <2>4. QED
    BY <2>1, <2>2, <2>3
<1>10. /\ fig.encoder # None => fig.util # None /\ fig.encoder <= fig.util
       /\ fig.encoder \in Figure
  <2>1. fig.encoder # None =>
          fig.encoder \in Nat /\ \E e \in DOMAIN busy : fig.encoder <= busy[e]
    BY <1>0, <1>4, KindIsBelow DEF busy
  <2>2. QED
    BY <1>8, <2>1 DEF Figure
<1>11. /\ fig.used \in Figure
       /\ fig.used = None <=> \A r \in own : r.stream # "adapter"
  BY <1>0, <1>4, AdapterIs DEF own
<1>12. DOMAIN fig.table = {r.pid : r \in {q \in own : q.pid # None}}
  BY <1>0, <1>4, CountedPidsAre DEF own
<1>13. figures' = fig /\ Fig!Naming(a)' = own
  BY <1>1, <1>2 DEF fig, own, Fig!Naming
<1>14. Fig!FiguresAgree'
  <2> DEFINE nvml == {}
  <2>1. {} \union {r.pid : r \in {q \in own : q.pid # None}}
          = {r.pid : r \in {q \in own : q.pid # None}}
    OBVIOUS
  <2>2. fig.by # "nvidia" /\ DOMAIN fig.table \ {} = DOMAIN fig.table
    BY <1>4
  <2>3. Fig!Naming(figures.dev)' = own
    BY <1>4, <1>13, <1>2 DEF Fig!Naming, own
  <2>4. QED
    BY <1>4, <1>7, <1>9, <1>10, <1>11, <1>12, <1>13, <2>1, <2>2, <2>3 DEF Fig!FiguresAgree
<1>15. Fig!TypeOK'
  BY <1>2, <1>3, <1>7, <1>9, <1>10, <1>11, <1>13
     DEF Fig!TypeOK, Fig!Figure, Figure, ReadingsInv, OneOfEach
<1>16. QED
  BY <1>3, <1>14, <1>15 DEF FiguresInv

\* So does the join of NVML with the snapshot.
LEMMA NvidiaAgrees ==
  ASSUME FiguresInv, NEW a \in Adapters, Fig!RefreshNvidia(a)
  PROVE  FiguresInv'
<1>0. ReadingsInv
  BY DEF FiguresInv
<1> DEFINE nvml == compute \union graphics
           fig == [dev |-> a, by |-> "nvidia", util |-> None, util_engine |-> None,
                   encoder |-> None, used |-> None,
                   table |-> [p \in compute \union graphics \union Fig!CountedPids(a) |->
                                IF p \in compute \union graphics THEN Fig!Listed(a, p)
                                ELSE Fig!Counted(a, p)]]
           own == Fig!Naming(a)
<1>1. figures' = fig /\ UNCHANGED <<readings, compute, graphics, hidden>>
  BY DEF Fig!RefreshNvidia
<1>2. ReadingsInv'
  BY <1>0, <1>1 DEF ReadingsInv, OneOfEach, BusyOf, Fig!Of
<1>3. /\ fig.dev = a /\ fig.by = "nvidia" /\ fig.util = None /\ fig.encoder = None
      /\ fig.used = None /\ DOMAIN fig.table = nvml \union Fig!CountedPids(a)
      /\ \A p \in DOMAIN fig.table :
           fig.table[p] = IF p \in nvml THEN Fig!Listed(a, p) ELSE Fig!Counted(a, p)
  OBVIOUS
<1> HIDE DEF fig, own
<1>4. \A p : /\ Fig!Counted(a, p).mem \in Figure /\ Fig!Counted(a, p).util \in Figure
             /\ Fig!Counted(a, p).mem = None
                  <=> \A r \in own : r.pid = p => r.stream # "dedicated"
  BY <1>0, CountedIs DEF own
<1>5. \A p : /\ Fig!Listed(a, p).util = Fig!Counted(a, p).util
             /\ Fig!Listed(a, p).mem \in {Fig!Counted(a, p).mem, Full}
  BY DEF Fig!Listed, Fig!Counted
<1>6. \A p \in DOMAIN fig.table : fig.table[p].util \in Figure /\ fig.table[p].mem \in Figure
  <2>1. Full \in Figure
    BY FigureConstants DEF Figure
  <2> QED BY <1>3, <1>4, <1>5, <2>1
<1>7. \A p \in DOMAIN fig.table \ nvml :
        fig.table[p].mem = None <=> \A r \in own : r.pid = p => r.stream # "dedicated"
  BY <1>3, <1>4
<1>8. DOMAIN fig.table = nvml \union {r.pid : r \in {q \in own : q.pid # None}}
  BY <1>0, <1>3, CountedPidsAre DEF own
<1>9. Fig!Naming(figures.dev)' = own
  BY <1>1, <1>3 DEF Fig!Naming, own
<1>10. Fig!FiguresAgree'
  <2>1. fig.by # "wddm"
    BY <1>3
  <2>2. compute' \union graphics' = nvml
    BY <1>1
  <2>3. QED
    BY <1>1, <1>3, <1>7, <1>8, <1>9, <2>1, <2>2 DEF Fig!FiguresAgree
<1>11. Fig!TypeOK'
  BY <1>1, <1>2, <1>3, <1>6 DEF Fig!TypeOK, Fig!Figure, Figure, ReadingsInv, OneOfEach
<1>12. QED
  BY <1>2, <1>10, <1>11 DEF FiguresInv

\* Both refreshes keep the invariant.
LEMMA FiguresSteps == FiguresInv /\ [Fig!Next]_figVars => FiguresInv'
<1> SUFFICES ASSUME FiguresInv, [Fig!Next]_figVars PROVE FiguresInv'
  OBVIOUS
<1>1. CASE UNCHANGED figVars
  <2>1. ReadingsInv'
    BY <1>1 DEF figVars, FiguresInv, ReadingsInv, OneOfEach, BusyOf, Fig!Of
  <2>2. figures' # None => (Fig!FiguresAgree /\ Fig!TypeOK)'
    <3>0. /\ readings' = readings /\ figures' = figures
          /\ compute' = compute /\ graphics' = graphics
      BY <1>1 DEF figVars
    <3>1. Fig!TypeOK => Fig!TypeOK'
      BY <3>0 DEF Fig!TypeOK
    <3>2. Fig!Naming(figures.dev)' = Fig!Naming(figures.dev)
      BY <3>0 DEF Fig!Naming
    <3>3. Fig!FiguresAgree => Fig!FiguresAgree'
      BY <3>0, <3>2 DEF Fig!FiguresAgree
    <3> QED BY <3>0, <3>1, <3>3 DEF FiguresInv
  <2> QED BY <2>1, <2>2 DEF FiguresInv
<1>2. ASSUME NEW a \in Adapters, Fig!RefreshWddm(a)
      PROVE  FiguresInv'
  BY <1>2, WddmAgrees
<1>3. ASSUME NEW a \in Adapters, Fig!RefreshNvidia(a)
      PROVE  FiguresInv'
  BY <1>3, NvidiaAgrees
<1>4. QED
  BY <1>1, <1>2, <1>3 DEF Fig!Next

\* The invariant is stronger than the property.
LEMMA FiguresShow == FiguresInv => Fig!FiguresAgree /\ Fig!TypeOK
BY DEF FiguresInv, ReadingsInv, OneOfEach, Fig!FiguresAgree, Fig!TypeOK

\* A part that does not move reads nothing.
LEMMA NoFigures ==
  ASSUME readings = {}, figures = None
  PROVE  FiguresInv
<1>1. IsFiniteSet({}) /\ \A a, e : BusyOf(a, e) = {}
  BY FS_EmptySet DEF BusyOf, Fig!Of
<1>2. Fig!Sum({}) = 0
  <2> DEFINE v == [x \in {} |-> x]
  <2>1. \A r \in {} : v[r] = r.value
    OBVIOUS
  <2> HIDE DEF v
  <2>2. Fig!Sum({}) = SumOf({}, v)
    BY <1>1, <2>1, BusyIsSum
  <2>3. QED
    BY <2>2, SumOfNone
<1>3. 0 <= Full
  BY FigureConstants
<1>4. QED
  BY <1>1, <1>2, <1>3 DEF FiguresInv, ReadingsInv, OneOfEach

\* The figures move by the two refreshes alone.
LEMMA FiguresPart == Spec2 => FiguresInv /\ [][Fig!Next]_figVars
<1>1. Init2 => FiguresInv
  BY NoFigures, FiguresStart DEF Init2
<1>2. [Next2]_<<setting, vars, outVars, regVars, prbVars, thrVars,
               qryVars, figVars, socVars, mckVars, rowVars, dmoVars>>
        => [Fig!Next]_figVars
  BY DEF Next2
<1>3. QED
  BY <1>1, <1>2, PTL DEF Spec2

\* The figures agree in every behaviour of the parts.
LEMMA FiguresHold == Spec2 => [](Fig!FiguresAgree /\ Fig!TypeOK)
BY FiguresPart, FiguresSteps, FiguresShow, PTL

-----------------------------------------------------------------------------
(* Soc: what is made of an Apple chip's counters *)

\* Ticks, energies and intervals are counts.
LEMMA SocConstants ==
  /\ \A n \in Inventories : DOMAIN n = 1..Len(n) /\ Len(n) \in Nat
  /\ Clocks \subseteq Soc!Tellable
  /\ Ticks \subseteq Nat /\ Draws \subseteq Nat /\ Intervals \subseteq Nat
  /\ None \notin Nat /\ None \notin Soc!Share
<1>1. Soc!SocAssumption
  BY EngineAssumption
<1>2. \A n \in Inventories : DOMAIN n = 1..Len(n) /\ Len(n) \in Nat
  BY <1>1 DEF Soc!SocAssumption
<1>3. /\ Clocks \subseteq Soc!Tellable
      /\ Ticks \subseteq Nat /\ Draws \subseteq Nat /\ Intervals \subseteq Nat
  BY <1>1 DEF Soc!SocAssumption
<1>4. None \notin Nat /\ None \notin Soc!Share
  BY <1>1 DEF Soc!SocAssumption
<1>5. QED
  BY <1>2, <1>3, <1>4

\* Where each number of one sum lies between multiples of one of another, so does
\* the sum.
LEMMA SumsAreBetween ==
  ASSUME NEW S, IsFiniteSet(S), NEW v, NEW w, NEW lo \in Nat, NEW hi \in Nat,
         \A x \in S : v[x] \in Nat /\ w[x] \in Nat /\ lo * v[x] <= w[x] /\ w[x] <= hi * v[x]
  PROVE  lo * SumOf(S, v) <= SumOf(S, w) /\ SumOf(S, w) <= hi * SumOf(S, v)
<1> DEFINE Within(T) == lo * SumOf(T, v) <= SumOf(T, w) /\ SumOf(T, w) <= hi * SumOf(T, v)
           Bad == {T \in SUBSET S : ~ Within(T)}
<1>1. SUFFICES ASSUME Bad # {}
               PROVE  FALSE
  OBVIOUS
<1>2. PICK T \in Bad : IsFiniteSet(T) /\ \A U \in SUBSET T : U # T => U \notin Bad
  <2>1. Bad \in SUBSET (SUBSET S)
    OBVIOUS
  <2> HIDE DEF Bad
  <2> QED BY <1>1, <2>1, LeastSubset
<1>3. T \in SUBSET S /\ ~ Within(T)
  BY <1>2
<1>4. T # {}
  <2>1. lo * 0 <= 0 /\ 0 <= hi * 0
    OBVIOUS
  <2>2. Within({})
    BY <2>1, SumOfNone
  <2> HIDE DEF Within
  <2>3. QED
    BY <1>3, <2>2
<1> DEFINE c == CHOOSE x \in T : TRUE
           R == T \ {c}
<1>5. c \in T /\ SumOf(T, v) = v[c] + SumOf(R, v) /\ SumOf(T, w) = w[c] + SumOf(R, w)
  BY <1>2, <1>4, SumUnfolds
<1> HIDE DEF c
<1>6. R \in SUBSET T /\ R # T /\ R \in SUBSET S
  BY <1>3, <1>5
<1>7. Within(R)
  BY <1>2, <1>6
<1>8. SumOf(R, v) \in Nat /\ SumOf(R, w) \in Nat
  <2>1. IsFiniteSet(R) /\ \A x \in R : v[x] \in Nat /\ w[x] \in Nat
    BY <1>2, <1>6, FS_Subset
  <2> QED BY <2>1, SumIsNatural
<1>9. v[c] \in Nat /\ w[c] \in Nat /\ lo * v[c] <= w[c] /\ w[c] <= hi * v[c]
  BY <1>3, <1>5
<1>10. ASSUME NEW a \in Nat, NEW b \in Nat, NEW x \in Nat, NEW y \in Nat
       PROVE  /\ lo * x <= y /\ lo * a <= b => lo * (x + a) <= y + b
              /\ y <= hi * x /\ b <= hi * a => y + b <= hi * (x + a)
  <2>1. lo * (x + a) = lo * x + lo * a /\ hi * (x + a) = hi * x + hi * a
    OBVIOUS
  <2>2. lo * x \in Nat /\ lo * a \in Nat /\ hi * x \in Nat /\ hi * a \in Nat
    OBVIOUS
  <2>3. QED
    BY <2>1, <2>2
<1>11. lo * SumOf(R, v) <= SumOf(R, w) /\ SumOf(R, w) <= hi * SumOf(R, v)
  BY <1>7
<1>12. /\ lo * (v[c] + SumOf(R, v)) <= w[c] + SumOf(R, w)
       /\ w[c] + SumOf(R, w) <= hi * (v[c] + SumOf(R, v))
  BY <1>8, <1>9, <1>10, <1>11
<1>13. QED
  BY <1>3, <1>5, <1>12

\* The sums of Soc are sums.
LEMMA SpentIsSum ==
  ASSUME NEW rs, IsFiniteSet(rs), NEW v, \A r \in rs : v[r] = states[r].ticks
  PROVE  Soc!Spent(rs) = SumOf(rs, v)
<1> DEFINE Iter(g) == g = [s \in SUBSET rs |->
                            IF s = {} THEN 0
                            ELSE states[CHOOSE x \in s : TRUE].ticks
                                 + g[s \ {CHOOSE x \in s : TRUE}]]
<1>1. Soc!Spent(rs) = (CHOOSE g : Iter(g))[rs]
  BY Zenon DEF Soc!Spent, Soc!MapThenSumSet, Soc!MapThenFoldSet
<1>2. \A g : Iter(g) <=> Iterates(rs, v, g)
  <2>1. TAKE g
  <2>2. \A s \in SUBSET rs : s # {} =>
          v[CHOOSE x \in s : TRUE] = states[CHOOSE x \in s : TRUE].ticks
    OBVIOUS
  <2>3. QED
    BY <2>2 DEF Iterates
<1>3. Iterates(rs, v, CHOOSE g : Iter(g))
  <2>1. \E g : Iter(g)
    <3>1. PICK g : Iterates(rs, v, g)
      BY FoldsExist DEF Foldable
    <3>2. Iter(g)
      BY <1>2, <3>1
    <3> HIDE DEF Iter
    <3> QED BY <3>2
  <2>2. Iter(CHOOSE g : Iter(g))
    BY <2>1
  <2> HIDE DEF Iter
  <2>3. QED
    BY <1>2, <2>2
<1>4. Iterates(rs, v, Iterated(rs, v))
  BY SumIterates
<1> HIDE DEF Iter
<1>5. QED
  BY <1>1, <1>3, <1>4, IterationsAgree DEF SumOf

\* The sum that a mean clock is made of.
Weight(dvfs) ==
  Soc!MapThenSumSet(LAMBDA i : states[i].ticks * dvfs[Soc!Place(i, Soc!Active)], Soc!Active)

\* The weighted sum of residencies, by the lemmas on sums.
LEMMA WeightIsSum ==
  ASSUME IsFiniteSet(Soc!Active), NEW dvfs, NEW v,
         \A i \in Soc!Active : v[i] = states[i].ticks * dvfs[Soc!Place(i, Soc!Active)]
  PROVE  Weight(dvfs) = SumOf(Soc!Active, v)
<1> DEFINE rs == Soc!Active
           Iter(g) == g = [s \in SUBSET rs |->
                            IF s = {} THEN 0
                            ELSE states[CHOOSE x \in s : TRUE].ticks
                                 * dvfs[Soc!Place(CHOOSE x \in s : TRUE, rs)]
                                 + g[s \ {CHOOSE x \in s : TRUE}]]
<1>1. Weight(dvfs) = (CHOOSE g : Iter(g))[rs]
  BY Zenon DEF Weight, Soc!MapThenSumSet, Soc!MapThenFoldSet
<1>2. \A g : Iter(g) <=> Iterates(rs, v, g)
  <2>1. TAKE g
  <2>2. \A s \in SUBSET rs : s # {} =>
          v[CHOOSE x \in s : TRUE] = states[CHOOSE x \in s : TRUE].ticks
                                      * dvfs[Soc!Place(CHOOSE x \in s : TRUE, rs)]
    OBVIOUS
  <2>3. QED
    BY <2>2 DEF Iterates
<1>3. Iterates(rs, v, CHOOSE g : Iter(g))
  <2>1. \E g : Iter(g)
    <3>1. PICK g : Iterates(rs, v, g)
      BY FoldsExist DEF Foldable
    <3>2. Iter(g)
      BY <1>2, <3>1
    <3> HIDE DEF Iter
    <3> QED BY <3>2
  <2>2. Iter(CHOOSE g : Iter(g))
    BY <2>1
  <2> HIDE DEF Iter
  <2>3. QED
    BY <1>2, <2>2
<1>4. Iterates(rs, v, Iterated(rs, v))
  BY SumIterates
<1> HIDE DEF Iter
<1>5. QED
  BY <1>1, <1>3, <1>4, IterationsAgree DEF SumOf

\* What is at S takes the positions up to its number.
LEMMA PlacesAre ==
  ASSUME NEW S \in SUBSET Nat, IsFiniteSet(S)
  PROVE  /\ Soc!Cardinality(S) = Cardinality(S)
         /\ \A i \in S : /\ Soc!Place(i, S) = Cardinality({j \in S : j <= i})
                         /\ Soc!Place(i, S) \in 1..Cardinality(S)
<1>1. \A T : Soc!Cardinality(T) = Cardinality(T)
  BY DEF Soc!Cardinality, Cardinality
<1>2. \A i \in S : Soc!Place(i, S) = Cardinality({j \in S : j <= i})
  BY <1>1 DEF Soc!Place
<1>3. ASSUME NEW i \in S
      PROVE  Soc!Place(i, S) \in 1..Cardinality(S)
  <2> DEFINE T == {j \in S : j <= i}
  <2>1. T \subseteq S /\ i \in T
    OBVIOUS
  <2> HIDE DEF T
  <2>2. IsFiniteSet(T) /\ Cardinality(T) <= Cardinality(S)
        /\ Cardinality(S) \in Nat /\ Cardinality(T) \in Nat
    BY <2>1, FS_Subset, FS_CardinalityType
  <2>3. Cardinality(T) # 0
    BY <2>1, <2>2, FS_EmptySet
  <2>4. Cardinality(T) \in 1..Cardinality(S)
    BY <2>2, <2>3
  <2>5. QED
    BY <1>2, <2>4 DEF T
<1>4. QED
  BY <1>1, <1>2, <1>3

\* A channel and a table of a chip, whatever the interval held.
Channel(n) == DOMAIN states = 1..n /\ \A i \in 1..n : states[i].ticks \in Nat
Ascends(m) ==
  /\ table \in Seq(Clocks) /\ Len(table) = m
  /\ \A i, j \in 1..m : i < j => table[i] < table[j]

SocReadings ==
  /\ \E n \in Nat : Channel(n)
  /\ \E m \in Nat : Ascends(m)
  /\ scale \in Soc!Scales
  /\ drawn_mj \in Nat /\ dt \in Nat

SocInv == SocReadings /\ (soc # None => Soc!SampleIsTrue /\ Soc!TypeOK)

\* Clocks are numbers of two to four digits.
LEMMA ClocksAre == \A c \in Clocks : c \in Nat /\ 10 <= c /\ c <= 9999
<1>1. Clocks \subseteq Soc!Tellable
  BY SocConstants
<1>2. QED
  BY <1>1, SMT DEF Soc!Tellable

\* Nothing is sampled at first.
LEMMA SocStart == Soc!Init => SocInv
<1> SUFFICES ASSUME Soc!Init PROVE SocInv
  OBVIOUS
<1>0. PICK inventory \in Inventories :
        states \in {[i \in DOMAIN inventory |-> [name |-> inventory[i], ticks |-> t[i]]] :
                      t \in [DOMAIN inventory -> Ticks]}
  BY DEF Soc!Init
<1>1. PICK t \in [DOMAIN inventory -> Ticks] :
        states = [i \in DOMAIN inventory |-> [name |-> inventory[i], ticks |-> t[i]]]
  BY <1>0
<1>2. Channel(Len(inventory)) /\ Len(inventory) \in Nat
  <2>1. DOMAIN inventory = 1..Len(inventory) /\ Len(inventory) \in Nat
    BY SocConstants
  <2>2. \A i \in DOMAIN inventory : states[i].ticks = t[i] /\ t[i] \in Ticks
    BY <1>1
  <2>3. Ticks \subseteq Nat
    BY SocConstants
  <2>4. DOMAIN states = DOMAIN inventory
    BY <1>1
  <2>5. QED
    BY <2>1, <2>2, <2>3, <2>4 DEF Channel
<1>3. \E m \in Nat : Ascends(m)
  <2>1. /\ table \in UNION {[1..n -> Clocks] : n \in 0..Soc!Cardinality(Clocks)}
        /\ \A i, j \in DOMAIN table : i < j => table[i] < table[j]
    BY DEF Soc!Init, Soc!Tables
  <2>2. Soc!Cardinality(Clocks) \in Nat
    <3>1. Soc!Cardinality(Clocks) = Cardinality(Clocks)
      BY DEF Soc!Cardinality, Cardinality
    <3>2. Clocks \in SUBSET Nat /\ \A c \in Clocks : c <= 9999
      BY ClocksAre
    <3>3. IsFiniteSet(Clocks)
      BY <3>2, FS_BoundedSetOfNaturals
    <3>4. QED
      BY <3>1, <3>3, FS_CardinalityType
  <2>3. PICK m \in 0..Soc!Cardinality(Clocks) : table \in [1..m -> Clocks]
    BY <2>1
  <2>4. m \in Nat
    BY <2>2
  <2>5. table \in Seq(Clocks) /\ Len(table) = m /\ DOMAIN table = 1..m
    BY <2>3, <2>4
  <2>6. QED
    BY <2>1, <2>4, <2>5 DEF Ascends
<1>4. /\ scale \in Soc!Scales /\ drawn_mj \in Nat /\ dt \in Nat /\ soc = None
  BY SocConstants DEF Soc!Init
<1>5. QED
  BY <1>2, <1>3, <1>4 DEF SocInv, SocReadings

\* A chip that is not there has no sample.
LEMMA NoSoc ==
  ASSUME states = <<>>, table = <<>>, scale = 1, drawn_mj = 0, dt = 0, soc = None
  PROVE  SocInv
<1>1. Channel(0)
  BY DEF Channel
<1>2. Ascends(0)
  BY DEF Ascends
<1>3. 0 \in Nat
  OBVIOUS
<1>4. QED
  BY <1>1, <1>2, <1>3 DEF SocInv, SocReadings, Soc!Scales

-----------------------------------------------------------------------------
\* The blob is read for what it says, in whichever unit.
LEMMA UnitsAreTold ==
  ASSUME NEW c \in Nat, 10 <= c, c <= 9999, scale \in Soc!Scales
  PROVE  Soc!normalize_mhz(c * scale) = c /\ c * scale # 0
<1>1. CASE scale = 1
  BY <1>1 DEF Soc!normalize_mhz
<1>2. CASE scale = 1000
  <2>1. (c * 1000) \div 1000 = c
    OBVIOUS
  <2>2. c * 1000 < 10000000 /\ c * 1000 >= 10000
    OBVIOUS
  <2>3. QED
    BY <1>2, <2>1, <2>2 DEF Soc!normalize_mhz
<1>3. CASE scale = 1000000
  <2>1. (c * 1000000) \div 1000000 = c
    OBVIOUS
  <2>2. c * 1000000 >= 10000000
    OBVIOUS
  <2>3. QED
    BY <1>3, <2>1, <2>2 DEF Soc!normalize_mhz
<1>4. QED
  BY <1>1, <1>2, <1>3 DEF Soc!Scales

\* parse_voltage_states recovers the table in MHz from a blob in any unit.
LEMMA BlobIsTold ==
  ASSUME SocReadings
  PROVE  Soc!parse_voltage_states(Soc!Blob) = table
<1>1. PICK m \in Nat : Ascends(m)
  BY DEF SocReadings
<1> DEFINE raw == Soc!Blob
           kept == {i \in DOMAIN raw : raw[i] # 0}
<1>2. scale \in Int /\ scale \in Soc!Scales
  BY DEF SocReadings, Soc!Scales
<1>3. \A i \in 1..m : table[i] \in Nat /\ 10 <= table[i] /\ table[i] <= 9999
  <2>1. \A i \in 1..m : table[i] \in Clocks
    BY <1>1 DEF Ascends
  <2>2. QED
    BY <2>1, ClocksAre
<1>4. /\ DOMAIN raw = 1..(m + 1) /\ raw[1] = 0
      /\ \A i \in 1..m : raw[i + 1] = table[i] * scale
  <2> DEFINE tail == [i \in 1..Len(table) |-> table[i] * scale]
  <2>1. tail \in Seq(Int) /\ Len(tail) = m /\ \A i \in 1..m : tail[i] = table[i] * scale
    <3>1. Len(table) = m
      BY <1>1 DEF Ascends
    <3>2. \A i \in 1..m : table[i] * scale \in Int
      BY <1>2, <1>3
    <3>3. tail = [i \in 1..m |-> table[i] * scale]
      BY <3>1
    <3>4. QED
      BY <3>2, <3>3
  <2>2. raw = <<0>> \o tail
    BY DEF Soc!Blob
  <2> HIDE DEF tail, raw
  <2>3. <<0>> \in Seq(Int) /\ Len(<<0>>) = 1 /\ <<0>>[1] = 0
    OBVIOUS
  <2>4. Len(raw) = m + 1 /\ DOMAIN raw = 1..(m + 1)
    BY <2>1, <2>2, <2>3
  <2>5. raw[1] = 0
    BY <2>1, <2>2, <2>3
  <2>6. \A i \in 1..m : raw[i + 1] = tail[i]
    BY <2>1, <2>2, <2>3
  <2>7. QED
    BY <2>1, <2>4, <2>5, <2>6
<1> HIDE DEF raw
<1>5. \A i \in 1..m : raw[i + 1] # 0 /\ Soc!normalize_mhz(raw[i + 1]) = table[i]
  <2>1. TAKE i \in 1..m
  <2>2. table[i] \in Nat /\ 10 <= table[i] /\ table[i] <= 9999 /\ raw[i + 1] = table[i] * scale
    BY <1>3, <1>4
  <2>3. QED
    BY <1>2, <2>2, UnitsAreTold
<1>6. kept = 2..(m + 1)
  <2>1. \A i \in 2..(m + 1) : i - 1 \in 1..m /\ (i - 1) + 1 = i
    OBVIOUS
  <2>2. \A i \in 2..(m + 1) : raw[i] # 0
    BY <1>5, <2>1
  <2>3. QED
    BY <1>4, <2>2
<1>7. IsFiniteSet(kept) /\ Cardinality(kept) = m /\ kept \in SUBSET Nat
  <2>1. m + 1 \in Int /\ 2 \in Int
    OBVIOUS
  <2>2. IsFiniteSet(2..(m + 1))
        /\ Cardinality(2..(m + 1)) = IF 2 > m + 1 THEN 0 ELSE (m + 1) - 2 + 1
    BY <2>1, FS_Interval
  <2>3. (IF 2 > m + 1 THEN 0 ELSE (m + 1) - 2 + 1) = m
    OBVIOUS
  <2>4. 2..(m + 1) \in SUBSET Nat
    OBVIOUS
  <2>5. QED
    BY <1>6, <2>2, <2>3, <2>4
<1>8. \A i \in kept : Soc!Place(i, kept) = i - 1
  <2>1. TAKE i \in kept
  <2>2. {j \in kept : j <= i} = 2..i
    BY <1>6
  <2>3. Cardinality(2..i) = i - 1
    BY <1>6, FS_Interval
  <2> HIDE DEF kept
  <2>4. QED
    BY <1>7, <2>2, <2>3, PlacesAre
<1>9. Soc!parse_voltage_states(raw)
        = [k \in 1..m |-> Soc!normalize_mhz(raw[CHOOSE i \in kept : Soc!Place(i, kept) = k])]
  BY <1>7, PlacesAre DEF Soc!parse_voltage_states
<1> HIDE DEF kept
<1>10. \A k \in 1..m : (CHOOSE i \in kept : Soc!Place(i, kept) = k) = k + 1
  <2>1. TAKE k \in 1..m
  <2>2. k + 1 \in kept /\ Soc!Place(k + 1, kept) = k
    BY <1>6, <1>8
  <2>3. \A i \in kept : Soc!Place(i, kept) = k => i = k + 1
    BY <1>6, <1>8
  <2>4. QED
    BY <2>2, <2>3
<1>11. \A k \in 1..m : Soc!normalize_mhz(raw[CHOOSE i \in kept : Soc!Place(i, kept) = k])
                         = table[k]
  BY <1>5, <1>10
<1>12. table = [k \in 1..m |-> table[k]]
  BY <1>1 DEF Ascends
<1>13. QED
  BY <1>9, <1>11, <1>12 DEF raw

\* The ticks of a channel.
LEMMA TicksAre ==
  ASSUME NEW n \in Nat, Channel(n)
  PROVE  /\ IsFiniteSet(DOMAIN states) /\ IsFiniteSet(Soc!Active)
         /\ Soc!Active \in SUBSET (DOMAIN states) /\ DOMAIN states \in SUBSET Nat
         /\ Soc!Spent(Soc!Active) \in Nat /\ Soc!Spent(DOMAIN states) \in Nat
         /\ Soc!Spent(DOMAIN states) = 0 <=> \A i \in DOMAIN states : states[i].ticks = 0
<1> DEFINE v == [i \in 1..n |-> states[i].ticks]
<1>1. DOMAIN states = 1..n /\ \A i \in 1..n : v[i] = states[i].ticks /\ v[i] \in Nat
  BY DEF Channel
<1> HIDE DEF v
<1>2. DOMAIN states \in SUBSET Nat /\ \A i \in DOMAIN states : i <= n
  BY <1>1
<1>3. IsFiniteSet(DOMAIN states)
  BY <1>2, FS_BoundedSetOfNaturals
<1>4. Soc!Active \in SUBSET (DOMAIN states)
  BY DEF Soc!Active
<1>5. IsFiniteSet(Soc!Active)
  BY <1>3, <1>4, FS_Subset
<1>6. Soc!Spent(DOMAIN states) = SumOf(DOMAIN states, v)
  BY <1>1, <1>3, SpentIsSum
<1>7. Soc!Spent(Soc!Active) = SumOf(Soc!Active, v)
  BY <1>1, <1>4, <1>5, SpentIsSum
<1>8. SumOf(Soc!Active, v) \in Nat
  BY <1>1, <1>4, <1>5, SumIsNatural
<1>9. /\ SumOf(DOMAIN states, v) \in Nat
      /\ \A i \in DOMAIN states : v[i] <= SumOf(DOMAIN states, v)
  BY <1>1, <1>3, SumIsNatural
<1>10. ASSUME \A i \in DOMAIN states : v[i] = 0
       PROVE  SumOf(DOMAIN states, v) = 0
  <2>1. \A i \in DOMAIN states : v[i] \in Nat /\ 0 * v[i] <= v[i] /\ v[i] <= 0 * v[i]
    BY <1>10
  <2>2. SumOf(DOMAIN states, v) <= 0 * SumOf(DOMAIN states, v)
    BY <1>3, <2>1, SumsAreBetween
  <2>3. QED
    BY <1>9, <2>2
<1>11. SumOf(DOMAIN states, v) = 0 <=> \A i \in DOMAIN states : v[i] = 0
  BY <1>1, <1>9, <1>10
<1>12. QED
  BY <1>1, <1>2, <1>3, <1>4, <1>5, <1>6, <1>7, <1>8, <1>9, <1>11

\* A rounded mean is between the least and the greatest.
LEMMA RoundedIsBetween ==
  ASSUME NEW sum \in Nat, NEW n \in Nat, n > 0, NEW lo \in Nat, NEW hi \in Nat,
         lo * n <= sum, sum <= hi * n
  PROVE  LET q == (sum + n \div 2) \div n
         IN  lo <= q /\ q <= hi /\ q \in Nat
<1> DEFINE h == n \div 2
           q == (sum + h) \div n
           r == (sum + h) % n
<1>1. h \in Nat /\ h < n
  OBVIOUS
<1> HIDE DEF h
<1>2. q \in Nat /\ r \in Nat /\ r < n /\ sum + h = n * q + r
  BY <1>1, DivMod
<1> HIDE DEF q, r
<1>3. n * lo \in Nat /\ n * hi \in Nat /\ n * lo = lo * n /\ n * hi = hi * n
  OBVIOUS
<1>4. n * lo + 0 <= n * q + r /\ n * q + r <= n * hi + h
  BY <1>1, <1>2, <1>3
<1>5. lo <= q
  BY <1>2, <1>4, QuotientsGrow
<1>6. q <= hi
  BY <1>1, <1>2, <1>4, QuotientsGrow
<1>7. QED
  BY <1>2, <1>5, <1>6 DEF q, h

\* The mean clock is one the chip can run at.
LEMMA MeanClock ==
  ASSUME SocReadings
  PROVE  LET freq == Soc!weighted_freq_mhz(table)
         IN  /\ freq \in Nat \union {None}
             /\ freq # None => (Soc!Spent(Soc!Active) = 0 <=> freq = 0)
             /\ freq \notin {None, 0} => freq >= table[1] /\ freq <= table[Len(table)]
<1> DEFINE freq == Soc!weighted_freq_mhz(table)
           active == Soc!Active
           t == Soc!Spent(active)
           w == Weight(table)
<1>1. PICK n \in Nat : Channel(n)
  BY DEF SocReadings
<1>2. PICK m \in Nat : Ascends(m)
  BY DEF SocReadings
<1>3. /\ IsFiniteSet(active) /\ active \in SUBSET Nat /\ t \in Nat
      /\ active \subseteq DOMAIN states
  BY <1>1, TicksAre
<1>4. freq = IF active = {} \/ Soc!Cardinality(active) # Len(table) THEN None
             ELSE IF t = 0 THEN 0
             ELSE (w + t \div 2) \div t
  BY DEF Soc!weighted_freq_mhz, Weight
<1>5. Soc!Cardinality(active) = Cardinality(active)
  BY <1>3, PlacesAre
<1>6. None \notin Nat
  BY SocConstants
<1> HIDE DEF freq, t, w, active
<1>7. CASE active = {} \/ Cardinality(active) # m
  <2>1. freq = None
    BY <1>2, <1>4, <1>5, <1>7 DEF Ascends
  <2>2. QED
    BY <2>1 DEF freq
<1>8. CASE active # {} /\ Cardinality(active) = m /\ t = 0
  <2>1. freq = 0
    BY <1>2, <1>4, <1>5, <1>8 DEF Ascends
  <2>2. QED
    BY <1>8, <2>1 DEF freq, t, active
<1>9. CASE active # {} /\ Cardinality(active) = m /\ t # 0
  <2> DEFINE lo == table[1]
             hi == table[m]
             v == [i \in active |-> states[i].ticks]
             f == [i \in active |-> table[Soc!Place(i, active)]]
             u == [i \in active |-> v[i] * f[i]]
  <2>1. m > 0 /\ Len(table) = m
    BY <1>2, <1>3, <1>9, FS_EmptySet DEF Ascends
  <2>2. \A j \in 1..m : table[j] \in Nat /\ 10 <= table[j] /\ lo <= table[j] /\ table[j] <= hi
    <3>1. \A j \in 1..m : table[j] \in Nat /\ 10 <= table[j]
      <4>1. \A j \in 1..m : table[j] \in Clocks
        BY <1>2 DEF Ascends
      <4>2. QED
        BY <4>1, ClocksAre
    <3>2. ASSUME NEW j \in 1..m
          PROVE  lo <= table[j] /\ table[j] <= hi
      <4>1. 1 \in 1..m /\ m \in 1..m
        BY <2>1
      <4>2. 1 < j => table[1] < table[j]
        BY <1>2, <4>1 DEF Ascends
      <4>3. j < m => table[j] < table[m]
        BY <1>2, <4>1 DEF Ascends
      <4>4. 1 = j \/ 1 < j
        OBVIOUS
      <4>5. j = m \/ j < m
        OBVIOUS
      <4>6. table[1] \in Nat /\ table[j] \in Nat /\ table[m] \in Nat
        BY <3>1, <4>1
      <4>7. QED
        BY <4>2, <4>3, <4>4, <4>5, <4>6
    <3>3. QED
      BY <3>1, <3>2
  <2>3. lo \in Nat /\ hi \in Nat /\ 10 <= lo
    BY <2>1, <2>2
  <2>4. \A i \in active : v[i] \in Nat /\ v[i] = states[i].ticks
    BY <1>1, <1>3 DEF Channel
  <2>5. \A i \in active : f[i] \in Nat /\ lo <= f[i] /\ f[i] <= hi
    <3>1. \A i \in active : Soc!Place(i, active) \in 1..m
      BY <1>3, <1>9, PlacesAre
    <3>2. QED
      BY <2>2, <3>1
  <2>6. \A i \in active : u[i] = states[i].ticks * table[Soc!Place(i, active)]
                          /\ u[i] = v[i] * f[i]
    OBVIOUS
  <2> HIDE DEF lo, hi, v, f, u
  <2>7. \A i \in active : u[i] \in Nat /\ lo * v[i] <= u[i] /\ u[i] <= hi * v[i]
    <3>1. TAKE i \in active
    <3>2. /\ f[i] \in Nat /\ v[i] \in Nat /\ lo <= f[i] /\ f[i] <= hi /\ u[i] = v[i] * f[i]
      BY <2>4, <2>5, <2>6
    <3>3. ASSUME NEW x \in Nat, NEW y \in Nat, NEW z \in Nat, y <= z
          PROVE  x * y <= x * z
      BY <3>3, TimesGrows
    <3>4. v[i] * lo <= v[i] * f[i] /\ v[i] * f[i] <= v[i] * hi
      BY <2>3, <3>2, <3>3
    <3>5. v[i] * lo = lo * v[i] /\ v[i] * hi = hi * v[i] /\ v[i] * f[i] \in Nat
      BY <2>3, <3>2
    <3>6. QED
      BY <3>2, <3>4, <3>5
  <2>8. t = SumOf(active, v) /\ w = SumOf(active, u)
    <3>1. t = SumOf(active, v)
      BY <1>3, <2>4, SpentIsSum DEF t
    <3>2. w = SumOf(active, u)
      BY <1>3, <2>6, WeightIsSum DEF w, active
    <3> QED BY <3>1, <3>2
  <2>9. w \in Nat
    BY <1>3, <2>7, <2>8, SumIsNatural
  <2>10. lo * t <= w /\ w <= hi * t
    BY <1>3, <2>3, <2>4, <2>7, <2>8, SumsAreBetween
  <2>11. freq = (w + t \div 2) \div t
    BY <1>4, <1>5, <1>9, <2>1
  <2>12. t > 0
    BY <1>3, <1>9
  <2>13. lo <= freq /\ freq <= hi /\ freq \in Nat
    BY <1>3, <2>3, <2>9, <2>10, <2>11, <2>12, RoundedIsBetween
  <2>14. freq # 0 /\ t # 0 /\ freq >= lo
    BY <2>3, <2>13, <1>9
  <2>15. QED
    BY <2>1, <2>13, <2>14 DEF freq, t, active, lo, hi
<1>10. QED
  BY <1>7, <1>8, <1>9

\* A rounded quotient is half a divisor off at most, in units of any size.
LEMMA RoundedIsNear ==
  ASSUME NEW a \in Nat, NEW d \in Nat, d > 0, NEW k \in Nat, k > 0, k \in {1, 1000}
  PROVE  LET p == (2 * (a * k) + d * k) \div (2 * (d * k))
         IN  p \in Nat /\ 2 * (p * d - a) <= d /\ 2 * (p * d - a) >= -d
<1> DEFINE top == 2 * (a * k) + d * k
           by == 2 * (d * k)
           p == top \div by
           r == top % by
<1>1. top \in Nat /\ by \in Nat /\ by > 0
  BY TimesGrows
<1>2. top = 2 * (a * k) + d * k /\ by = 2 * (d * k)
  OBVIOUS
<1> HIDE DEF top, by
<1>3. p \in Nat /\ r \in Nat /\ r < by /\ top = by * p + r
  BY <1>1, DivMod
<1> HIDE DEF p, r
<1> DEFINE x == p * d
<1>4. x \in Nat
  BY <1>3
<1>5. CASE k = 1
  <2>1. top = 2 * a + d /\ by = 2 * d
    BY <1>2, <1>5
  <2>2. by * p = 2 * x
    BY <1>3, <2>1
  <2> HIDE DEF x
  <2>3. 2 * (x - a) <= d /\ 2 * (x - a) >= -d
    BY <1>3, <1>4, <2>1, <2>2
  <2> QED BY <1>3, <2>3 DEF p, top, by, x
<1>6. CASE k = 1000
  <2>1. top = 2000 * a + 1000 * d /\ by = 2000 * d
    BY <1>2, <1>6
  <2>2. by * p = 2000 * x
    BY <1>3, <2>1
  <2> HIDE DEF x
  <2>3. 2 * (x - a) <= d /\ 2 * (x - a) >= -d
    BY <1>3, <1>4, <2>1, <2>2
  <2> QED BY <1>3, <2>3 DEF p, top, by, x
<1>7. QED
  BY <1>5, <1>6

\* Power is the energy over the interval, to half a milliwatt.
LEMMA PowerIsTold ==
  ASSUME SocReadings
  PROVE  LET delta == drawn_mj * (IF label \in DOMAIN Soc!UnitsInMj
                                  THEN Soc!UnitsInMj[label] ELSE 1)
             mw == Soc!power_mw_from_energy(delta)
         IN  /\ mw \in Nat \union {None}
             /\ dt = 0 => mw = None
             /\ mw # None => /\ 2 * (mw * dt - drawn_mj * 1000) <= dt
                             /\ 2 * (mw * dt - drawn_mj * 1000) >= -dt
<1> DEFINE delta == drawn_mj * (IF label \in DOMAIN Soc!UnitsInMj
                                THEN Soc!UnitsInMj[label] ELSE 1)
           mw == Soc!power_mw_from_energy(delta)
           a == drawn_mj * 1000
<1>1. drawn_mj \in Nat /\ dt \in Nat /\ a \in Nat
  BY DEF SocReadings
<1>2. DOMAIN Soc!UnitsInMj = {"mJ", "uJ", "nJ"}
  BY DEF Soc!UnitsInMj
<1>3. None \notin Nat
  BY SocConstants
<1> SUFFICES /\ mw \in Nat \union {None}
             /\ dt = 0 => mw = None
             /\ mw # None => /\ 2 * (mw * dt - a) <= dt
                             /\ 2 * (mw * dt - a) >= -dt
  OBVIOUS
<1>4. CASE dt = 0 \/ label \notin {"mJ", "uJ", "nJ"}
  <2>1. mw = None
    BY <1>2, <1>4 DEF Soc!power_mw_from_energy
  <2> HIDE DEF mw
  <2>2. QED
    BY <2>1
<1>5. ASSUME dt > 0, label = "mJ"
      PROVE  /\ mw \in Nat
             /\ 2 * (mw * dt - a) <= dt /\ 2 * (mw * dt - a) >= -dt
  <2>1. delta = drawn_mj
    BY <1>1, <1>5 DEF Soc!UnitsInMj
  <2>2. mw = (2 * delta * 1000 + dt) \div (2 * dt)
    BY <1>2, <1>5 DEF Soc!power_mw_from_energy
  <2>3. 2 * delta * 1000 + dt = 2 * (a * 1) + dt * 1 /\ 2 * dt = 2 * (dt * 1)
    BY <1>1, <2>1
  <2> HIDE DEF mw, delta, a
  <2>4. mw = (2 * (a * 1) + dt * 1) \div (2 * (dt * 1))
    BY <2>2, <2>3
  <2>5. QED
    BY <1>1, <1>5, <2>4, RoundedIsNear
<1>6. ASSUME dt > 0, label = "uJ"
      PROVE  /\ mw \in Nat
             /\ 2 * (mw * dt - a) <= dt /\ 2 * (mw * dt - a) >= -dt
  <2>1. delta = a
    BY <1>1, <1>6 DEF Soc!UnitsInMj
  <2>2. Soc!UnitsInMj[label] \div 1000 = 1
    BY <1>6 DEF Soc!UnitsInMj
  <2>3. mw = (2 * delta + dt * 1) \div (2 * (dt * 1))
    BY <1>2, <1>6, <2>2 DEF Soc!power_mw_from_energy
  <2>4. 2 * delta + dt * 1 = 2 * (a * 1) + dt * 1
    BY <1>1, <2>1
  <2> HIDE DEF mw, delta, a
  <2>5. mw = (2 * (a * 1) + dt * 1) \div (2 * (dt * 1))
    BY <2>3, <2>4
  <2>6. QED
    BY <1>1, <1>6, <2>5, RoundedIsNear
<1>7. ASSUME dt > 0, label = "nJ"
      PROVE  /\ mw \in Nat
             /\ 2 * (mw * dt - a) <= dt /\ 2 * (mw * dt - a) >= -dt
  <2>1. delta = a * 1000
    BY <1>1, <1>7 DEF Soc!UnitsInMj
  <2>2. Soc!UnitsInMj[label] \div 1000 = 1000
    BY <1>7 DEF Soc!UnitsInMj
  <2>3. mw = (2 * delta + dt * 1000) \div (2 * (dt * 1000))
    BY <1>2, <1>7, <2>2 DEF Soc!power_mw_from_energy
  <2>4. 2 * delta + dt * 1000 = 2 * (a * 1000) + dt * 1000
    <3> HIDE DEF delta, a
    <3>1. a \in Nat /\ dt \in Nat
      BY <1>1
    <3>2. a * 1000 \in Nat /\ dt * 1000 \in Nat
      BY <3>1
    <3>3. QED
      BY <2>1, <3>2
  <2> HIDE DEF mw, delta, a
  <2>5. mw = (2 * (a * 1000) + dt * 1000) \div (2 * (dt * 1000))
    BY <2>3, <2>4
  <2>6. QED
    BY <1>1, <1>7, <2>5, RoundedIsNear
<1> HIDE DEF mw, a
<1>8. QED
  BY <1>1, <1>3, <1>4, <1>5, <1>6, <1>7

\* A sample keeps the invariant.
LEMMA SocSteps == SocInv /\ [Soc!Read]_socVars => SocInv'
<1> SUFFICES ASSUME SocInv, [Soc!Read]_socVars PROVE SocInv'
  OBVIOUS
<1>0. SocReadings
  BY DEF SocInv
<1>1. CASE UNCHANGED socVars
  <2>1. SocReadings'
    BY <1>0, <1>1 DEF socVars, SocReadings, Channel, Ascends
  <2>2. Soc!SampleIsTrue => Soc!SampleIsTrue'
    BY <1>1 DEF socVars, Soc!SampleIsTrue
  <2>3. Soc!TypeOK => Soc!TypeOK'
    BY <1>1 DEF socVars, Soc!TypeOK
  <2>4. soc' = soc
    BY <1>1 DEF socVars
  <2>5. QED
    BY <2>1, <2>2, <2>3, <2>4 DEF SocInv
<1>2. CASE Soc!Read
  <2> DEFINE delta == drawn_mj * (IF label \in DOMAIN Soc!UnitsInMj
                                  THEN Soc!UnitsInMj[label] ELSE 1)
             util == Soc!util_pct_from_residency
             freq == Soc!weighted_freq_mhz(table)
             mw == Soc!power_mw_from_energy(delta)
             r == [util |-> util, freq |-> freq, table |-> table, power |-> mw]
  <2>1. soc' = r /\ UNCHANGED <<states, table, scale, drawn_mj, label, dt>>
    BY <1>0, <1>2, BlobIsTold DEF Soc!Read
  <2>2. SocReadings'
    BY <1>0, <2>1 DEF SocReadings, Channel, Ascends
  <2>3. PICK n \in Nat : Channel(n)
    BY <1>0 DEF SocReadings
  <2>4. /\ Soc!Spent(Soc!Active) \in Nat /\ Soc!Spent(DOMAIN states) \in Nat
        /\ Soc!Spent(DOMAIN states) = 0 <=> \A i \in DOMAIN states : states[i].ticks = 0
    BY <2>3, TicksAre
  <2>5. util = IF Soc!Spent(DOMAIN states) = 0 THEN None
               ELSE [active |-> Soc!Spent(Soc!Active), total |-> Soc!Spent(DOMAIN states)]
    BY DEF Soc!util_pct_from_residency
  <2>6. /\ util \in Soc!Share \union {None}
        /\ util = None <=> \A i \in DOMAIN states : states[i].ticks = 0
        /\ util # None => util.active = Soc!Spent(Soc!Active)
    <3> DEFINE share == [active |-> Soc!Spent(Soc!Active), total |-> Soc!Spent(DOMAIN states)]
    <3>1. share \in Soc!Share /\ share.active = Soc!Spent(Soc!Active)
      BY <2>4 DEF Soc!Share
    <3>2. None \notin Soc!Share
      BY SocConstants
    <3>3. util = IF Soc!Spent(DOMAIN states) = 0 THEN None ELSE share
      BY <2>5
    <3> HIDE DEF util, share
    <3>4. QED
      BY <2>4, <3>1, <3>2, <3>3
  <2>7. /\ freq \in Nat \union {None}
        /\ freq # None => (Soc!Spent(Soc!Active) = 0 <=> freq = 0)
        /\ freq \notin {None, 0} => freq >= table[1] /\ freq <= table[Len(table)]
    BY <1>0, MeanClock
  <2>8. /\ mw \in Nat \union {None}
        /\ dt = 0 => mw = None
        /\ mw # None => /\ 2 * (mw * dt - drawn_mj * 1000) <= dt
                        /\ 2 * (mw * dt - drawn_mj * 1000) >= -dt
    BY <1>0, PowerIsTold
  <2>9. r.util = util /\ r.freq = freq /\ r.table = table /\ r.power = mw
    OBVIOUS
  <2> HIDE DEF delta, util, freq, mw, r
  <2>10. Soc!SampleIsTrue'
    BY <2>1, <2>6, <2>7, <2>8, <2>9 DEF Soc!SampleIsTrue
  <2>11. Soc!TypeOK'
    BY <2>1, <2>6, <2>7, <2>8, <2>9 DEF Soc!TypeOK, Soc!Share
  <2>12. QED
    BY <2>2, <2>10, <2>11 DEF SocInv
<1>3. QED
  BY <1>1, <1>2

\* The invariant is stronger than the property.
LEMMA SocShows == SocInv => Soc!SampleIsTrue /\ Soc!TypeOK
BY DEF SocInv, Soc!SampleIsTrue, Soc!TypeOK

\* A chip is sampled and nothing else.
LEMMA SocPart == Spec2 => SocInv /\ [][Soc!Read]_socVars
<1>1. Init2 => SocInv
  BY NoSoc, SocStart DEF Init2
<1>2. [Next2]_<<setting, vars, outVars, regVars, prbVars, thrVars,
               qryVars, figVars, socVars, mckVars, rowVars, dmoVars>>
        => [Soc!Read]_socVars
  BY DEF Next2
<1>3. QED
  BY <1>1, <1>2, PTL DEF Spec2

\* Samples are true in every behaviour of the parts.
LEMMA SocHolds == Spec2 => [](Soc!SampleIsTrue /\ Soc!TypeOK)
BY SocPart, SocSteps, SocShows, PTL

\* What is made of readings is true of them.
THEOREM FiguresAlwaysTrue == Spec2 => []FiguresAreTrue
<1>1. Fig!FiguresAgree /\ Soc!SampleIsTrue /\ Row!RowsTellTheirFrames => FiguresAreTrue
  BY DEF FiguresAreTrue
<1>2. QED
  BY <1>1, FiguresHold, SocHolds, RollupHolds, PTL
-----------------------------------------------------------------------------
(* Every part stays in its type *)

\* The file beside which a -wal lies is one that was created.
SidesTyped == sides \in 1..files \union {None}

\* Whatever a demo, another session or a kill does, files keep their numbers.
LEMMA SidesStayTyped == DemoInv /\ SidesTyped /\ [Dmo!Next]_dmoVars => SidesTyped'
<1> SUFFICES ASSUME DemoTypes, SidesTyped, [Dmo!Next]_dmoVars PROVE SidesTyped'
  BY DEF DemoInv
<1>1. files \in Nat /\ at \in 1..files \union {None}
  BY DEF DemoTypes
<1>2. ASSUME UNCHANGED <<sides, files>> PROVE SidesTyped'
  BY <1>2 DEF SidesTyped
<1>3. ASSUME sides' = None PROVE SidesTyped'
  BY <1>3 DEF SidesTyped
<1>4. ASSUME NEW p, NEW place, Dmo!Opened(p, place) PROVE SidesTyped'
  <2>1. /\ sides' = (IF at = None THEN files + 1 ELSE at)
        /\ files' = (IF at = None THEN files + 1 ELSE files)
    BY <1>4 DEF Dmo!Opened
  <2>2. QED
    BY <1>1, <2>1 DEF SidesTyped
<1>5. ASSUME NEW p, NEW place, Dmo!Closed(p, place) PROVE SidesTyped'
  <2>1. sides' \in {None, sides} /\ files' = files
    BY <1>5 DEF Dmo!Closed
  <2>2. QED
    BY <1>2, <1>3, <2>1
<1>6. ASSUME NEW d, Dmo!Locked(d) PROVE SidesTyped'
  BY <1>2, <1>6 DEF Dmo!Locked, Dmo!disk
<1>7. CASE UNCHANGED dmoVars
  BY <1>2, <1>7 DEF dmoVars
<1>8. ASSUME NEW d \in Demos, \/ Dmo!Probe(d) \/ Dmo!DropProbe(d) \/ Dmo!SeedOpen(d)
                              \/ Dmo!Seeded(d)
      PROVE  SidesTyped'
  BY <1>4, <1>5, <1>6, <1>8 DEF Dmo!Probe, Dmo!DropProbe, Dmo!SeedOpen, Dmo!Seeded
<1>9. ASSUME NEW d \in Demos, Dmo!RemoveDb(d) \/ Dmo!RemoveSides(d) \/ Dmo!Seed(d)
      PROVE  SidesTyped'
  BY <1>2, <1>3, <1>9 DEF Dmo!RemoveDb, Dmo!RemoveSides, Dmo!Seed, Dmo!disk
<1>10. ASSUME NEW p \in Dmo!Procs, Dmo!GoLive(p) \/ Dmo!End(p) \/ Dmo!Kill(p)
       PROVE  SidesTyped'
  BY <1>2, <1>4, <1>5, <1>10 DEF Dmo!GoLive, Dmo!End, Dmo!Kill, Dmo!disk
<1>11. QED
  BY <1>7, <1>8, <1>9, <1>10 DEF Dmo!Next

\* The files of the demo are numbered as they are created (open_recording).
LEMMA DemoStaysTyped == Spec2 => []Dmo!TypeOK
<1>1. Dmo!Init => SidesTyped
  BY DEF Dmo!Init, SidesTyped
<1>2. DemoInv /\ SidesTyped => Dmo!TypeOK
  BY DEF DemoInv, DemoTypes, SidesTyped, Dmo!TypeOK
<1>3. QED
  BY <1>1, <1>2, DemoPart, DemoStart, DemoStep, SidesStayTyped, PTL

MemoryTyped == vram \in Floor .. Ceiling

\* A gap ends in a tick to come, and simulated memory stays in its range.
LEMMA MockStaysTyped == Spec2 => []Mck!TypeOK
<1>1. Mck!Init => MemoryTyped
  BY LimitsAssumption DEF Mck!Init, MemoryTyped
<1>2. MemoryTyped /\ [Mck!Step]_mckVars => MemoryTyped'
  <2> SUFFICES ASSUME MemoryTyped, [Mck!Step]_mckVars
               PROVE  MemoryTyped'
    OBVIOUS
  <2>1. CASE UNCHANGED mckVars
    BY <2>1 DEF mckVars, MemoryTyped
  <2>2. CASE Mck!Step
    <3>1. vram' = (IF vram + 1 > Ceiling THEN Floor ELSE vram + 1)
      BY <2>2 DEF Mck!Step, Mck!TrainStep, Mck!Climbed
    <3>2. Floor \in Int /\ Ceiling \in Int /\ Floor <= Ceiling
      BY LimitsAssumption
    <3>3. QED
      BY <3>1, <3>2 DEF MemoryTyped
  <2>3. QED
    BY <2>1, <2>2
<1>3. MockInv /\ MemoryTyped => Mck!TypeOK
  <2> SUFFICES ASSUME MockInv, MemoryTyped PROVE Mck!TypeOK
    OBVIOUS
  <2>1. ASSUME idle_until # 0
        PROVE  idle_until > tick /\ idle_until <= tick + GapMin + GapSpread
    <3>1. idle_until > tick /\ idle_until < tick - Rest + GapMin + GapSpread
      BY <2>1 DEF MockInv, GapKept
    <3>2. tick \in Nat /\ idle_until \in Nat
      BY DEF MockInv, MockTypes
    <3>3. GapEvery \in Nat \ {0} /\ GapMin \in Nat /\ GapSpread \in Nat
      BY EngineAssumption
    <3>4. Rest \in Nat
      BY <3>2, <3>3, Dial DEF Rest
    <3>5. QED
      BY <3>1, <3>2, <3>3, <3>4
  <2>2. QED
    BY <2>1 DEF Mck!TypeOK, MockInv, MockTypes, MemoryTyped
<1>4. QED
  BY <1>1, <1>2, <1>3, MockPart, MockStart, MockStep, PTL

\* The limits are the drivers', and a reading has fields only.
ThrottleTyped ==
  /\ latched \subseteq Bits /\ asserted \subseteq Bits
  /\ reading # None => reading.told \subseteq Thr!Fields
  /\ sample # <<>> /\ sample # <<None>> => sample[1] \subseteq Thr!Fields

\* What a word is decoded to is fields.
LEMMA VocabulariesAreFields ==
  /\ \A b \in DOMAIN Thr!NvmlBits : Thr!NvmlBits[b] \in Thr!Fields
  /\ \A b \in DOMAIN Thr!IndepGroups : Thr!IndepGroups[b] \in Thr!Fields
  /\ \A b \in DOMAIN Thr!IntelReasons : Thr!IntelReasons[b] \in Thr!Fields
BY DEF Thr!NvmlBits, Thr!IndepGroups, Thr!IntelReasons, Thr!Fields

\* Decoding yields fields of ThrottleReasons.
LEMMA DecodedAreFields ==
  ASSUME source \in {"nvml", "amdgpu", "intel"}, NEW bits
  PROVE  Thr!Decoded(bits) \subseteq Thr!Fields
<1>1. \A b \in DOMAIN Thr!Vocabulary : Thr!Vocabulary[b] \in Thr!Fields
  BY VocabulariesAreFields, Vocabularies
<1>2. \A b \in Thr!Known(bits) : Thr!Vocabulary[b] \in Thr!Fields
  BY <1>1 DEF Thr!Known
<1>3. "other" \in Thr!Fields
  BY DEF Thr!Fields
<1>4. QED
  BY <1>2, <1>3 DEF Thr!Decoded

\* A reading that ends leaves fields, or the word that there is none.
LEMMA SampledStaysTyped ==
  ASSUME ThrottleTyped, NEW told, Thr!Sampled(told),
         told = None \/ told \subseteq Thr!Fields
  PROVE  ThrottleTyped'
BY DEF ThrottleTyped, Thr!Sampled, Thr!Fields

\* Every action of a reading keeps its type.
LEMMA ThrottleStaysTyped ==
  ThrottleInv /\ ThrottleTyped /\ [Thr!Next]_thrVars => ThrottleTyped'
<1> SUFFICES ASSUME ThrottleInv, ThrottleTyped, [Thr!Next]_thrVars
             PROVE  ThrottleTyped'
  OBVIOUS
<1>1. CASE UNCHANGED thrVars
  BY <1>1 DEF thrVars, ThrottleTyped, Thr!Fields
<1>2. ASSUME NEW b \in Bits,
             Thr!Assert(b) \/ \E lingers \in BOOLEAN : Thr!Release(b, lingers)
      PROVE  ThrottleTyped'
  <2>1. /\ latched' \subseteq latched \union {b} /\ asserted' \subseteq asserted \union {b}
        /\ reading' = reading /\ sample' = <<>>
    BY <1>2 DEF Thr!Assert, Thr!Release
  <2>2. QED
    BY <2>1 DEF ThrottleTyped, Thr!Fields
<1>3. ASSUME NEW ok \in BOOLEAN, Thr!QueryNvml(ok) PROVE ThrottleTyped'
  <2>1. source = "nvml" /\ Thr!Sampled(IF ok THEN Thr!Decoded(asserted) ELSE None)
    BY <1>3 DEF Thr!QueryNvml
  <2>2. Thr!Decoded(asserted) \subseteq Thr!Fields
    BY <2>1, DecodedAreFields
  <2>3. QED
    BY <2>1, <2>2, SampledStaysTyped
<1>4. ASSUME NEW ok \in BOOLEAN, Thr!ReadGpuMetrics(ok) PROVE ThrottleTyped'
  <2>1. source = "amdgpu" /\ Thr!Sampled(Thr!decode_gpu_metrics_throttle(ok, asserted))
    BY <1>4 DEF Thr!ReadGpuMetrics
  <2>2. Thr!Decoded(asserted) \subseteq Thr!Fields
    BY <2>1, DecodedAreFields
  <2>3. \/ Thr!decode_gpu_metrics_throttle(ok, asserted) = None
        \/ Thr!decode_gpu_metrics_throttle(ok, asserted) \subseteq Thr!Fields
    BY <2>2 DEF Thr!decode_gpu_metrics_throttle, Thr!Fields
  <2>4. QED
    BY <2>1, <2>3, SampledStaysTyped
<1>5. CASE Thr!CannotTell
  BY <1>5, SampledStaysTyped DEF Thr!CannotTell
<1>6. ASSUME NEW legible \in BOOLEAN, Thr!ReadStatus(legible) PROVE ThrottleTyped'
  <2>1. CASE asserted = {} \/ ~legible
    <3>1. Thr!Sampled(IF legible THEN {} ELSE None)
      BY <1>6, <2>1 DEF Thr!ReadStatus
    <3>2. QED
      BY <3>1, SampledStaysTyped
  <2>2. CASE ~(asserted = {} \/ ~legible)
    BY <1>6, <2>2 DEF Thr!ReadStatus, ThrottleTyped, Thr!Fields
  <2>3. QED
    BY <2>1, <2>2
<1>7. ASSUME NEW legible \in BOOLEAN, Thr!ReadReason(legible) PROVE ThrottleTyped'
  <2> DEFINE file == Thr!ReasonFiles[reading.files + 1]
             field == Thr!IntelReasons[file]
             told == IF legible /\ file \in latched /\ field \notin reading.told
                     THEN reading.told \union {field} ELSE reading.told
  <2>1. reading # None /\ reading.files \in 0..7
    BY <1>7 DEF Thr!ReadReason, ThrottleInv
  <2>2. reading.files + 1 \in 1..8
    BY <2>1
  <2>3. field \in Thr!Fields
    BY <2>2, ReasonFilesAreReasons, VocabulariesAreFields
  <2>4. told \subseteq Thr!Fields
    BY <2>1, <2>3 DEF ThrottleTyped
  <2>5. \/ Thr!Sampled(IF told = {} THEN {"other"} ELSE told)
        \/ /\ reading' = [files |-> reading.files + 1, told |-> told]
           /\ sample' = <<>> /\ UNCHANGED <<asserted, latched>>
    BY <1>7 DEF Thr!ReadReason
  <2> HIDE DEF told
  <2>6. (IF told = {} THEN {"other"} ELSE told) \subseteq Thr!Fields
    BY <2>4 DEF Thr!Fields
  <2>7. CASE Thr!Sampled(IF told = {} THEN {"other"} ELSE told)
    BY <2>6, <2>7, SampledStaysTyped
  <2>8. CASE /\ reading' = [files |-> reading.files + 1, told |-> told]
             /\ sample' = <<>> /\ UNCHANGED <<asserted, latched>>
    <3>1. reading'.told = told
      BY <2>8
    <3>2. QED
      BY <2>4, <2>8, <3>1 DEF ThrottleTyped, Thr!Fields
  <2>9. QED
    BY <2>5, <2>7, <2>8
<1>8. QED
  BY <1>1, <1>2, <1>3, <1>4, <1>5, <1>6, <1>7 DEF Thr!Next

\* A throttle reading is absence or a set of fields, one under way has files left.
LEMMA ThrottleAlwaysTyped == Spec2 => []Thr!TypeOK
<1>1. Thr!Init => ThrottleTyped
  BY DEF Thr!Init, ThrottleTyped, Thr!Fields
<1>2. ThrottleInv /\ ThrottleTyped => Thr!TypeOK
  BY ReasonFilesAreReasons DEF ThrottleInv, ThrottleTyped, Thr!TypeOK
<1>3. QED
  BY <1>1, <1>2, ThrottlePart, ThrottleStart, ThrottleSteps, ThrottleStaysTyped, PTL
\* Snapshots are snapshots, handles are of expanded streams, and no expansion is
\* later than the clock may be.
PdhTyped ==
  /\ served # None => served.snap \in Qry!Snapshot \union {None}
  /\ \A s \in Qry!Streams : mode[s] # "Expanded" => handles[s] = {}
  /\ expanded \in 0..MaxClock

\* Every action on the query keeps its type.
LEMMA PdhStaysTyped == PdhInv /\ PdhTyped /\ [Qry!Next]_qryVars => PdhTyped'
<1> SUFFICES ASSUME PdhInv, PdhTyped, [Qry!Next]_qryVars PROVE PdhTyped'
  OBVIOUS
<1>1. CASE UNCHANGED qryVars
  BY <1>1 DEF qryVars, PdhTyped, Qry!Snapshot
<1>2. CASE Qry!Reuse
  <2>1. served' = [snap |-> cache, stale |-> hollow]
        /\ UNCHANGED <<mode, handles, expanded>>
    BY <1>2 DEF Qry!Reuse
  <2>2. cache \in Qry!Snapshot \union {None}
    BY DEF PdhInv, PdhTypes
  <2>3. QED
    BY <2>1, <2>2 DEF PdhTyped, Qry!Snapshot
<1>3. ASSUME NEW status \in {"ok", "timeout", "absence", "failure"},
             NEW failed, NEW skip, Qry!Collect(status, failed, skip)
      PROVE  PdhTyped'
  <2> DEFINE snap == [at |-> clock, engine |-> Qry!Formatted("engine", handles', skip),
                      memory |-> Qry!Formatted("memory", handles', skip)]
  <2>1. clock \in 0..MaxClock /\ alive \subseteq Instances
        /\ cache \in Qry!Snapshot \union {None}
    BY DEF PdhInv, PdhTypes
  <2>2. snap \in Qry!Snapshot
    <3>1. /\ Qry!Formatted("engine", handles', skip) \subseteq alive
          /\ Qry!Formatted("memory", handles', skip) \subseteq alive
      BY DEF Qry!Formatted
    <3>2. QED
      BY <2>1, <3>1 DEF Qry!Snapshot
  <2>3. Qry!Nothing(clock) \in Qry!Snapshot /\ Qry!Nothing(0) \in Qry!Snapshot
    BY <2>1, PdhConstants DEF Qry!Nothing, Qry!Snapshot
  <2>4. served'.snap \in Qry!Snapshot \union {None}
    <3>1. CASE status = "ok"
      <4>1. served' = [snap |-> snap, stale |-> FALSE]
        BY <1>3, <3>1 DEF Qry!Collect
      <4> HIDE DEF snap
      <4>2. QED
        BY <2>2, <4>1
    <3>2. CASE status = "timeout"
      <4>1. served'.snap = (IF cache = None THEN Qry!Nothing(0) ELSE cache)
        BY <1>3, <3>2 DEF Qry!Collect
      <4>2. QED
        BY <2>1, <2>3, <4>1
    <3>3. CASE status = "absence"
      <4>1. served'.snap = Qry!Nothing(clock)
        BY <1>3, <3>3 DEF Qry!Collect
      <4>2. QED
        BY <2>3, <4>1
    <3>4. CASE status = "failure"
      <4>1. served'.snap = None
        BY <1>3, <3>4 DEF Qry!Collect
      <4>2. QED
        BY <4>1
    <3>5. QED
      BY <3>1, <3>2, <3>3, <3>4
  <2>5. \A s \in Qry!Streams : mode'[s] # "Expanded" => handles'[s] = {}
    BY <1>3 DEF Qry!Collect, PdhTyped
  <2>6. expanded' \in 0..MaxClock
    BY <1>3, <2>1 DEF Qry!Collect, PdhTyped
  <2>7. QED
    BY <2>4, <2>5, <2>6 DEF PdhTyped, Qry!Snapshot
<1>4. CASE Qry!Pass \/ Qry!SetBack \/ \E i \in Instances : Qry!Churn(i)
  <2>1. served' = None /\ UNCHANGED <<mode, handles, expanded>>
    BY <1>4 DEF Qry!Pass, Qry!SetBack, Qry!Churn
  <2>2. QED
    BY <2>1 DEF PdhTyped
<1>5. QED
  BY <1>1, <1>2, <1>3, <1>4 DEF Qry!Next

\* A snapshot is of the past unless the clock was set back, and only expanded
\* streams hold handles (SharedPdh).
LEMMA PdhAlwaysTyped == Spec2 => []Qry!TypeOK
<1>1. Qry!Init => PdhTyped
  BY PdhConstants DEF Qry!Init, PdhTyped
<1>2. PdhInv /\ PdhTyped => Qry!TypeOK
  BY DEF PdhInv, PdhTypes, HandlesAreRecent, CacheIsRecent, PdhTyped, Qry!TypeOK,
         Qry!Snapshot
<1>3. QED
  BY <1>1, <1>2, PdhPart, PdhStart, PdhSteps, PdhStaysTyped, PTL

\* A backend still to initialise is one of the system's, and so is each that did -
\* or there are none, and the mock stands in.
RegistryTyped ==
  /\ backends \in Seq(Reg!Range(Reg!RegistryOrder[os]))
  /\ \/ names \subseteq Reg!Range(Reg!RegistryOrder[os])
     \/ names = {"mock"} /\ backends = <<>>
  /\ \A j \in DOMAIN devices : devices[j].backend \in names
  /\ \A j \in DOMAIN listed : listed[j].backend \in names

\* A machine is some of the boards.
LEMMA RegistryStartsTyped == Reg!Init => RegistryTyped
<1> SUFFICES ASSUME Reg!Init PROVE RegistryTyped
  OBVIOUS
<1>1. backends \in {Reg!RegistryOrder[os], <<>>} /\ os \in {"linux", "windows", "macos"}
      /\ names = {} /\ listed = <<>> /\ devices = <<>>
  BY DEF Reg!Init
<1>2. \E n \in Nat : Reg!RegistryOrder[os] \in [1..n -> Reg!Range(Reg!RegistryOrder[os])]
  <2>1. Reg!RegistryOrder[os] \in {<<"nvidia", "amd", "intel">>, <<"nvidia", "wddm">>,
                                   <<"apple">>}
    BY <1>1 DEF Reg!RegistryOrder
  <2>2. \A a, b, c : <<a, b, c>> \in [1..3 -> Reg!Range(<<a, b, c>>)]
    BY DEF Reg!Range
  <2>3. \A a, b : <<a, b>> \in [1..2 -> Reg!Range(<<a, b>>)]
    BY DEF Reg!Range
  <2>4. \A a : <<a>> \in [1..1 -> Reg!Range(<<a>>)]
    BY DEF Reg!Range
  <2>5. 1 \in Nat /\ 2 \in Nat /\ 3 \in Nat
    OBVIOUS
  <2> DEFINE Ordered(o) == \E n \in Nat : o \in [1..n -> Reg!Range(o)]
  <2>6. /\ Ordered(<<"nvidia", "amd", "intel">>) /\ Ordered(<<"nvidia", "wddm">>)
        /\ Ordered(<<"apple">>)
    BY <2>2, <2>3, <2>4, <2>5
  <2> HIDE DEF Ordered
  <2>7. Ordered(Reg!RegistryOrder[os])
    BY <2>1, <2>6
  <2>8. QED
    BY <2>7 DEF Ordered
<1>3. Reg!RegistryOrder[os] \in Seq(Reg!Range(Reg!RegistryOrder[os]))
  BY <1>2
<1>4. <<>> \in Seq(Reg!Range(Reg!RegistryOrder[os]))
  OBVIOUS
<1>5. backends \in Seq(Reg!Range(Reg!RegistryOrder[os]))
  BY <1>1, <1>3, <1>4
<1>6. DOMAIN devices = {} /\ DOMAIN listed = {} /\ names \subseteq Reg!Range(Reg!RegistryOrder[os])
  BY <1>1
<1>7. QED
  BY <1>5, <1>6 DEF RegistryTyped

\* A listing is all of its backend's.
LEMMA ListingIsOf ==
  ASSUME NEW backend, NEW digits, NEW order, NEW anonymous,
         NEW i \in DOMAIN Reg!Listing(backend, digits, order, anonymous)
  PROVE  Reg!Listing(backend, digits, order, anonymous)[i].backend = backend
BY DEF Reg!Listing

\* A backend that initialises is the next in order, and lists under its name.
LEMMA InitialisedStaysTyped ==
  ASSUME RegistryInv, RegistryTyped, NEW backend, NEW listing \in Seq(Entries),
         Reg!NextIs(backend), Reg!Initialised(backend, listing),
         \A i \in DOMAIN listing : listing[i].backend = backend
  PROVE  RegistryTyped'
<1>1. /\ backends # <<>> /\ Head(backends) = backend /\ backends' = Tail(backends)
      /\ listed' = listed \o listing
      /\ names' = (IF listing = <<>> THEN names ELSE names \union {backend})
      /\ os' = os /\ devices' = devices
  BY DEF Reg!NextIs, Reg!Initialised
<1>2. names \subseteq Reg!Range(Reg!RegistryOrder[os])
  BY <1>1 DEF RegistryTyped
<1>3. backend \in Reg!Range(Reg!RegistryOrder[os])
      /\ backends' \in Seq(Reg!Range(Reg!RegistryOrder[os]))
  BY <1>1 DEF RegistryTyped
<1>4. names' \subseteq Reg!Range(Reg!RegistryOrder[os]) /\ names \subseteq names'
  BY <1>1, <1>2, <1>3
<1>5. listed \in Seq(Entries)
  BY DEF RegistryInv, RegistryTypes
<1>6. ASSUME NEW j \in DOMAIN listed'
      PROVE  listed'[j].backend \in names'
  <2>1. /\ j \in 1..(Len(listed) + Len(listing))
        /\ listed'[j] = IF j <= Len(listed) THEN listed[j] ELSE listing[j - Len(listed)]
    BY <1>1, <1>5, <1>6
  <2>2. CASE j <= Len(listed)
    <3>1. j \in DOMAIN listed
      BY <1>5, <2>1, <2>2
    <3>2. QED
      BY <1>4, <2>1, <2>2, <3>1 DEF RegistryTyped
  <2>3. CASE ~(j <= Len(listed))
    <3>1. j - Len(listed) \in DOMAIN listing
      BY <1>5, <2>1, <2>3
    <3>2. listing # <<>>
      BY <3>1
    <3>3. QED
      BY <1>1, <2>1, <2>3, <3>1, <3>2
  <2>4. QED
    BY <2>2, <2>3
<1>7. QED
  BY <1>1, <1>3, <1>4, <1>6 DEF RegistryTyped

\* Every step of a start keeps its type.
LEMMA RegistryStaysTyped ==
  RegistryInv /\ RegistryTyped /\ [Reg!Next]_regVars => RegistryTyped'
<1> SUFFICES ASSUME RegistryInv, RegistryTyped, [Reg!Next]_regVars
             PROVE  RegistryTyped'
  OBVIOUS
<1>0. machine \subseteq Boards /\ \A v : Reg!Of(v) \subseteq machine
  BY DEF RegistryInv, RegistryTypes, Reg!Of
<1>1. CASE UNCHANGED regVars
  BY <1>1 DEF regVars, RegistryTyped
<1>2. ASSUME NEW backend \in BackendNames, NEW digits \in {4, 8}, NEW found \in SUBSET machine,
             NEW order \in Reg!Orders(found), NEW anonymous, Reg!NextIs(backend),
             Reg!Initialised(backend, Reg!Listing(backend, digits, order, anonymous))
      PROVE  RegistryTyped'
  <2>1. found \in SUBSET Boards
    BY <1>0
  <2>2. order \in Seq(found)
    BY <2>1, OrdersAreSequences
  <2>3. Reg!Listing(backend, digits, order, anonymous) \in Seq(Entries)
    BY <2>1, <2>2, ListingIsEntries
  <2>4. \A i \in DOMAIN Reg!Listing(backend, digits, order, anonymous) :
          Reg!Listing(backend, digits, order, anonymous)[i].backend = backend
    BY ListingIsOf
  <2>5. PICK listing \in Seq(Entries) :
          listing = Reg!Listing(backend, digits, order, anonymous)
    BY <2>3
  <2>6. /\ Reg!Initialised(backend, listing)
        /\ \A i \in DOMAIN listing : listing[i].backend = backend
    BY <1>2, <2>4, <2>5
  <2>7. QED
    BY <1>2, <2>6, InitialisedStaysTyped
<1>3. CASE Reg!InitNvidia
  <2>1. PICK found \in SUBSET Reg!Of("nvidia"), told \in SUBSET machine :
          \E order \in Reg!Orders(found), anonymous \in SUBSET found :
            Reg!Initialised("nvidia", Reg!Listing("nvidia", 8, order, anonymous))
    BY <1>3 DEF Reg!InitNvidia
  <2>2. PICK order \in Reg!Orders(found), anonymous \in SUBSET found :
          Reg!Initialised("nvidia", Reg!Listing("nvidia", 8, order, anonymous))
    BY <2>1
  <2>3. Reg!NextIs("nvidia") /\ "nvidia" \in BackendNames /\ found \in SUBSET machine
    BY <1>0, <1>3 DEF Reg!InitNvidia, BackendNames
  <2>4. QED
    BY <1>2, <2>2, <2>3
<1>4. CASE Reg!InitWddm
  <2>1. PICK found \in SUBSET machine :
          \E order \in Reg!Orders(found), anonymous \in SUBSET found :
            Reg!Initialised("wddm", Reg!Listing("wddm", 4, order, anonymous))
    BY <1>4 DEF Reg!InitWddm
  <2>2. PICK order \in Reg!Orders(found), anonymous \in SUBSET found :
          Reg!Initialised("wddm", Reg!Listing("wddm", 4, order, anonymous))
    BY <2>1
  <2>3. Reg!NextIs("wddm") /\ "wddm" \in BackendNames
    BY <1>4 DEF Reg!InitWddm, BackendNames
  <2>4. QED
    BY <1>2, <2>2, <2>3
<1>5. CASE Reg!InitApple
  <2>1. PICK found \in SUBSET Reg!Of("apple") : \E order \in Reg!Orders(found) :
          Reg!Initialised("apple", Reg!Listing("apple", 4, order, found))
    BY <1>5 DEF Reg!InitApple
  <2>2. PICK order \in Reg!Orders(found) :
          Reg!Initialised("apple", Reg!Listing("apple", 4, order, found))
    BY <2>1
  <2>3. Reg!NextIs("apple") /\ "apple" \in BackendNames /\ found \in SUBSET machine
    BY <1>0, <1>5 DEF Reg!InitApple, BackendNames
  <2>4. QED
    BY <1>2, <2>2, <2>3
<1>6. ASSUME NEW vendor \in {"amd", "intel"}, Reg!InitDrm(vendor) PROVE RegistryTyped'
  <2>1. PICK found \in SUBSET Reg!Of(vendor) : \E order \in Reg!Orders(found) :
          Reg!Initialised(vendor, Reg!Listing(vendor, 4, order, {}))
    BY <1>6 DEF Reg!InitDrm
  <2>2. PICK order \in Reg!Orders(found) :
          Reg!Initialised(vendor, Reg!Listing(vendor, 4, order, {}))
    BY <2>1
  <2>3. Reg!NextIs(vendor) /\ vendor \in BackendNames /\ found \in SUBSET machine
    BY <1>0, <1>6 DEF Reg!InitDrm, BackendNames
  <2>4. QED
    BY <1>2, <2>2, <2>3
<1>7. CASE Reg!FallBackToMock
  <2> DEFINE E(i) == [backend |-> "mock", board |-> <<"mock", i>>, id |-> <<"mock", i>>]
  <2>1. /\ backends = <<>> /\ names = {} /\ names' = {"mock"}
        /\ listed' = [i \in 1..2 |-> E(i)]
        /\ UNCHANGED <<os, backends, devices>>
    BY <1>7 DEF Reg!FallBackToMock
  <2>2. \A i \in 1..2 : E(i).backend = "mock"
    OBVIOUS
  <2> HIDE DEF E
  <2>3. \A j \in DOMAIN listed' : listed'[j].backend = "mock"
    BY <2>1, <2>2
  <2>4. \A j \in DOMAIN devices : FALSE
    BY <2>1 DEF RegistryTyped
  <2>5. QED
    BY <2>1, <2>3, <2>4 DEF RegistryTyped
<1>8. ASSUME NEW answers \in BOOLEAN, Reg!Register(answers) PROVE RegistryTyped'
  <2>1. /\ listed # <<>> /\ listed' = Tail(listed)
        /\ devices' \in {devices, Append(devices, Head(listed))}
        /\ UNCHANGED <<os, names, backends>>
    BY <1>8 DEF Reg!Register
  <2>2. listed \in Seq(Entries) /\ devices \in Seq(Entries)
    BY DEF RegistryInv, RegistryTypes
  <2>3. \A j \in DOMAIN listed' : j + 1 \in DOMAIN listed /\ listed'[j] = listed[j + 1]
    BY <2>1, <2>2
  <2>4. 1 \in DOMAIN listed /\ Head(listed) = listed[1]
    BY <2>1, <2>2
  <2>5. Head(listed).backend \in names
    BY <2>4 DEF RegistryTyped
  <2>6. \A j \in DOMAIN devices' :
          \/ j \in DOMAIN devices /\ devices'[j] = devices[j]
          \/ devices'[j] = Head(listed)
    BY <2>1, <2>2
  <2>7. \A j \in DOMAIN devices' : devices'[j].backend \in names
    BY <2>5, <2>6 DEF RegistryTyped
  <2>8. \A j \in DOMAIN listed' : listed'[j].backend \in names
    BY <2>3 DEF RegistryTyped
  <2>9. QED
    BY <2>1, <2>7, <2>8 DEF RegistryTyped
<1>9. QED
  BY <1>1, <1>3, <1>4, <1>5, <1>6, <1>7, <1>8 DEF Reg!Next

\* Entries come from the backends of the system or from the mock alone, and the
\* addresses seen are exactly those registered (with_backends).
LEMMA RegistryAlwaysTyped == Spec2 => []Reg!TypeOK
<1>1. RegistryInv /\ RegistryTyped => Reg!TypeOK
  <2> SUFFICES ASSUME RegistryInv, RegistryTyped PROVE Reg!TypeOK
    OBVIOUS
  <2>1. \A e \in Reg!Range(devices) \union Reg!Range(listed) : e.backend \in names
    BY DEF RegistryTyped, Reg!Range
  <2>2. seen_pci = {Reg!normalize_pci_id(e.id) : e \in Reg!Range(devices)} \ {None}
    <3>1. \A key \in seen_pci : key # None /\ \E j \in DOMAIN devices : Key(devices[j]) = key
      BY DEF RegistryInv, SeenAreRegistered
    <3>2. \A j \in DOMAIN devices : Key(devices[j]) # None => Key(devices[j]) \in seen_pci
      BY DEF RegistryInv, SeenAreRegistered
    <3>3. QED
      BY <3>1, <3>2 DEF Key, Reg!Range
  <2>3. QED
    BY <2>1, <2>2 DEF RegistryTyped, Reg!TypeOK
<1>2. QED
  BY <1>1, RegistryPart, RegistryStart, RegistryStep, RegistryStartsTyped,
     RegistryStaysTyped, PTL
\* An answer's power is a rate or absent, and so is all of its rows.
AnswerTyped ==
  answer # None => /\ answer.power \in Prb!Rates \union {None}
                   /\ \A p \in DOMAIN answer.rows : answer.rows[p] \in Prb!Rows

ProbeTyped ==
  /\ energy \in [Cards -> Prb!Counts] /\ cputime \in [Pids -> Prb!Counts]
  /\ cpu \in [Pids -> Prb!Counts \union {None}]
  /\ power \in [Cards -> Prb!Readings \union {None}]
  /\ AnswerTyped

\* Bounds of the counters.
LEMMA CountConstants ==
  MaxCount \in Nat /\ MaxNow \in Nat \ {0} /\ None \notin Int
<1>1. MaxCount \in Nat
  BY EngineAssumption
<1>2. MaxNow \in Nat \ {0}
  BY EngineAssumption
<1>3. None \notin Int
  BY EngineAssumption
<1>4. QED
  BY <1>1, <1>2, <1>3

\* A delta is a rate: there is time in it.
LEMMA DeltaIsRate ==
  ASSUME NEW base \in Prb!Readings \union {None}, NEW count \in Prb!Counts, NEW now1 \in 0..MaxNow
  PROVE  Prb!Delta(base, count, now1) \in Prb!Rates \union {None}
<1>1. CASE base = None \/ now1 <= base.at \/ count < base.count
  BY <1>1 DEF Prb!Delta
<1>2. CASE ~(base = None \/ now1 <= base.at \/ count < base.count)
  <2>1. base.count \in 0..MaxCount /\ base.at \in 0..MaxNow /\ count \in 0..MaxCount
    BY <1>2 DEF Prb!Readings, Prb!Counts
  <2>2. count - base.count \in 0..MaxCount /\ now1 - base.at \in 1..MaxNow
    BY <1>2, <2>1, CountConstants
  <2>3. Prb!Delta(base, count, now1) = [count |-> count - base.count, span |-> now1 - base.at]
    BY <1>2 DEF Prb!Delta
  <2>4. QED
    BY <2>2, <2>3 DEF Prb!Rates, Prb!Counts
<1>3. QED
  BY <1>1, <1>2

\* A processor rate is a count or absent.
LEMMA CpuRateIsCount ==
  ASSUME ProbeTyped, NEW p \in Pids
  PROVE  Prb!CpuRate(p) \in Prb!Counts \union {None}
<1>1. cputime[p] \in 0..MaxCount /\ cpu[p] \in 0..MaxCount \union {None}
  BY DEF ProbeTyped, Prb!Counts
<1>2. CASE cpu[p] = None \/ cputime[p] < cpu[p]
  BY <1>2 DEF Prb!CpuRate
<1>3. CASE ~(cpu[p] = None \/ cputime[p] < cpu[p])
  <2>1. cputime[p] - cpu[p] \in 0..MaxCount
    BY <1>1, <1>3, CountConstants
  <2>2. QED
    BY <1>3, <2>1 DEF Prb!CpuRate, Prb!Counts
<1>4. QED
  BY <1>2, <1>3

\* The CPU baselines are counters read, or none.
LEMMA SamplesStayTyped ==
  ASSUME ProbeTyped, NEW live, NEW readable, Prb!SampleAndPrune(live, readable)
  PROVE  cpu' \in [Pids -> Prb!Counts \union {None}]
BY DEF ProbeTyped, Prb!SampleAndPrune

\* Between refreshes there is no answer, and counters keep to their bounds.
LEMMA KernelStaysTyped ==
  ASSUME ProbeTyped, answer' = None, UNCHANGED <<cpu, power>>,
         \/ energy' = energy
         \/ \E d \in Cards : /\ energy[d] < MaxCount
                             /\ energy' = [energy EXCEPT ![d] = @ + 1]
         \/ \E d \in Cards : energy' = [energy EXCEPT ![d] = 0],
         \/ cputime' = cputime
         \/ \E p \in Pids : /\ cputime[p] < MaxCount
                            /\ cputime' = [cputime EXCEPT ![p] = @ + 1]
         \/ \E p \in Pids : cputime' = [cputime EXCEPT ![p] = 0]
  PROVE  ProbeTyped'
<1>0. MaxCount \in Nat
  BY CountConstants
<1>1. energy \in [Cards -> 0..MaxCount] /\ cputime \in [Pids -> 0..MaxCount]
  BY DEF ProbeTyped, Prb!Counts
<1>2. energy' \in [Cards -> 0..MaxCount]
  <2>1. ASSUME NEW d \in Cards, energy[d] < MaxCount,
               energy' = [energy EXCEPT ![d] = @ + 1]
        PROVE  energy' \in [Cards -> 0..MaxCount]
    <3>1. energy[d] + 1 \in 0..MaxCount
      BY <1>0, <1>1, <2>1
    <3>2. QED
      BY <1>1, <2>1, <3>1
  <2>2. ASSUME NEW d \in Cards, energy' = [energy EXCEPT ![d] = 0]
        PROVE  energy' \in [Cards -> 0..MaxCount]
    BY <1>0, <1>1, <2>2
  <2>3. QED
    BY <1>1, <2>1, <2>2
<1>3. cputime' \in [Pids -> 0..MaxCount]
  <2>1. ASSUME NEW p \in Pids, cputime[p] < MaxCount,
               cputime' = [cputime EXCEPT ![p] = @ + 1]
        PROVE  cputime' \in [Pids -> 0..MaxCount]
    <3>1. cputime[p] + 1 \in 0..MaxCount
      BY <1>0, <1>1, <2>1
    <3>2. QED
      BY <1>1, <2>1, <3>1
  <2>2. ASSUME NEW p \in Pids, cputime' = [cputime EXCEPT ![p] = 0]
        PROVE  cputime' \in [Pids -> 0..MaxCount]
    BY <1>0, <1>1, <2>2
  <2>3. QED
    BY <1>1, <2>1, <2>2
<1>4. AnswerTyped'
  BY DEF AnswerTyped
<1>5. QED
  BY <1>2, <1>3, <1>4 DEF ProbeTyped, Prb!Counts

\* What Linux's fdinfo drivers answer is typed.
LEMMA FdinfoStaysTyped ==
  ASSUME ProbeInv, ProbeTyped, NEW d \in Cards, NEW h \in SUBSET Prb!Clients(d), NEW u,
         Prb!RefreshFdinfo(d, h, u)
  PROVE  ProbeTyped'
<1> DEFINE live == {p \in Pids : Prb!Readable(d, p, h) # {}}
           stamp == IF dialect = "cycles" THEN cycles ELSE wall
<1>1. PICK read \in [live -> 0..MaxCount \union {None}] :
        /\ answer' = Prb!Answer(d, [p \in live |->
             [util |-> IF read[p] = None THEN None
                       ELSE Prb!Delta(engine[d][p], read[p], stamp),
              cpu  |-> IF p \in u THEN None ELSE Prb!CpuRate(p)]], None)
        /\ Prb!SampleAndPrune(live, Pids \ u)
        /\ UNCHANGED <<energy, cputime, power>>
  BY DEF Prb!RefreshFdinfo, Prb!kernel
<1>2. live \subseteq Pids
  OBVIOUS
<1>3. stamp \in 0..MaxNow
  BY DEF ProbeInv, ProbeTypes
<1>4. \A p \in live : engine[d][p] \in Prb!Readings \union {None}
  BY <1>2 DEF ProbeInv, ProbeTypes
<1>5. cpu' \in [Pids -> Prb!Counts \union {None}]
  BY <1>1, SamplesStayTyped
<1> DEFINE row(p) == [util |-> IF read[p] = None THEN None
                               ELSE Prb!Delta(engine[d][p], read[p], stamp),
                      cpu  |-> IF p \in u THEN None ELSE Prb!CpuRate(p)]
<1> HIDE DEF live, stamp
<1>6. ASSUME NEW p \in live PROVE row(p) \in Prb!Rows
  <2>1. (IF p \in u THEN None ELSE Prb!CpuRate(p)) \in Prb!Counts \union {None}
    BY <1>2, CpuRateIsCount
  <2>2. (IF read[p] = None THEN None ELSE Prb!Delta(engine[d][p], read[p], stamp))
          \in Prb!Rates \union {None}
    <3>1. CASE read[p] = None
      BY <3>1
    <3>2. CASE read[p] # None
      <4>1. read[p] \in Prb!Counts
        BY <3>2 DEF Prb!Counts
      <4>2. QED
        BY <1>3, <1>4, <3>2, <4>1, DeltaIsRate
    <3>3. QED
      BY <3>1, <3>2
  <2>3. QED
    BY <2>1, <2>2 DEF Prb!Rows
<1>7. answer' = Prb!Answer(d, [p \in live |-> row(p)], None)
  BY <1>1
<1> HIDE DEF row
<1>8. /\ answer'.power = None /\ answer'.rows = [p \in live |-> row(p)]
  BY <1>7 DEF Prb!Answer
<1>9. AnswerTyped'
  <2>1. \A p \in DOMAIN answer'.rows : answer'.rows[p] \in Prb!Rows
    BY <1>6, <1>8
  <2>2. QED
    BY <1>8, <2>1 DEF AnswerTyped
<1>10. QED
  BY <1>1, <1>5, <1>9 DEF ProbeTyped

\* What NVML's driver answers is typed.
LEMMA NvmlStaysTyped ==
  ASSUME ProbeInv, ProbeTyped, NEW d \in Cards, NEW h \in SUBSET Prb!Users(d), NEW u,
         Prb!RefreshNvml(d, h, u)
  PROVE  ProbeTyped'
<1> DEFINE live == Prb!Users(d) \ h
<1>1. PICK told \in [live -> usage[d] \union {None}] :
        /\ answer' = Prb!Answer(d, [p \in live |->
             [util |-> told[p], cpu |-> IF p \in u THEN None ELSE Prb!CpuRate(p)]], None)
        /\ Prb!SampleAndPrune(live, Pids \ u)
        /\ UNCHANGED <<energy, cputime, power>>
  BY DEF Prb!RefreshNvml, Prb!kernel
<1>2. live \subseteq Pids
  BY DEF Prb!Users
<1>3. usage[d] \subseteq Prb!UtilSamples
  BY DEF ProbeInv, ProbeTypes
<1>5. cpu' \in [Pids -> Prb!Counts \union {None}]
  BY <1>1, SamplesStayTyped
<1> DEFINE row(p) == [util |-> told[p], cpu |-> IF p \in u THEN None ELSE Prb!CpuRate(p)]
<1> HIDE DEF live
<1>6. ASSUME NEW p \in live PROVE row(p) \in Prb!Rows
  <2>1. (IF p \in u THEN None ELSE Prb!CpuRate(p)) \in Prb!Counts \union {None}
    BY <1>2, CpuRateIsCount
  <2>2. told[p] \in Prb!UtilSamples \union {None}
    BY <1>3
  <2>3. QED
    BY <2>1, <2>2 DEF Prb!Rows
<1>7. answer' = Prb!Answer(d, [p \in live |-> row(p)], None)
  BY <1>1
<1> HIDE DEF row
<1>8. /\ answer'.power = None /\ answer'.rows = [p \in live |-> row(p)]
  BY <1>7 DEF Prb!Answer
<1>9. AnswerTyped'
  <2>1. \A p \in DOMAIN answer'.rows : answer'.rows[p] \in Prb!Rows
    BY <1>6, <1>8
  <2>2. QED
    BY <1>8, <2>1 DEF AnswerTyped
<1>10. QED
  BY <1>1, <1>5, <1>9 DEF ProbeTyped

\* What the energy counter is made into is typed.
LEMMA EnergyStaysTyped ==
  ASSUME ProbeInv, ProbeTyped, NEW d \in Cards, NEW legible \in BOOLEAN,
         Prb!RefreshEnergy(d, legible)
  PROVE  ProbeTyped'
<1>1. /\ answer' = Prb!Answer(d, [p \in {} |-> None],
                      IF legible THEN Prb!Delta(power[d], energy[d], wall) ELSE None)
      /\ power' = IF legible THEN [power EXCEPT ![d] = [count |-> energy[d], at |-> wall]]
                  ELSE power
      /\ UNCHANGED <<energy, cputime, cpu>>
  BY DEF Prb!RefreshEnergy, Prb!kernel
<1>2. wall \in 0..MaxNow /\ energy[d] \in Prb!Counts /\ power[d] \in Prb!Readings \union {None}
  BY DEF ProbeInv, ProbeTypes, ProbeTyped
<1>3. Prb!Delta(power[d], energy[d], wall) \in Prb!Rates \union {None}
  BY <1>2, DeltaIsRate
<1>4. [count |-> energy[d], at |-> wall] \in Prb!Readings
  BY <1>2 DEF Prb!Readings
<1>5. power' \in [Cards -> Prb!Readings \union {None}]
  <2>1. PICK r \in Prb!Readings : r = [count |-> energy[d], at |-> wall]
    BY <1>4
  <2>2. power' \in {power, [power EXCEPT ![d] = r]}
    BY <1>1, <2>1
  <2>3. QED
    BY <2>2 DEF ProbeTyped
<1>6. /\ answer'.power = (IF legible THEN Prb!Delta(power[d], energy[d], wall) ELSE None)
      /\ DOMAIN answer'.rows = {}
  BY <1>1 DEF Prb!Answer
<1>7. AnswerTyped'
  BY <1>3, <1>6 DEF AnswerTyped
<1>8. QED
  BY <1>1, <1>5, <1>7 DEF ProbeTyped

\* Every action of clients and refreshes keeps the type.
LEMMA ProbesStayTyped ==
  ProbeInv /\ ProbeTyped /\ [Prb!Next]_prbVars => ProbeTyped'
<1> SUFFICES ASSUME ProbeInv, ProbeTyped, [Prb!Next]_prbVars PROVE ProbeTyped'
  OBVIOUS
<1>1. CASE UNCHANGED prbVars
  BY <1>1 DEF prbVars, ProbeTyped, AnswerTyped
<1>2. CASE \/ \E d \in Cards, p \in Pids, f \in Fds :
                  Prb!Close(d, p, f) \/ \E n \in 0..MaxCount : Prb!Open(d, p, f, n)
           \/ \E d \in Cards : \E busy \in SUBSET Prb!Clients(d) : Prb!Work(d, busy)
  <2>1. /\ answer' = None /\ UNCHANGED <<cpu, power, energy>>
        /\ cputime' = cputime \/ \E p \in Pids : cputime' = [cputime EXCEPT ![p] = 0]
    BY <1>2 DEF Prb!Open, Prb!Close, Prb!Work, Prb!backend
  <2>2. QED
    BY <2>1, KernelStaysTyped
<1>3. ASSUME NEW p \in Pids, Prb!Compute(p) PROVE ProbeTyped'
  <2>1. /\ answer' = None /\ UNCHANGED <<cpu, power, energy>>
        /\ cputime[p] < MaxCount /\ cputime' = [cputime EXCEPT ![p] = @ + 1]
    BY <1>3 DEF Prb!Compute, Prb!backend
  <2>2. QED
    BY <2>1, KernelStaysTyped
<1>4. CASE Prb!SetBack
  <2>1. answer' = None /\ UNCHANGED <<cpu, power, energy, cputime>>
    BY <1>4 DEF Prb!SetBack, Prb!backend
  <2>2. QED
    BY <2>1, KernelStaysTyped
<1>5. ASSUME NEW d \in Cards, Prb!Draw(d) \/ Prb!ResetEnergy(d) PROVE ProbeTyped'
  <2>1. /\ answer' = None /\ UNCHANGED <<cpu, power, cputime>>
        /\ \/ energy[d] < MaxCount /\ energy' = [energy EXCEPT ![d] = @ + 1]
           \/ energy' = [energy EXCEPT ![d] = 0]
    BY <1>5 DEF Prb!Draw, Prb!ResetEnergy, Prb!backend
  <2>2. QED
    BY <2>1, KernelStaysTyped
<1>6. CASE \E d \in Cards : \E u \in SUBSET Prb!Users(d) :
             \/ \E h \in SUBSET Prb!Clients(d) : Prb!RefreshFdinfo(d, h, u)
             \/ \E h \in SUBSET Prb!Users(d) : Prb!RefreshNvml(d, h, u)
  BY <1>6, FdinfoStaysTyped, NvmlStaysTyped
<1>7. ASSUME NEW d \in Cards, NEW legible \in BOOLEAN, Prb!RefreshEnergy(d, legible)
      PROVE  ProbeTyped'
  BY <1>7, EnergyStaysTyped
<1>8. QED
  BY <1>1, <1>2, <1>3, <1>4, <1>5, <1>6, <1>7 DEF Prb!Next

\* Counters, baselines and answers stay within their bounds, and a rate has time
\* in it (refresh_processes, refresh_dynamic, CpuTracker).
LEMMA ProbesAlwaysTyped == Spec2 => []Prb!TypeOK
<1>1. Prb!Init => ProbeTyped
  BY CountConstants DEF Prb!Init, ProbeTyped, AnswerTyped, Prb!Counts
<1>2. ProbeInv /\ ProbeTyped => Prb!TypeOK
  BY DEF ProbeInv, ProbeTypes, ProbeTyped, AnswerTyped, Prb!TypeOK
<1>3. QED
  BY <1>1, <1>2, ProbesPart, ProbesStart, ProbesStep, ProbesStayTyped, PTL
\* Where the loop may go, and that one panic more never passes the cap.
LoopTyped ==
  /\ then \in {None, "sleep", "finish", "ended"}
  /\ panicked \in 0..MAX_CONSECUTIVE_PANICS
  /\ pc \in {"tick", "sleep"} \/ (pc = "emit" /\ then = "sleep") =>
       panicked < MAX_CONSECUTIVE_PANICS

\* Every action of a session keeps its type.
LEMMA LoopStaysTyped == StreamInv /\ LoopTyped /\ [Out!Next]_outVars => LoopTyped'
<1> SUFFICES ASSUME StreamInv, LoopTyped, [Out!Next]_outVars PROVE LoopTyped'
  OBVIOUS
<1>0. MAX_CONSECUTIVE_PANICS \in Nat \ {0}
  BY LimitsAssumption
<1>1. CASE UNCHANGED outVars
  BY <1>1 DEF outVars, LoopTyped
<1>2. ASSUME NEW facts, NEW failed, Out!Tick(facts, failed) PROVE LoopTyped'
  <2>1. panicked' = 0 /\ then' \in {"finish", "sleep"}
    BY <1>2 DEF Out!Tick
  <2>2. QED
    BY <1>0, <2>1 DEF LoopTyped
<1>3. ASSUME NEW failed, Out!PanickedTick(failed) PROVE LoopTyped'
  <2>1. /\ pc = "tick" /\ panicked' = panicked + 1 /\ pc' = "emit"
        /\ then' = IF panicked' >= MAX_CONSECUTIVE_PANICS THEN "finish" ELSE "sleep"
    BY <1>3 DEF Out!PanickedTick
  <2>2. QED
    BY <1>0, <2>1 DEF LoopTyped
<1>4. ASSUME NEW failed, Out!EmitLine(failed) PROVE LoopTyped'
  <2>1. /\ pc = "emit" /\ panicked' = panicked
        /\ \/ pc' = "ended" /\ then' = None
           \/ pc' = pc /\ then' = then
    BY <1>4 DEF Out!EmitLine
  <2>2. QED
    BY <2>1 DEF LoopTyped
<1>5. ASSUME NEW failed, Out!EmitStopMark(failed) \/ Out!Drop(failed) PROVE LoopTyped'
  <2>1. /\ panicked' = panicked
        /\ \/ pc' = "emit" /\ then' = "ended"
           \/ pc' = "dropped" /\ then' = then
    BY <1>5 DEF Out!EmitStopMark, Out!Drop
  <2>2. QED
    BY <2>1 DEF LoopTyped
<1>6. CASE Out!Emitted
  <2>1. /\ pc = "emit" /\ pc' = then /\ then' = None /\ panicked' = panicked
    BY <1>6 DEF Out!Emitted
  <2>2. then \in {"sleep", "finish", "ended"}
    BY <2>1 DEF StreamInv, StreamTypes
  <2>3. QED
    BY <2>1, <2>2 DEF LoopTyped
<1>7. CASE Out!Sleep \/ Out!HangUp
  <2>1. /\ panicked' = panicked /\ then' = then
        /\ pc' = pc \/ (pc = "sleep" /\ pc' = "tick")
    BY <1>7 DEF Out!Sleep, Out!HangUp
  <2>2. QED
    BY <2>1 DEF LoopTyped
<1>8. QED
  BY <1>1, <1>2, <1>3, <1>4, <1>5, <1>6, <1>7 DEF Out!Next

\* What a sequence remembers of the end of another is a suffix of it.
LEMMA TailIsSuffix ==
  ASSUME NEW w \in Seq(Int), NEW t \in Seq(Int), Len(w) <= Len(t),
         \A k \in 1..Len(w) : w[k] = t[Len(t) - Len(w) + k]
  PROVE  Out!IsSuffix(w, t)
<1>1. PICK n \in Nat : n = Len(w)
  OBVIOUS
<1>2. PICK l \in Nat : l = Len(t)
  OBVIOUS
<1>3. n <= l
  BY <1>1, <1>2
<1>4. \A s \in Seq(Int) : /\ Out!Reverse(s) = [i \in 1..Len(s) |-> s[(Len(s) - i) + 1]]
                          /\ Out!Reverse(s) \in Seq(Int) /\ Len(Out!Reverse(s)) = Len(s)
  <2>1. ASSUME NEW s \in Seq(Int)
        PROVE  /\ Out!Reverse(s) = [i \in 1..Len(s) |-> s[(Len(s) - i) + 1]]
               /\ Out!Reverse(s) \in Seq(Int) /\ Len(Out!Reverse(s)) = Len(s)
    <3>1. PICK m \in Nat : m = Len(s)
      OBVIOUS
    <3>2. \A i \in 1..m : (m - i) + 1 \in 1..m
      BY <3>1
    <3>3. \A i \in 1..m : s[(m - i) + 1] \in Int
      BY <3>1, <3>2
    <3>4. Out!Reverse(s) = [i \in 1..m |-> s[(m - i) + 1]]
      BY <3>1 DEF Out!Reverse
    <3>5. QED
      BY <3>1, <3>3, <3>4
  <2>2. QED
    BY <2>1
<1>5. PICK a \in Seq(Int) : a = Out!Reverse(w)
  BY <1>4
<1>6. PICK b \in Seq(Int) : b = Out!Reverse(t)
  BY <1>4
<1>7. Len(a) = n /\ Len(b) = l
  BY <1>1, <1>2, <1>4, <1>5, <1>6
<1>8. \A i \in 1..n : a[i] = b[i]
  <2>1. ASSUME NEW i \in 1..n PROVE a[i] = b[i]
    <3>1. a[i] = w[(n - i) + 1]
      <4>1. a = [j \in 1..n |-> w[(n - j) + 1]]
        BY <1>1, <1>4, <1>5
      <4>2. QED
        BY <4>1
    <3>2. i \in 1..l
      BY <1>3
    <3>3. b[i] = t[(l - i) + 1]
      BY <1>2, <1>4, <1>6, <3>2
    <3>4. (n - i) + 1 \in 1..n /\ l - n + ((n - i) + 1) = (l - i) + 1
      OBVIOUS
    <3>5. w[(n - i) + 1] = t[l - n + ((n - i) + 1)]
      BY <1>1, <1>2, <3>4
    <3>6. QED
      BY <3>1, <3>3, <3>4, <3>5
  <2>2. QED
    BY <2>1
<1>9. SubSeq(a, 1, n) = SubSeq(b, 1, n)
  <2>1. /\ SubSeq(a, 1, n) = [i \in 1..n |-> a[i]]
        /\ SubSeq(b, 1, n) = [i \in 1..n |-> b[i]]
    BY <1>3, <1>7
  <2>2. QED
    BY <1>8, <2>1
<1>10. QED
  BY <1>3, <1>5, <1>6, <1>7, <1>9 DEF Out!IsSuffix, Out!IsPrefix

\* The queue is for emitting, the window is the sink's memory of its spawns, and
\* the panics in a row stop at the cap (run_json, EventSink, tick_guarded).
LEMMA StreamAlwaysTyped == Spec2 => []Out!TypeOK
<1>1. Out!Init => SinkInv /\ StreamInv /\ LoopTyped
  <2>1. Out!Init => LoopTyped
    BY LimitsAssumption DEF Out!Init, LoopTyped
  <2>2. QED
    BY <2>1, SinkStart, StreamStart
<1>2. SinkInv /\ StreamInv /\ LoopTyped => Out!TypeOK
  <2> SUFFICES ASSUME SinkInv, StreamInv, LoopTyped PROVE Out!TypeOK
    OBVIOUS
  <2>1. Remembers(Out!Recent(window)) /\ spawns \in Seq(Int)
    BY RecentRemembers DEF SinkInv
  <2>2. Out!IsSuffix(Out!Recent(window), spawns)
    <3>1. PICK w \in Seq(Int) : w = Out!Recent(window)
      BY <2>1 DEF Remembers
    <3>2. Len(w) <= Len(spawns) /\ \A k \in 1..Len(w) : w[k] = spawns[Len(spawns) - Len(w) + k]
      BY <2>1, <3>1 DEF Remembers
    <3>3. Out!IsSuffix(w, spawns)
      BY <2>1, <3>2, TailIsSuffix
    <3>4. QED
      BY <3>1, <3>3
  <2>3. QED
    BY <2>2 DEF StreamInv, StreamTypes, LoopTyped, Out!TypeOK
<1>3. QED
  BY <1>1, <1>2, StreamPart, StreamSteps, LoopStaysTyped, PTL

\* Every part around a tick stays in its type, for all values of the constants:
\* counters and clocks within their bounds, places and modes among those there
\* are, and where two pieces of state are one thing said twice - the sink's window
\* and its spawns, the addresses seen and the devices registered, the cache and
\* the clock - they agree.
THEOREM TypesAlwaysOK == Spec2 => []TypesOK
<1>1. Spec2 => []TypeOK
  <2>1. Spec2 => Spec
    <3>1. Init2 => Init
      BY DEF Init2
    <3>2. [Next2]_<<setting, vars, outVars, regVars, prbVars, thrVars,
                    qryVars, figVars, socVars, mckVars, rowVars, dmoVars>>
            => [Next]_vars
      BY DEF Next2
    <3>3. QED
      BY <3>1, <3>2, PTL DEF Spec2, Spec
  <2>2. QED
    BY <2>1, TypeCorrect, PTL
<1>2. Spec2 => [](Fig!TypeOK /\ Row!TypeOK /\ Soc!TypeOK)
  BY FiguresHold, RollupHolds, SocHolds, PTL
<1>3. QED
  BY <1>1, <1>2, StreamAlwaysTyped, RegistryAlwaysTyped, ProbesAlwaysTyped,
     ThrottleAlwaysTyped, PdhAlwaysTyped, MockStaysTyped, DemoStaysTyped, PTL
     DEF TypesOK
=============================================================================
