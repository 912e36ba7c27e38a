-------------------------------- MODULE Soc --------------------------------
(***************************************************************************)
(* What the Apple backend makes of one interval's raw counters             *)
(* (core/src/apple.rs, `parse`): utilization and clock from the residency  *)
(* of the GPU's performance states, the clock table from the firmware's    *)
(* blob, power from an energy delta. The tier that will feed them is a     *)
(* stub in this build; the maths ships ahead of it, with its tests.        *)
(*                                                                         *)
(* Init picks what the hardware did and how this chip encodes it; Read is  *)
(* one sample, and the property compares it with what the hardware did.    *)
(***************************************************************************)
EXTENDS Integers, Sequences, FiniteSetsExt

CONSTANTS
  Inventories, \* state names of a channel, in channel order
  Clocks,      \* clocks a chip has, in MHz
  Ticks,       \* ticks a state may hold in an interval
  Draws,       \* energies of an interval, in mJ
  Intervals,   \* lengths of an interval, in ms
  None

VARIABLES
  states,      \* the residency channel: sequence of [name, ticks]
  table,       \* the chip's clocks, ascending
  scale,       \* how many units of the blob make a MHz
  drawn, label, dt, \* the energy of the interval, its counter's unit, its length
  reading      \* what the sample says, or None

vars == <<states, table, scale, drawn, label, dt, reading>>

\* What a utilization is: active ticks of all ticks.
Share == [active : Nat, total : Nat]

\* Clocks whose unit normalize_mhz tells, in MHz.
Tellable == 10..9999

SocAssumption ==
  /\ \A names \in Inventories : DOMAIN names = 1..Len(names) /\ Len(names) \in Nat
  /\ Clocks \subseteq Tellable
  /\ Ticks \subseteq Nat /\ Draws \subseteq Nat /\ Intervals \subseteq Nat
  /\ None \notin Nat /\ None \notin Share

\* Units in a mJ, and in a MHz; a chip may also label its energy otherwise.
UnitsInMj == [mJ |-> 1, uJ |-> 1000, nJ |-> 1000000]
Labels == DOMAIN UnitsInMj \union {"J"}
Scales == {1, 1000, 1000000}
Words == 2147483647   \* bound of a word of the blob

Tables == {cs \in UNION {[1..n -> Clocks] : n \in 0..Cardinality(Clocks)} :
             \A i, j \in DOMAIN cs : i < j => cs[i] < cs[j]}

Init ==
  /\ \E names \in Inventories :
       states \in {[i \in DOMAIN names |-> [name |-> names[i], ticks |-> t[i]]] :
                     t \in [DOMAIN names -> Ticks]}
  /\ table \in Tables
  /\ scale \in {u \in Scales : \A i \in DOMAIN table : table[i] <= Words \div u}
  /\ drawn \in Draws /\ label \in Labels /\ dt \in Intervals
  /\ reading = None

\* The blob: a zero row first, then the clocks in the chip's unit.
Blob == <<0>> \o [i \in 1..Len(table) |-> table[i] * scale]

\* Off, and whatever is called idle; a name nobody knows is active.
is_idle_state(n) == n \in {"OFF", "IDLE", "IDLE_OFF"}

Active == {i \in DOMAIN states : ~is_idle_state(states[i].name)}

\* The position that what is at i takes among what is at S.
Place(i, S) == Cardinality({j \in S : j <= i})

Spent(S) == MapThenSumSet(LAMBDA i : states[i].ticks, S)

\* Active ticks over all ticks; None where the interval has none.
util_pct_from_residency ==
  LET total == Spent(DOMAIN states)
  IN IF total = 0 THEN None ELSE [active |-> Spent(Active), total |-> total]

\* The mean clock of the active states, rounded; they pair with the table by
\* position, and not at all where their numbers differ.
weighted_freq_mhz(dvfs) ==
  LET ticks == Spent(Active)
      weighted == MapThenSumSet(LAMBDA i : states[i].ticks * dvfs[Place(i, Active)], Active)
  IN IF Active = {} \/ Cardinality(Active) # Len(dvfs) THEN None
     ELSE IF ticks = 0 THEN 0
     ELSE (weighted + ticks \div 2) \div ticks

normalize_mhz(raw) ==
  IF raw >= 10000000 THEN raw \div 1000000
  ELSE IF raw >= 10000 THEN raw \div 1000 ELSE raw

\* Zero rows are dropped.
parse_voltage_states(raw) ==
  LET kept == {i \in DOMAIN raw : raw[i] # 0}
  IN [k \in 1..Cardinality(kept) |->
        normalize_mhz(raw[CHOOSE i \in kept : Place(i, kept) = k])]

\* mJ per second, rounded; None without an interval or a known unit.
power_mw_from_energy(delta) ==
  IF dt = 0 \/ label \notin DOMAIN UnitsInMj THEN None
  ELSE LET per == dt * (UnitsInMj[label] \div 1000)  \* units that make 1 mW
       IN IF label = "mJ" THEN (2 * delta * 1000 + dt) \div (2 * dt)
          ELSE (2 * delta + per) \div (2 * per)

Read ==
  /\ reading = None
  /\ LET dvfs == parse_voltage_states(Blob)
         delta == drawn * (IF label \in DOMAIN UnitsInMj THEN UnitsInMj[label] ELSE 1)
     IN reading' = [util |-> util_pct_from_residency, freq |-> weighted_freq_mhz(dvfs),
                    table |-> dvfs, power |-> power_mw_from_energy(delta)]
  /\ UNCHANGED <<states, table, scale, drawn, label, dt>>

-----------------------------------------------------------------------------
(* Properties *)

TypeOK == reading # None => /\ reading.util \in Share \union {None}
                            /\ reading.freq \in Nat \union {None}
                            /\ reading.power \in Nat \union {None}

\* However the chip encodes it, a sample says what the hardware did: the clocks
\* it has, a clock among them exactly when it was seen busy, no utilization of
\* an interval without ticks, and the same power in whichever unit, to the mW.
SampleIsTrue ==
  reading # None =>
    LET util == reading.util
        freq == reading.freq
    IN /\ reading.table = table
       /\ util = None <=> \A i \in DOMAIN states : states[i].ticks = 0
       /\ util # None /\ freq # None => (util.active = 0 <=> freq = 0)
       /\ freq \notin {None, 0} =>
            freq >= table[1] /\ freq <= table[Len(table)]
       /\ dt = 0 => reading.power = None
       /\ reading.power # None =>
            LET off == reading.power * dt - drawn * 1000
            IN 2 * off <= dt /\ 2 * off >= -dt
=============================================================================
