------------------------------ MODULE Throttle ------------------------------
(***************************************************************************)
(* How each backend observes throttling (core/src/nvidia.rs, amd.rs,       *)
(* intel.rs; wddm.rs and apple.rs cannot). The driver asserts and releases *)
(* limits at any time. NVML answers one bitmask and amdgpu one blob, each  *)
(* of one moment; Intel publishes a file per reason, and the backend reads *)
(* them one after the other while the driver moves on.                     *)
(*                                                                         *)
(* A reading is None (unobservable) or the set of ThrottleReasons fields   *)
(* that are true; the empty set asserts "not throttling".                  *)
(***************************************************************************)
EXTENDS Integers, Sequences, FiniteSets

CONSTANTS
  Sources,     \* the drivers modelled: "nvml", "amdgpu", "intel", "none"
  Bits,        \* the limits the model's drivers may assert
  MaxAsserted, \* how many at once (a bound of the model)
  None

VARIABLES
  source,   \* the driver of the device
  revision, \* <<format_revision, content_revision>> of its gpu_metrics
  written,  \* the throttle words its firmware writes
  asserted, \* the limits in force now
  latched,  \* Intel: reason files that say 1 (some outlive their limit)
  reading,  \* Intel: how many reason files throttle() read, and what it has
  seen,     \* what was in force at some moment since the reading began
  sample    \* <<reading>> right after one ended, else <<>>

vars == <<source, revision, written, asserted, latched, reading, seen, sample>>

-----------------------------------------------------------------------------
(* The drivers' vocabularies *)

NvmlBits ==
  [SW_POWER_CAP |-> "power_cap",
   SW_THERMAL_SLOWDOWN |-> "thermal", HW_THERMAL_SLOWDOWN |-> "thermal",
   HW_SLOWDOWN |-> "hw_slowdown", HW_POWER_BRAKE_SLOWDOWN |-> "hw_slowdown",
   SYNC_BOOST |-> "sync_boost",
   APPLICATIONS_CLOCKS_SETTING |-> "other", DISPLAY_CLOCK_SETTING |-> "other"]

\* The bits of indep_throttle_status by the masks that collect them.
IndepGroups ==
  [TEMP |-> "thermal", VRHOT |-> "thermal",
   PPT |-> "power_cap", TDC |-> "power_cap", EDC |-> "power_cap",
   PROCHOT |-> "hw_slowdown", APCC |-> "other", PPM |-> "other", FIT |-> "other"]

IntelReasons ==
  [thermal |-> "thermal", pl1 |-> "power_cap", pl2 |-> "power_cap",
   pl4 |-> "power_cap", prochot |-> "hw_slowdown",
   ratl |-> "other", vr_thermalert |-> "other", vr_tdc |-> "other"]

\* The order in which throttle() reads the reason files.
ReasonFiles == <<"thermal", "pl1", "pl2", "pl4", "prochot", "ratl",
                 "vr_thermalert", "vr_tdc">>

Vocabulary == [nvml |-> NvmlBits, amdgpu |-> IndepGroups, intel |-> IntelReasons,
               none |-> [b \in {} |-> "other"]][source]

\* GPU_IDLE shares NVML's bitmask and limits nothing.
Limiting(bits) == bits \ {"GPU_IDLE"}
Published == DOMAIN Vocabulary \union
             (IF source = "nvml" THEN {"GPU_IDLE", "future"} ELSE {"future"})
Known(bits) == bits \intersect DOMAIN Vocabulary

\* The fields of a decoded word: a bit nobody recognises is "other".
Decoded(bits) ==
  {Vocabulary[b] : b \in Known(bits)}
    \union IF Limiting(bits) \subseteq Known(bits) THEN {} ELSE {"other"}

\* The words a gpu_metrics revision carries, or {} for those with no throttle
\* word that can be trusted (v1.0, v3.0 and whatever comes next).
throttle_layout(r) ==
  IF r \in {<<1, 1>>, <<1, 2>>, <<2, 0>>, <<2, 1>>} THEN {"legacy"}
  ELSE IF r \in {<<1, 3>>, <<2, 2>>, <<2, 3>>, <<2, 4>>} THEN {"indep", "legacy"}
  ELSE {}

\* A blob is intact when it is as long as its structure_size, which is that of
\* its revision. An unwritten word is no observation.
decode_gpu_metrics_throttle(intact, bits) ==
  LET words == throttle_layout(revision) \intersect written
  IN IF ~intact \/ words = {} THEN None
     ELSE IF "indep" \in words THEN Decoded(bits)
     ELSE IF bits # {} THEN {"other"} ELSE {}

-----------------------------------------------------------------------------
Now(bits) == [ever |-> bits, quiet |-> Limiting(bits) = {},
              limited |-> Limiting(bits) # {}]
And(s, t) == [ever |-> s.ever \union t.ever, quiet |-> s.quiet \/ t.quiet,
              limited |-> s.limited \/ t.limited]

Init ==
  /\ source \in Sources
  /\ revision \in {<<1, 0>>, <<1, 1>>, <<1, 3>>, <<2, 2>>, <<3, 0>>}
  /\ written \in SUBSET {"indep", "legacy"}
  /\ source # "amdgpu" => revision = <<1, 0>> /\ written = {}
  /\ asserted = {} /\ latched = {}
  /\ reading = None
  /\ seen = Now({})
  /\ sample = <<>>

(* The driver *)

Assert(b) ==
  /\ b \notin asserted /\ Cardinality(asserted) < MaxAsserted
  /\ asserted' = asserted \union {b}
  /\ latched' = latched \union {b}
  /\ seen' = And(seen, Now(asserted'))
  /\ sample' = <<>>
  /\ UNCHANGED <<source, revision, written, reading>>

\* The reason's file may keep saying 1.
Release(b, lingers) ==
  /\ b \in asserted
  /\ asserted' = asserted \ {b}
  /\ latched' = IF lingers THEN latched ELSE latched \ {b}
  /\ seen' = And(seen, Now(asserted'))
  /\ sample' = <<>>
  /\ UNCHANGED <<source, revision, written, reading>>

(* refresh_dynamic *)

Sampled(told) ==
  /\ sample' = <<told>>
  /\ reading' = None
  /\ UNCHANGED <<source, revision, written, asserted, latched>>

\* One query, or none answered.
QueryNvml(answered) ==
  /\ source = "nvml"
  /\ seen' = Now(asserted)
  /\ Sampled(IF answered THEN Decoded(asserted) ELSE None)

ReadGpuMetrics(intact) ==
  /\ source = "amdgpu"
  /\ seen' = Now(asserted)
  /\ Sampled(decode_gpu_metrics_throttle(intact, asserted))

\* wddm.rs and apple.rs.
CannotTell ==
  /\ source = "none"
  /\ seen' = Now(asserted)
  /\ Sampled(None)

\* Intel's gate: "0" is an observation, no status or garbage is none, and only
\* "1" sends throttle() on to the reason files.
ReadStatus(legible) ==
  /\ source = "intel" /\ reading = None
  /\ seen' = Now(asserted)
  /\ IF asserted = {} \/ ~legible THEN Sampled(IF legible THEN {} ELSE None)
     ELSE /\ reading' = [files |-> 0, told |-> {}]
          /\ sample' = <<>>
          /\ UNCHANGED <<source, revision, written, asserted, latched>>

\* The next reason file. A field that is already true skips the files left for
\* it (||); an unreadable file reads as not set; no reason at all is "other".
ReadReason(legible) ==
  LET file  == ReasonFiles[reading.files + 1]
      field == IntelReasons[file]
      told  == IF legible /\ file \in latched /\ field \notin reading.told
               THEN reading.told \union {field} ELSE reading.told
  IN /\ reading # None
     /\ seen' = And(seen, Now(asserted))
     /\ IF reading.files + 1 = Len(ReasonFiles)
        THEN Sampled(IF told = {} THEN {"other"} ELSE told)
        ELSE /\ reading' = [files |-> reading.files + 1, told |-> told]
             /\ sample' = <<>>
             /\ UNCHANGED <<source, revision, written, asserted, latched>>

Next ==
  \/ \E b \in Bits \intersect Published :
       Assert(b) \/ \E lingers \in BOOLEAN : Release(b, lingers)
  \/ \E ok \in BOOLEAN : QueryNvml(ok) \/ ReadGpuMetrics(ok)
                         \/ ReadStatus(ok) \/ ReadReason(ok)
  \/ CannotTell

Spec == Init /\ [][Next]_vars

-----------------------------------------------------------------------------
(* Properties *)

Fields == {"thermal", "power_cap", "hw_slowdown", "sync_boost", "other"}

\* A reading is absence or a set of fields; a reading under way has files left.
TypeOK ==
  /\ latched \subseteq Bits /\ asserted \subseteq Bits
  /\ source # "intel" => reading = None
  /\ reading # None => /\ reading.files < Len(ReasonFiles)
                       /\ reading.told \subseteq Fields
  /\ sample # <<>> /\ sample # <<None>> => sample[1] \subseteq Fields

\* A reading tells the truth of a moment while it was taken: "throttling" when
\* some limit was in force, "not throttling" when none was - never because the
\* interface could not be read (model.rs: "must not assert the all-false
\* default"; intel.rs: "we only ever narrate a throttle that is actually
\* happening now") - and it names a cause only on the word of a bit for it.
ThrottleIsTrue ==
  sample # <<>> /\ sample # <<None>> =>
    LET told == sample[1]
    IN /\ IF told = {} THEN seen.quiet ELSE seen.limited
       /\ \A cause \in told \ {"other"} :
            \E b \in Known(seen.ever \union latched) : Vocabulary[b] = cause
=============================================================================
