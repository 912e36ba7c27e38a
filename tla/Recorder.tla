------------------------------ MODULE Recorder ------------------------------
(***************************************************************************)
(* The Recorder (crates/history/src/lib.rs) over its store                 *)
(* (crates/history/src/store.rs): frames are folded into one 10s and one   *)
(* 1m bucket per device, a completed bucket becomes a row when a frame     *)
(* crosses into a later one, the partial buckets become rows at shutdown,  *)
(* old rows are pruned, and the outcome of every write is noted.           *)
(*                                                                         *)
(* Time is the number of the 10s bucket a timestamp falls in; a row is the *)
(* set of frames it aggregates (the code keeps their number, n), empty     *)
(* where there is none, and a frame is named by its session and tick.      *)
(* Process rows share the 10s bucket's key and are kept only as the        *)
(* question whether their batch is empty. The environment moves the wall   *)
(* clock, breaks the disk, and crashes and restarts the program.           *)
(***************************************************************************)
EXTENDS WriteEdges, FiniteSets

CONSTANTS
  Devices,      \* devices that are recorded
  MaxSlot,      \* last 10s bucket of the model's wall clock
  MinuteSlots,  \* 10s buckets in a 1m bucket
  Retention,    \* RETAIN_10S_MS and RETAIN_1M_MS, in 10s buckets, by tier
  PruneEvery,   \* PRUNE_EVERY_FLUSHES
  MaxTicks,     \* bound on the ticks of a behaviour
  MaxSessions,  \* bound on the sessions of a behaviour
  DiskMayFail,  \* whether a batch of rows may fail to be written
  ClockMayStep, \* whether the wall clock may be stepped, not only run
  None          \* no bucket yet

Tiers == {"10s", "1m"}

ASSUME RecorderAssumption ==
  /\ IsFiniteSet(Devices)
  /\ MaxSlot \in Nat /\ MinuteSlots \in Nat \ {0}
  /\ Retention \in [Tiers -> Nat]
  /\ PruneEvery \in Nat \ {0}
  /\ MaxTicks \in Nat /\ MaxSessions \in Nat
  /\ DiskMayFail \in BOOLEAN /\ ClockMayStep \in BOOLEAN
  /\ None \notin Nat

Slots == 0..MaxSlot
Frame == Nat \X Nat
Width(tier) == IF tier = "10s" THEN 1 ELSE MinuteSlots
BucketOf(tier, slot) == slot \div Width(tier)

VARIABLES
  clock,     \* the 10s bucket the wall clock is in
  status,    \* "running", "finished" or "crashed"
  session,   \* number of sessions begun
  ticks,     \* ticks ended in this behaviour
  seen,      \* devices observed by the tick in progress
  acc,       \* DevRecord: the accumulating bucket per tier and device
  procs,     \* DevRecord: whether the process bucket holds a process
  flushes,   \* flushes_since_prune
  newest,    \* newest_ts_ms
  w,         \* failing, fails_in_streak and the pending transition
  rows,      \* samples_10s and samples_1m
  frames,    \* frames observed, by device and 10s bucket stamped (history)
  written,   \* the keys of the rows this session wrote (history)
  tally      \* this session's writes that failed, and failures narrated (history)

folding == <<seen, acc, procs, flushes, newest>>
history == <<frames, written, tally>>
vars == <<clock, status, session, ticks, folding, w, rows, history>>

-----------------------------------------------------------------------------
(* Store writes *)

\* One write: whether it is made, whether its batch holds rows, and what the
\* store answers. An empty batch is Ok before it touches the disk.
Write(due, nonempty, ok) == [due |-> due, nonempty |-> nonempty, ok |-> ok]

Possible(wr) == wr.ok \/ (DiskMayFail /\ wr.due /\ wr.nonempty)

Note(ws, wr) == IF wr.due THEN note_write(ws, wr.ok) ELSE ws

\* The history variable of the write outcomes.
Tally(t, wr) ==
  [t EXCEPT !.failed = IF wr.due /\ ~wr.ok THEN t.failed + 1 ELSE t.failed]

\* INSERT OR REPLACE of one row.
PutRow(rs, put, tier, d, a) ==
  IF put THEN [rs EXCEPT ![tier][d][a.bucket] = a.frames] ELSE rs

\* Mutant: both tiers pruned with the 10s retention.
Kept_ByOneRetention(tier, b, now) == b * Width(tier) + Retention["10s"] >= now

\* A row that DELETE ... WHERE bucket_ms < newest - retention leaves.
Kept(tier, b, now) == b * Width(tier) + Retention[tier] >= now

Prune(rs, done, now) ==
  IF ~done THEN rs
  ELSE [tier \in Tiers |-> [d \in Devices |-> [b \in Slots |->
          IF Kept(tier, b, now) THEN rs[tier][d][b] ELSE {}]]]

-----------------------------------------------------------------------------
(* Recorder::observe *)

NoBucket == [bucket |-> None, frames |-> {}]

\* Mutant: any change of bucket completes it, a step back included.
Crosses_OnAnyChange(a, b) == a.bucket # None /\ b # a.bucket

\* A frame of bucket b completes the one that accumulates.
Crosses(a, b) == a.bucket # None /\ b > a.bucket

\* Mutant: the frame that crosses is not counted in the bucket it opens.
Fold_DropsCrossing(a, b, f) ==
  IF Crosses(a, b) THEN [bucket |-> b, frames |-> {}]
  ELSE [bucket |-> IF a.bucket = None THEN b ELSE a.bucket, frames |-> a.frames \union {f}]

\* The crossing frame opens the next bucket; a frame that is not later than
\* the bucket, one stamped before it included, is folded into it.
Fold(a, b, f) ==
  IF a.bucket = None \/ Crosses(a, b) THEN [bucket |-> b, frames |-> {f}]
  ELSE [a EXCEPT !.frames = a.frames \union {f}]

\* Mutant: the prune comes one flush late.
PruneDue_Late(crossed) == crossed /\ flushes + 1 > PruneEvery

PruneDue(crossed) == crossed /\ flushes + 1 >= PruneEvery

\* Device d answered with a sample stamped now; withProcs: some process is
\* attached. ok[x] is what the store answers to write x, if it is made.
Observe(d, withProcs, ok) ==
  LET b      == [tier \in Tiers |-> BucketOf(tier, clock)]
      frame  == <<session, ticks>>
      ten    == Crosses(acc["10s"][d], b["10s"])
      min    == Crosses(acc["1m"][d], b["1m"])
      due    == PruneDue(ten)
      now    == IF clock > newest THEN clock ELSE newest
      wr     == <<Write(ten, TRUE, ok[1]), Write(min, TRUE, ok[2]),
                  Write(ten, procs[d], ok[3]), Write(due, TRUE, ok[4])>>
      w1     == Note(w, wr[1])
      w2     == Note(w1, wr[2])
      w3     == Note(w2, wr[3])
      put10  == PutRow(rows, ten /\ ok[1], "10s", d, acc["10s"][d])
      put    == PutRow(put10, min /\ ok[2], "1m", d, acc["1m"][d])
  IN /\ status = "running" /\ ticks < MaxTicks /\ d \notin seen
     /\ \A i \in 1..4 : Possible(wr[i])
     /\ seen' = seen \union {d}
     /\ acc' = [tier \in Tiers |-> [acc[tier] EXCEPT
                  ![d] = Fold(acc[tier][d], b[tier], frame)]]
     /\ procs' = [procs EXCEPT ![d] = withProcs \/ (procs[d] /\ ~ten)]
     /\ newest' = now
     /\ flushes' = IF due THEN 0 ELSE IF ten THEN flushes + 1 ELSE flushes
     /\ w' = Note(w3, wr[4])
     /\ rows' = Prune(put, due /\ ok[4], now)
     /\ frames' = [frames EXCEPT ![d][clock] = frames[d][clock] \union {frame}]
     /\ written' = written
          \union (IF ten /\ ok[1] THEN {<<"10s", d, acc["10s"][d].bucket>>} ELSE {})
          \union (IF min /\ ok[2] THEN {<<"1m", d, acc["1m"][d].bucket>>} ELSE {})
     /\ tally' = Tally(Tally(Tally(Tally(tally, wr[1]), wr[2]), wr[3]), wr[4])
     /\ UNCHANGED <<clock, status, session, ticks>>

-----------------------------------------------------------------------------
(* The rest of a tick, and the session around it *)

\* record_events of a batch.
RecordEvents(ws, t, nonempty, ok) ==
  LET wr == Write(TRUE, nonempty, ok)
  IN /\ Possible(wr)
     /\ w' = Note(ws, wr)
     /\ tally' = Tally(t, wr)

\* The end of Engine::tick: take the pending edge, narrate it with whatever
\* other events the tick derived, persist the batch.
EndTick(others, ok) ==
  /\ status = "running" /\ ticks < MaxTicks
  /\ RecordEvents(take_write_transition(w),
                  [tally EXCEPT !.narrated = tally.narrated + w.lost],
                  others \/ w.pending # "none", ok)
  /\ seen' = {}
  /\ ticks' = ticks + 1
  /\ UNCHANGED <<clock, status, session, acc, procs, flushes, newest, rows,
                 frames, written>>

\* A tick that panics drops its events; tick_guarded records the panic alone.
PanickedTick(ok) ==
  /\ status = "running" /\ ticks < MaxTicks
  /\ RecordEvents(w, tally, TRUE, ok)
  /\ seen' = {}
  /\ ticks' = ticks + 1
  /\ UNCHANGED <<clock, status, session, acc, procs, flushes, newest, rows,
                 frames, written>>

\* Engine::finish between two ticks: the stop mark, then Recorder::flush.
\* ok: what the store answers to the mark and to the three batches.
Finish(ok) ==
  LET held(tier) == {d \in Devices : acc[tier][d].bucket # None}
      wr == <<Write(TRUE, TRUE, ok[1]), Write(TRUE, held("10s") # {}, ok[2]),
              Write(TRUE, held("1m") # {}, ok[3]),
              Write(TRUE, \E d \in Devices : procs[d], ok[4])>>
      w1 == Note(w, wr[1])
      w2 == Note(w1, wr[2])
      w3 == Note(w2, wr[3])
      lands == [tier \in Tiers |-> IF tier = "10s" THEN ok[2] ELSE ok[3]]
  IN /\ status = "running" /\ seen = {}
     /\ \A i \in 1..4 : Possible(wr[i])
     /\ status' = "finished"
     /\ w' = Note(w3, wr[4])
     /\ rows' = [tier \in Tiers |-> [d \in Devices |-> [b \in Slots |->
                   IF lands[tier] /\ acc[tier][d].bucket = b
                   THEN acc[tier][d].frames ELSE rows[tier][d][b]]]]
     /\ written' = written \union
          {k \in Tiers \X Devices \X Slots :
             lands[k[1]] /\ acc[k[1]][k[2]].bucket = k[3]}
     /\ acc' = [tier \in Tiers |-> [d \in Devices |-> NoBucket]]
     /\ procs' = [d \in Devices |-> FALSE]
     /\ tally' = Tally(Tally(Tally(Tally(tally, wr[1]), wr[2]), wr[3]), wr[4])
     /\ UNCHANGED <<clock, session, ticks, seen, flushes, newest, frames>>

\* The process dies: the partial buckets and the pending edge go with it.
Crash ==
  /\ status = "running"
  /\ status' = "crashed"
  /\ seen' = {}
  /\ acc' = [tier \in Tiers |-> [d \in Devices |-> NoBucket]]
  /\ procs' = [d \in Devices |-> FALSE]
  /\ UNCHANGED <<clock, session, ticks, flushes, newest, w, rows, history>>

\* A new process opens the same store; its first write is its start mark.
Start(ok) ==
  /\ status # "running" /\ session < MaxSessions
  /\ status' = "running"
  /\ session' = session + 1
  /\ flushes' = 0 /\ newest' = 0
  /\ RecordEvents(Healthy, [failed |-> 0, narrated |-> 0], TRUE, ok)
  /\ written' = {}
  /\ UNCHANGED <<clock, ticks, seen, acc, procs, rows, frames>>

\* The wall clock runs, or is stepped to any time.
Clock ==
  /\ \E t \in Slots : /\ t = clock + 1 \/ ClockMayStep
                      /\ clock' = t
  /\ UNCHANGED <<status, session, ticks, folding, w, rows, history>>

Init ==
  /\ clock = 0
  /\ status = "finished"
  /\ session = 0
  /\ ticks = 0
  /\ seen = {}
  /\ acc = [tier \in Tiers |-> [d \in Devices |-> NoBucket]]
  /\ procs = [d \in Devices |-> FALSE]
  /\ flushes = 0
  /\ newest = 0
  /\ w = Healthy
  /\ rows = [tier \in Tiers |-> [d \in Devices |-> [b \in Slots |-> {}]]]
  /\ frames = [d \in Devices |-> [b \in Slots |-> {}]]
  /\ written = {}
  /\ tally = [failed |-> 0, narrated |-> 0]

Next ==
  \/ \E d \in Devices, withProcs \in BOOLEAN, ok \in [1..4 -> BOOLEAN] :
       Observe(d, withProcs, ok)
  \/ \E others, ok \in BOOLEAN : EndTick(others, ok)
  \/ \E ok \in BOOLEAN : PanickedTick(ok)
  \/ \E ok \in [1..4 -> BOOLEAN] : Finish(ok)
  \/ Crash
  \/ \E ok \in BOOLEAN : Start(ok)
  \/ Clock

Spec == Init /\ [][Next]_vars

-----------------------------------------------------------------------------
(* Properties *)

\* The state stays in its type.
TypeOK ==
  /\ clock \in Slots
  /\ status \in {"running", "finished", "crashed"}
  /\ session \in 0..MaxSessions /\ ticks \in 0..MaxTicks
  /\ seen \in SUBSET Devices
  /\ acc \in [Tiers -> [Devices -> [bucket : Slots \union {None}, frames : SUBSET Frame]]]
  /\ procs \in [Devices -> BOOLEAN]
  /\ flushes \in 0..(PruneEvery - 1)
  /\ newest \in Slots
  /\ w \in WriteState
  /\ rows \in [Tiers -> [Devices -> [Slots -> SUBSET Frame]]]
  /\ frames \in [Devices -> [Slots -> SUBSET Frame]]
  /\ written \in SUBSET (Tiers \X Devices \X Slots)
  /\ tally \in [failed : Nat, narrated : Nat]

\* The frames of a device stamped in a bucket, and all of them.
FramesIn(tier, d, b) == UNION {frames[d][s] : s \in {x \in Slots : BucketOf(tier, x) = b}}
Observed(d) == UNION {frames[d][s] : s \in Slots}

Accumulating(tier, d, b) ==
  IF acc[tier][d].bucket = b THEN acc[tier][d].frames ELSE {}

\* In a session whose writes all succeeded, under a clock that only runs, both
\* tiers account for every frame: a bucket's row and its accumulator together
\* hold exactly the frames stamped in it, until retention drops it
\* (Recorder::observe, flush).
RowsComplete ==
  session = 1 /\ status # "crashed" /\ tally.failed = 0 =>
    \A tier \in Tiers, d \in Devices, b \in Slots :
      Kept(tier, b, newest) =>
        rows[tier][d][b] \union Accumulating(tier, d, b) = FramesIn(tier, d, b)

\* Whatever the disk does, a row is the aggregate of all the frames of its
\* bucket, never of some of them (SampleRollup: "n records how many raw frames
\* the aggregate is built from", those "that fell in the bucket").
RowsAreWholeBuckets ==
  \A tier \in Tiers, d \in Devices, b \in Slots :
    rows[tier][d][b] # {} => rows[tier][d][b] = FramesIn(tier, d, b)

\* Whatever the clock and the disk do and however often the program restarts,
\* a tier holds a frame at most once, in a row or in its accumulator, and only
\* frames of the device.
NoFrameCountedTwice ==
  \A tier \in Tiers, d \in Devices :
    /\ acc[tier][d].frames \subseteq Observed(d)
    /\ \A b \in Slots :
         /\ rows[tier][d][b] \subseteq Observed(d) \ acc[tier][d].frames
         /\ \A c \in Slots \ {b} : rows[tier][d][b] \intersect rows[tier][d][c] = {}

\* A session writes a row at most once: a stepped clock cannot make the
\* INSERT OR REPLACE of a later flush erase an earlier row of the session.
RowWrittenOnce ==
  [][session' = session =>
       \A k \in written :
         rows'[k[1]][k[2]][k[3]] \in {rows[k[1]][k[2]][k[3]], {}}]_vars

\* Only rows past their tier's retention are ever deleted (RETAIN_10S_MS and
\* RETAIN_1M_MS: what "the UI tells the user").
PrunesPastRetention ==
  \A tier \in Tiers, d \in Devices, b \in Slots :
    rows[tier][d][b] # {} /\ rows'[tier][d][b] = {}
      => b * Width(tier) + Retention[tier] < clock
PruneKeepsRetention == [][PrunesPastRetention]_vars

\* The edge waiting to be narrated is the current state of the disk, not an
\* earlier one, and a streak is counted exactly while writes fail.
EdgeMatchesState ==
  /\ w.pending = "degraded" => w.failing
  /\ w.pending = "recovered" => ~w.failing
  /\ w.failing <=> w.streak > 0

\* A failed write is counted in at most one "N write(s) were lost".
FailuresCountedOnce == tally.narrated + w.lost + w.streak <= tally.failed

\* A row that reached the disk loses frames only to retention (flush: "so the
\* last, incomplete 10s/1m window is not lost").
RowsOnlyGrow ==
  [][\A tier \in Tiers, d \in Devices, b \in Slots :
       rows'[tier][d][b] # {} => rows[tier][d][b] \subseteq rows'[tier][d][b]]_vars

\* What the disk's edges narrate is current and counts no failure twice
\* (note_write, take_write_transition).
EdgesAreHonest == EdgeMatchesState /\ FailuresCountedOnce
=============================================================================
