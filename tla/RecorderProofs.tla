--------------------------- MODULE RecorderProofs ---------------------------
(***************************************************************************)
(* Proofs about the write edges and the rows of the Recorder, for every    *)
(* set of devices, retention, clock behaviour and disk behaviour.          *)
(***************************************************************************)
EXTENDS MCRecorderSettings, Integers, TLAPS

-----------------------------------------------------------------------------
(* The write edges *)

TallyType == [failed : Nat, narrated : Nat]

\* What every write keeps, of a write state and of the history of failures:
\* the pending edge is the state the disk is in, the streak counts exactly
\* while writes fail, and no failure is counted twice.
EdgeInv(ws, t) ==
  /\ ws \in WriteState
  /\ ws.pending = "degraded" => ws.failing
  /\ ws.pending = "recovered" => ~ws.failing
  /\ ws.failing <=> ws.streak > 0
  /\ t \in TallyType
  /\ t.narrated + ws.lost + ws.streak <= t.failed

\* The fields of a write state and of a tally.
LEMMA Fields ==
  ASSUME NEW ws \in WriteState, NEW t \in TallyType
  PROVE  /\ ws.failing \in BOOLEAN /\ ws.streak \in Nat
         /\ ws.pending \in Edges /\ ws.lost \in Nat
         /\ ws = [failing |-> ws.failing, streak |-> ws.streak,
                  pending |-> ws.pending, lost |-> ws.lost]
         /\ t.failed \in Nat /\ t.narrated \in Nat
         /\ t = [failed |-> t.failed, narrated |-> t.narrated]
BY DEF WriteState, TallyType

\* A write state with its streak replaced.
LEMMA Updated ==
  ASSUME NEW ws, NEW n,
         ws = [failing |-> ws.failing, streak |-> ws.streak,
               pending |-> ws.pending, lost |-> ws.lost]
  PROVE  [ws EXCEPT !.streak = n]
           = [failing |-> ws.failing, streak |-> n,
              pending |-> ws.pending, lost |-> ws.lost]
OBVIOUS

\* A write that fails, a write that succeeds, a write that is not made: each
\* keeps the edge invariant (note_write).
LEMMA NoteStep ==
  ASSUME NEW ws, NEW t, EdgeInv(ws, t),
         NEW due \in BOOLEAN, NEW nonempty \in BOOLEAN, NEW ok \in BOOLEAN
  PROVE  EdgeInv(Note(ws, Write(due, nonempty, ok)),
                 Tally(t, Write(due, nonempty, ok)))
<1> SUFFICES ASSUME NEW ws2, ws2 = Note(ws, Write(due, nonempty, ok)),
                    NEW t2, t2 = Tally(t, Write(due, nonempty, ok))
             PROVE  EdgeInv(ws2, t2)
  OBVIOUS
<1> DEFINE f == IF due /\ ~ok THEN t.failed + 1 ELSE t.failed
<1>1. ws \in WriteState /\ t \in TallyType
  BY DEF EdgeInv
<1>2. /\ ws.failing \in BOOLEAN /\ ws.streak \in Nat
      /\ ws.pending \in Edges /\ ws.lost \in Nat
      /\ t.failed \in Nat /\ t.narrated \in Nat
  BY <1>1, Fields
<1>3. /\ t.narrated + ws.lost + ws.streak <= t.failed
      /\ ws.pending = "degraded" => ws.failing
      /\ ws.pending = "recovered" => ~ws.failing
      /\ ws.failing <=> ws.streak > 0
  BY DEF EdgeInv
<1>4. t2 = [failed |-> f, narrated |-> t.narrated]
  <2>1. t2 = [t EXCEPT !.failed = f]
    BY DEF Tally, Write
  <2>2. t = [failed |-> t.failed, narrated |-> t.narrated]
    BY <1>1, Fields
  <2> HIDE DEF f
  <2>3. QED
    BY <2>1, <2>2
<1>5. t2 \in TallyType /\ t2.narrated = t.narrated /\ t2.failed = f
  <2>1. f \in Nat
    BY <1>2
  <2> HIDE DEF f
  <2>2. QED
    BY <1>2, <1>4, <2>1 DEF TallyType
<1>6. CASE ~due \/ (ok /\ ~ws.failing)
  <2>1. ws2 = ws
    BY <1>6 DEF Note, note_write, Write
  <2>2. t2.failed = t.failed
    BY <1>5, <1>6
  <2>3. QED
    BY <1>1, <1>3, <1>5, <2>1, <2>2 DEF EdgeInv
<1>7. CASE due /\ ok /\ ws.failing
  <2>1. ws2 = [failing |-> FALSE, streak |-> 0,
                        pending |-> "recovered", lost |-> ws.streak]
    BY <1>7 DEF Note, note_write, Recover, Write
  <2>2. t2.narrated + ws.streak + 0 <= t2.failed
    BY <1>2, <1>3, <1>5, <1>7
  <2>3. ws2 \in WriteState
    BY <1>2, <2>1 DEF WriteState, Edges
  <2>4. QED
    BY <1>5, <2>1, <2>2, <2>3 DEF EdgeInv
<1>8. CASE due /\ ~ok /\ ~ws.failing
  <2>1. ws2 = [failing |-> TRUE, streak |-> ws.streak + 1,
                        pending |-> "degraded", lost |-> 0]
    BY <1>8 DEF Note, note_write, Degrade, Write
  <2>2. t2.narrated + 0 + (ws.streak + 1) <= t2.failed
    BY <1>2, <1>3, <1>5, <1>8
  <2>3. ws2 \in WriteState
    BY <1>2, <2>1 DEF WriteState, Edges
  <2>4. ws.streak + 1 > 0
    BY <1>2
  <2>5. QED
    BY <1>5, <2>1, <2>2, <2>3, <2>4 DEF EdgeInv
<1>9. CASE due /\ ~ok /\ ws.failing
  <2>1. ws2 = [failing |-> TRUE, streak |-> ws.streak + 1,
                        pending |-> ws.pending, lost |-> ws.lost]
    <3>1. ws2 = [ws EXCEPT !.streak = ws.streak + 1]
      BY <1>9 DEF Note, note_write, Degrade, Write
    <3>2. [ws EXCEPT !.streak = ws.streak + 1]
            = [failing |-> ws.failing, streak |-> ws.streak + 1,
               pending |-> ws.pending, lost |-> ws.lost]
      <4>1. ws = [failing |-> ws.failing, streak |-> ws.streak,
                  pending |-> ws.pending, lost |-> ws.lost]
        BY <1>1, Fields
      <4>2. QED
        BY <4>1, Updated
    <3>3. ws.failing = TRUE
      BY <1>2, <1>9
    <3>4. QED
      BY <3>1, <3>2, <3>3
  <2>2. t2.narrated + ws.lost + (ws.streak + 1) <= t2.failed
    BY <1>2, <1>3, <1>5, <1>9
  <2>3. ws2 \in WriteState
    BY <1>2, <2>1 DEF WriteState
  <2>4. ws.streak + 1 > 0 /\ ws.pending # "recovered"
    BY <1>2, <1>3, <1>9
  <2>5. QED
    BY <1>5, <2>1, <2>2, <2>3, <2>4 DEF EdgeInv
<1>10. QED
  BY <1>6, <1>7, <1>8, <1>9

\* Taking the pending edge and narrating its count keeps it too.
LEMMA TakeStep ==
  ASSUME NEW ws, NEW t, EdgeInv(ws, t)
  PROVE  EdgeInv(take_write_transition(ws),
                 [t EXCEPT !.narrated = t.narrated + ws.lost])
<1>0. ws \in WriteState /\ t \in TallyType
  BY DEF EdgeInv
<1>1. take_write_transition(ws) = [failing |-> ws.failing, streak |-> ws.streak,
                                   pending |-> "none", lost |-> 0]
  BY DEF take_write_transition
<1>2. [t EXCEPT !.narrated = t.narrated + ws.lost]
        = [failed |-> t.failed, narrated |-> t.narrated + ws.lost]
  BY <1>0, Fields
<1>3. t.narrated + ws.lost + 0 + ws.streak <= t.failed
  BY <1>0, Fields DEF EdgeInv
<1>4. QED
  BY <1>0, <1>1, <1>2, <1>3, Fields DEF EdgeInv, WriteState, TallyType, Edges

EdgeIInv == EdgeInv(w, tally) /\ procs \in [Devices -> BOOLEAN]

LEMMA EdgeInit == Init => EdgeIInv
<1> SUFFICES ASSUME Init PROVE EdgeIInv
  OBVIOUS
<1>1. EdgeInv(Healthy, [failed |-> 0, narrated |-> 0])
  BY DEF EdgeInv, Healthy, WriteState, TallyType, Edges
<1>2. QED
  BY <1>1 DEF Init, EdgeIInv

LEMMA EdgeStep == EdgeIInv /\ [Next]_vars => EdgeIInv'
<1> SUFFICES ASSUME EdgeIInv, [Next]_vars PROVE EdgeIInv'
  OBVIOUS
<1>0. EdgeInv(w, tally) /\ procs \in [Devices -> BOOLEAN]
  BY DEF EdgeIInv
<1>1. ASSUME NEW d \in Devices, NEW withProcs \in BOOLEAN,
             NEW ok \in [1..4 -> BOOLEAN], Observe(d, withProcs, ok)
      PROVE  EdgeIInv'
  <2> DEFINE ten == Crosses(acc["10s"][d], BucketOf("10s", clock))
             min == Crosses(acc["1m"][d], BucketOf("1m", clock))
             wa == Write(ten, TRUE, ok[1])
             wb == Write(min, TRUE, ok[2])
             wc == Write(ten, procs[d], ok[3])
             we == Write(PruneDue(ten), TRUE, ok[4])
             w1 == Note(w, wa)
             w2 == Note(w1, wb)
             w3 == Note(w2, wc)
             t1 == Tally(tally, wa)
             t2 == Tally(t1, wb)
             t3 == Tally(t2, wc)
  <2>1. /\ ten \in BOOLEAN /\ min \in BOOLEAN /\ PruneDue(ten) \in BOOLEAN
        /\ procs[d] \in BOOLEAN
        /\ ok[1] \in BOOLEAN /\ ok[2] \in BOOLEAN
        /\ ok[3] \in BOOLEAN /\ ok[4] \in BOOLEAN
    BY <1>0 DEF Crosses, PruneDue
  <2>2. /\ w' = Note(w3, we)
        /\ tally' = Tally(t3, we)
        /\ procs' = [procs EXCEPT ![d] = withProcs \/ (procs[d] /\ ~ten)]
    BY <1>1 DEF Observe, Tiers
  <2> HIDE DEF ten, min
  <2>3. EdgeInv(w1, t1)
    BY <1>0, <2>1, NoteStep
  <2> HIDE DEF w1, t1
  <2>4. EdgeInv(w2, t2)
    BY <2>1, <2>3, NoteStep
  <2> HIDE DEF w2, t2
  <2>5. EdgeInv(w3, t3)
    BY <2>1, <2>4, NoteStep
  <2> HIDE DEF w3, t3
  <2>6. EdgeInv(w', tally')
    BY <2>1, <2>2, <2>5, NoteStep
  <2>7. procs' \in [Devices -> BOOLEAN]
    BY <1>0, <2>1, <2>2
  <2>8. QED
    BY <2>6, <2>7 DEF EdgeIInv
<1>2. ASSUME NEW others \in BOOLEAN, NEW ok \in BOOLEAN, EndTick(others, ok)
      PROVE  EdgeIInv'
  <2>1. (others \/ w.pending # "none") \in BOOLEAN
    OBVIOUS
  <2>2. QED
    BY <1>0, <1>2, <2>1, TakeStep, NoteStep DEF EndTick, RecordEvents, EdgeIInv
<1>3. ASSUME NEW ok \in BOOLEAN, PanickedTick(ok)
      PROVE  EdgeIInv'
  BY <1>0, <1>3, NoteStep DEF PanickedTick, RecordEvents, EdgeIInv
<1>4. ASSUME NEW ok \in [1..4 -> BOOLEAN], Finish(ok)
      PROVE  EdgeIInv'
  <2> DEFINE held(tier) == {d \in Devices : acc[tier][d].bucket # None}
             wa == Write(TRUE, TRUE, ok[1])
             wb == Write(TRUE, held("10s") # {}, ok[2])
             wc == Write(TRUE, held("1m") # {}, ok[3])
             we == Write(TRUE, \E d \in Devices : procs[d], ok[4])
             w1 == Note(w, wa)
             w2 == Note(w1, wb)
             w3 == Note(w2, wc)
             t1 == Tally(tally, wa)
             t2 == Tally(t1, wb)
             t3 == Tally(t2, wc)
  <2>1. /\ ok[1] \in BOOLEAN /\ ok[2] \in BOOLEAN
        /\ ok[3] \in BOOLEAN /\ ok[4] \in BOOLEAN
    OBVIOUS
  <2>2. /\ w' = Note(w3, we)
        /\ tally' = Tally(t3, we)
        /\ procs' = [d \in Devices |-> FALSE]
    BY <1>4 DEF Finish
  <2>3. EdgeInv(w1, t1)
    BY <1>0, <2>1, NoteStep
  <2> HIDE DEF w1, t1
  <2>4. EdgeInv(w2, t2)
    BY <2>1, <2>3, NoteStep
  <2> HIDE DEF w2, t2
  <2>5. EdgeInv(w3, t3)
    BY <2>1, <2>4, NoteStep
  <2> HIDE DEF w3, t3
  <2>6. EdgeInv(w', tally')
    BY <2>1, <2>2, <2>5, NoteStep
  <2>7. QED
    BY <2>2, <2>6 DEF EdgeIInv
<1>5. CASE Crash
  BY <1>0, <1>5 DEF Crash, history, EdgeIInv
<1>6. ASSUME NEW ok \in BOOLEAN, Start(ok)
      PROVE  EdgeIInv'
  <2>1. EdgeInv(Healthy, [failed |-> 0, narrated |-> 0])
    BY DEF EdgeInv, Healthy, WriteState, TallyType, Edges
  <2>2. QED
    BY <1>0, <1>6, <2>1, NoteStep DEF Start, RecordEvents, EdgeIInv
<1>7. CASE Clock
  BY <1>0, <1>7 DEF Clock, folding, history, EdgeIInv
<1>8. CASE UNCHANGED vars
  BY <1>0, <1>8 DEF vars, folding, history, EdgeIInv
<1>9. QED
  BY <1>1, <1>2, <1>3, <1>4, <1>5, <1>6, <1>7, <1>8 DEF Next

\* The edge waiting to be narrated is always the current state of the disk
\* (note_write, take_write_transition), in every session.
THEOREM EdgeIsCurrent == Spec => []EdgeMatchesState
<1>1. EdgeIInv => EdgeMatchesState
  BY DEF EdgeIInv, EdgeInv, EdgeMatchesState
<1>2. QED
  BY <1>1, EdgeInit, EdgeStep, PTL DEF Spec

\* However writes fail and recover, no failed write is counted twice by the
\* "N write(s) were lost" facts of a session.
THEOREM LostNeverOvercounted == Spec => []FailuresCountedOnce
<1>1. EdgeIInv => FailuresCountedOnce
  BY DEF EdgeIInv, EdgeInv, FailuresCountedOnce
<1>2. QED
  BY <1>1, EdgeInit, EdgeStep, PTL DEF Spec

\* In every session and whatever fails, the edge narrated is current and
\* counts each lost write once (take_write_transition).
THEOREM EdgesToldHonestly == Spec => []EdgesAreHonest
<1>1. EdgeMatchesState /\ FailuresCountedOnce => EdgesAreHonest
  BY DEF EdgesAreHonest
<1>2. QED
  BY <1>1, EdgeIsCurrent, LostNeverOvercounted, PTL

-----------------------------------------------------------------------------
(* Rows are written once per session *)

AccType == [bucket : Slots \union {None}, frames : SUBSET Frame]
RowsType == [Tiers -> [Devices -> [Slots -> SUBSET Frame]]]
Key == Tiers \X Devices \X Slots

\* Every row this session wrote lies before the bucket that accumulates.
WrittenBefore(a, ks) ==
  \A k \in ks : a[k[1]][k[2]].bucket # None /\ k[3] < a[k[1]][k[2]].bucket

RowInv ==
  /\ clock \in Slots /\ session \in Nat /\ ticks \in Nat
  /\ acc \in [Tiers -> [Devices -> AccType]]
  /\ rows \in RowsType
  /\ written \in SUBSET Key
  /\ status = "running" => WrittenBefore(acc, written)

\* Rows of the session are kept or pruned.
RowsKept == \A k \in written :
  rows'[k[1]][k[2]][k[3]] \in {rows[k[1]][k[2]][k[3]], {}}

\* A 10s bucket lies in a 1m bucket of no larger number.
LEMMA BucketInSlots ==
  ASSUME NEW tier \in Tiers, NEW slot \in Slots
  PROVE  BucketOf(tier, slot) \in Slots
<1>1. MaxSlot \in Nat /\ MinuteSlots \in Nat /\ MinuteSlots > 0
  BY RecorderAssumption
<1>2. slot \in Nat /\ slot <= MaxSlot
  BY <1>1 DEF Slots
<1>3. \A m \in Nat \ {0} : slot \div m \in Nat /\ slot \div m <= slot
  BY <1>2
<1>4. Width(tier) \in Nat \ {0}
  BY <1>1 DEF Width
<1>5. slot \div Width(tier) \in Nat /\ slot \div Width(tier) <= slot
  BY <1>3, <1>4, Zenon
<1> DEFINE q == slot \div Width(tier)
<1>6. q \in Nat /\ q <= slot
  BY <1>5
<1> HIDE DEF q
<1>7. q \in 0..MaxSlot
  BY <1>1, <1>2, <1>6
<1>8. QED
  BY <1>7 DEF BucketOf, Slots, q

\* A fold keeps the accumulator's type, never moves it back, and leaves a
\* bucket only for a later one.
LEMMA FoldStep ==
  ASSUME NEW a \in AccType, NEW b \in Slots, NEW f \in Frame
  PROVE  /\ Fold(a, b, f) \in AccType
         /\ Fold(a, b, f).bucket # None
         /\ a.bucket # None => Fold(a, b, f).bucket >= a.bucket
         /\ Crosses(a, b) => /\ a.bucket \in Slots
                             /\ Fold(a, b, f).bucket > a.bucket
<1>1. a.bucket \in Slots \union {None} /\ a.frames \in SUBSET Frame
  BY DEF AccType
<1>2. b \in Nat /\ b # None
  BY RecorderAssumption DEF Slots
<1>3. CASE a.bucket = None
  BY <1>1, <1>2, <1>3 DEF Fold, AccType, Crosses
<1>4. CASE a.bucket # None /\ Crosses(a, b)
  <2>1. Fold(a, b, f) = [bucket |-> b, frames |-> {f}]
    BY <1>4 DEF Fold
  <2>2. a.bucket \in Nat /\ a.bucket \in Slots /\ b > a.bucket
    BY <1>1, <1>4 DEF Slots, Crosses
  <2>3. Fold(a, b, f) \in AccType
    BY <2>1 DEF AccType
  <2>4. QED
    BY <1>2, <2>1, <2>2, <2>3
<1>5. CASE a.bucket # None /\ ~Crosses(a, b)
  <2>1. Fold(a, b, f) = [a EXCEPT !.frames = a.frames \union {f}]
    BY <1>5 DEF Fold
  <2>2. Fold(a, b, f) \in AccType /\ Fold(a, b, f).bucket = a.bucket
    BY <1>1, <2>1 DEF AccType
  <2>3. a.bucket \in Nat
    BY <1>1, <1>5 DEF Slots
  <2>4. QED
    BY <1>5, <2>2, <2>3
<1>6. QED
  BY <1>3, <1>4, <1>5

\* One replaced row: the type stays and every other row stays.
LEMMA PutStep ==
  ASSUME NEW rs \in RowsType, NEW put \in BOOLEAN, NEW tier \in Tiers,
         NEW d \in Devices, NEW a \in AccType,
         put => a.bucket \in Slots
  PROVE  /\ PutRow(rs, put, tier, d, a) \in RowsType
         /\ \A k \in Key :
              ~(k[1] = tier /\ k[2] = d /\ k[3] = a.bucket)
                => PutRow(rs, put, tier, d, a)[k[1]][k[2]][k[3]]
                     = rs[k[1]][k[2]][k[3]]
<1>1. CASE ~put
  BY <1>1 DEF PutRow
<1>2. CASE put
  <2>1. a.bucket \in Slots /\ a.frames \in SUBSET Frame
    BY <1>2 DEF AccType
  <2>2. PutRow(rs, put, tier, d, a) = [rs EXCEPT ![tier][d][a.bucket] = a.frames]
    BY <1>2 DEF PutRow
  <2>3. QED
    BY <2>1, <2>2 DEF RowsType, Key
<1>3. QED
  BY <1>1, <1>2

\* Pruning keeps the type, and keeps or zeroes a row.
LEMMA PruneStep ==
  ASSUME NEW rs \in RowsType, NEW done \in BOOLEAN, NEW now
  PROVE  /\ Prune(rs, done, now) \in RowsType
         /\ \A k \in Key : Prune(rs, done, now)[k[1]][k[2]][k[3]]
                             \in {rs[k[1]][k[2]][k[3]], {}}
BY DEF Prune, RowsType, Key

LEMMA RowInit == Init => RowInv
<1> SUFFICES ASSUME Init PROVE RowInv
  OBVIOUS
<1>1. 0 \in Slots
  BY RecorderAssumption DEF Slots
<1>2. NoBucket \in AccType
  BY DEF NoBucket, AccType
<1>3. rows \in RowsType
  BY DEF Init, RowsType
<1>4. acc \in [Tiers -> [Devices -> AccType]]
  BY <1>2 DEF Init
<1>5. QED
  BY <1>1, <1>3, <1>4 DEF Init, RowInv

\* The step that matters: a frame that crosses.
LEMMA ObserveRows ==
  ASSUME RowInv, NEW d \in Devices, NEW withProcs \in BOOLEAN,
         NEW ok \in [1..4 -> BOOLEAN], Observe(d, withProcs, ok)
  PROVE  RowInv' /\ RowsKept
<1> DEFINE b(tier) == BucketOf(tier, clock)
           a(tier) == acc[tier][d]
           ten == Crosses(a("10s"), b("10s"))
           min == Crosses(a("1m"), b("1m"))
           put10 == PutRow(rows, ten /\ ok[1], "10s", d, a("10s"))
           put == PutRow(put10, min /\ ok[2], "1m", d, a("1m"))
           now == IF clock > newest THEN clock ELSE newest
           done == PruneDue(ten) /\ ok[4]
           f == <<session, ticks>>
<1>0. /\ clock \in Slots /\ session \in Nat
      /\ acc \in [Tiers -> [Devices -> AccType]]
      /\ rows \in RowsType
      /\ written \in SUBSET Key
  BY DEF RowInv
<1>1. /\ status = "running" /\ status' = status
      /\ clock' = clock /\ session' = session
      /\ acc' = [tier \in Tiers |-> [acc[tier] EXCEPT
                   ![d] = Fold(acc[tier][d], BucketOf(tier, clock), f)]]
      /\ rows' = Prune(put, done, now)
      /\ written' = written
           \union (IF ten /\ ok[1] THEN {<<"10s", d, a("10s").bucket>>} ELSE {})
           \union (IF min /\ ok[2] THEN {<<"1m", d, a("1m").bucket>>} ELSE {})
  BY DEF Observe, Tiers
<1>2. WrittenBefore(acc, written)
  BY <1>1 DEF RowInv
<1>3. \A tier \in Tiers : a(tier) \in AccType /\ b(tier) \in Slots
  BY <1>0, BucketInSlots
<1>3a. f \in Frame
  BY DEF RowInv, Frame
<1> HIDE DEF f
<1>4. "10s" \in Tiers /\ "1m" \in Tiers
  BY DEF Tiers
<1>5. /\ ten \in BOOLEAN /\ min \in BOOLEAN
      /\ ok[1] \in BOOLEAN /\ ok[2] \in BOOLEAN /\ done \in BOOLEAN
  BY DEF Crosses, PruneDue
<1>6. /\ ten => a("10s").bucket \in Slots
      /\ min => a("1m").bucket \in Slots
  BY <1>3, <1>3a, <1>4, FoldStep
<1>6a. /\ (ten /\ ok[1]) \in BOOLEAN /\ (min /\ ok[2]) \in BOOLEAN
       /\ (ten /\ ok[1]) => a("10s").bucket \in Slots
       /\ (min /\ ok[2]) => a("1m").bucket \in Slots
  BY <1>6
<1>6b. a("10s") \in AccType /\ a("1m") \in AccType
  BY <1>3, <1>4
<1> DEFINE p10 == ten /\ ok[1]
           p1m == min /\ ok[2]
<1> HIDE DEF ten, min, done, now
<1>7. /\ put10 \in RowsType
      /\ \A k \in Key : ~(k[1] = "10s" /\ k[2] = d /\ k[3] = a("10s").bucket)
           => put10[k[1]][k[2]][k[3]] = rows[k[1]][k[2]][k[3]]
  <2>1. p10 \in BOOLEAN /\ (p10 => a("10s").bucket \in Slots)
    BY <1>6a
  <2>2. rows \in RowsType /\ d \in Devices
    BY <1>0
  <2> HIDE DEF p10
  <2>3. LET r == PutRow(rows, p10, "10s", d, a("10s"))
        IN /\ r \in RowsType
           /\ \A k \in Key : ~(k[1] = "10s" /\ k[2] = d /\ k[3] = a("10s").bucket)
                => r[k[1]][k[2]][k[3]] = rows[k[1]][k[2]][k[3]]
    BY <1>4, <1>6b, <2>1, <2>2, PutStep, Zenon
  <2>4. QED
    BY <2>3 DEF p10
<1> HIDE DEF put10
<1>8. /\ put \in RowsType
      /\ \A k \in Key : ~(k[1] = "1m" /\ k[2] = d /\ k[3] = a("1m").bucket)
           => put[k[1]][k[2]][k[3]] = put10[k[1]][k[2]][k[3]]
  <2>1. p1m \in BOOLEAN /\ (p1m => a("1m").bucket \in Slots)
    BY <1>6a
  <2>2. put10 \in RowsType
    BY <1>7
  <2> HIDE DEF p1m
  <2>3. LET r == PutRow(put10, p1m, "1m", d, a("1m"))
        IN /\ r \in RowsType
           /\ \A k \in Key : ~(k[1] = "1m" /\ k[2] = d /\ k[3] = a("1m").bucket)
                => r[k[1]][k[2]][k[3]] = put10[k[1]][k[2]][k[3]]
    BY <1>4, <1>6b, <2>1, <2>2, PutStep, Zenon
  <2>4. QED
    BY <2>3 DEF p1m
<1> HIDE DEF put
<1>9. \A k \in written : k \in Key /\ k[3] # acc[k[1]][k[2]].bucket
  <2> SUFFICES ASSUME NEW k \in written
               PROVE  k \in Key /\ k[3] # acc[k[1]][k[2]].bucket
    OBVIOUS
  <2>1. k[3] \in Nat /\ k[1] \in Tiers /\ k[2] \in Devices
    BY <1>0 DEF Key, Slots
  <2>2. k[3] < acc[k[1]][k[2]].bucket /\ acc[k[1]][k[2]].bucket # None
    BY <1>2 DEF WrittenBefore
  <2>3. acc[k[1]][k[2]].bucket \in Nat
    BY <1>0, <2>1, <2>2 DEF AccType, Slots
  <2>4. QED
    BY <1>0, <2>1, <2>2, <2>3
<1>10. RowsKept
  <2> SUFFICES ASSUME NEW k \in written
               PROVE  rows'[k[1]][k[2]][k[3]] \in {rows[k[1]][k[2]][k[3]], {}}
    BY DEF RowsKept
  <2>1. put[k[1]][k[2]][k[3]] = rows[k[1]][k[2]][k[3]]
    BY <1>7, <1>8, <1>9
  <2>2. rows'[k[1]][k[2]][k[3]] \in {put[k[1]][k[2]][k[3]], {}}
    BY <1>1, <1>5, <1>8, <1>9, PruneStep
  <2>3. QED
    BY <2>1, <2>2
<1>11. acc' \in [Tiers -> [Devices -> AccType]]
  <2>1. \A tier \in Tiers : Fold(a(tier), b(tier), f) \in AccType
    BY <1>3, <1>3a, FoldStep
  <2>2. QED
    BY <1>0, <1>1, <2>1
<1>12. written' \in SUBSET Key
  BY <1>0, <1>1, <1>4, <1>6 DEF Key
<1>13. \A k \in written : /\ acc'[k[1]][k[2]].bucket # None
                          /\ k[3] < acc'[k[1]][k[2]].bucket
  <2> SUFFICES ASSUME NEW k \in written
               PROVE  /\ acc'[k[1]][k[2]].bucket # None
                      /\ k[3] < acc'[k[1]][k[2]].bucket
    OBVIOUS
  <2>1. k[1] \in Tiers /\ k[2] \in Devices /\ k[3] \in Nat
    BY <1>0 DEF Key, Slots
  <2>2. /\ acc[k[1]][k[2]].bucket # None
        /\ k[3] < acc[k[1]][k[2]].bucket
    BY <1>2 DEF WrittenBefore
  <2>3. CASE k[2] # d
    <3>1. acc'[k[1]][k[2]] = acc[k[1]][k[2]]
      BY <1>0, <1>1, <2>1, <2>3
    <3>2. QED
      BY <2>2, <3>1
  <2>4. CASE k[2] = d
    <3> DEFINE old == a(k[1]).bucket
               new == Fold(a(k[1]), b(k[1]), f).bucket
    <3>1. acc'[k[1]][k[2]].bucket = new
      BY <1>0, <1>1, <2>1, <2>4
    <3>2. new # None /\ new >= old
      BY <1>3, <1>3a, <2>1, <2>2, <2>4, FoldStep
    <3>3. old \in Nat /\ k[3] < old
      BY <1>3, <2>1, <2>2, <2>4 DEF AccType, Slots
    <3>4. new \in Nat
      <4>1. Fold(a(k[1]), b(k[1]), f) \in AccType
        BY <1>3, <1>3a, <2>1, FoldStep
      <4>2. new \in Slots \union {None}
        BY <4>1 DEF AccType
      <4>3. QED
        BY <3>2, <4>2 DEF Slots
    <3> HIDE DEF old, new
    <3>5. k[3] < new
      BY <2>1, <3>2, <3>3, <3>4
    <3>6. QED
      BY <3>1, <3>2, <3>5
  <2>5. QED
    BY <2>3, <2>4
<1>14. \A tier \in Tiers : Crosses(a(tier), b(tier)) =>
         /\ acc'[tier][d].bucket # None
         /\ a(tier).bucket < acc'[tier][d].bucket
  <2> SUFFICES ASSUME NEW tier \in Tiers, Crosses(a(tier), b(tier))
               PROVE  /\ acc'[tier][d].bucket # None
                      /\ a(tier).bucket < acc'[tier][d].bucket
    OBVIOUS
  <2> DEFINE old == a(tier).bucket
             new == Fold(a(tier), b(tier), f).bucket
  <2>1. acc'[tier][d].bucket = new
    BY <1>0, <1>1
  <2>2. new # None /\ new > old /\ old \in Slots
    BY <1>3, <1>3a, FoldStep
  <2>3. new \in Slots
    BY <1>3, <1>3a, <2>2, FoldStep DEF AccType
  <2>4. old \in Nat /\ new \in Nat
    BY <2>2, <2>3 DEF Slots
  <2> HIDE DEF old, new
  <2>5. old < new
    BY <2>2, <2>4
  <2>6. QED
    BY <2>1, <2>2, <2>5 DEF old
<1>15. WrittenBefore(acc', written')
  <2> SUFFICES ASSUME NEW k \in written'
               PROVE  /\ acc'[k[1]][k[2]].bucket # None
                      /\ k[3] < acc'[k[1]][k[2]].bucket
    BY DEF WrittenBefore
  <2>1. CASE k \in written
    BY <1>13, <2>1
  <2>2. CASE ten /\ k = <<"10s", d, a("10s").bucket>>
    BY <1>4, <1>14, <2>2 DEF ten
  <2>3. CASE min /\ k = <<"1m", d, a("1m").bucket>>
    BY <1>4, <1>14, <2>3 DEF min
  <2>4. QED
    BY <1>1, <2>1, <2>2, <2>3
<1>16. rows' \in RowsType
  BY <1>1, <1>5, <1>8, PruneStep
<1>17. QED
  <2>1. ticks' = ticks /\ ticks \in Nat
    BY DEF Observe, RowInv
  <2>2. QED
    BY <1>0, <1>1, <1>10, <1>11, <1>12, <1>15, <1>16, <2>1 DEF RowInv

\* A shutdown writes the buckets that accumulate, each later than every row
\* the session wrote.
LEMMA FinishRows ==
  ASSUME RowInv, NEW ok \in [1..4 -> BOOLEAN], Finish(ok)
  PROVE  RowInv' /\ RowsKept
<1> DEFINE lands == [tier \in Tiers |-> IF tier = "10s" THEN ok[2] ELSE ok[3]]
<1>0. /\ clock \in Slots /\ session \in Nat
      /\ acc \in [Tiers -> [Devices -> AccType]]
      /\ rows \in RowsType
      /\ written \in SUBSET Key
  BY DEF RowInv
<1>1. /\ status = "running" /\ status' = "finished"
      /\ clock' = clock /\ session' = session
      /\ acc' = [tier \in Tiers |-> [d \in Devices |-> NoBucket]]
      /\ rows' = [tier \in Tiers |-> [d \in Devices |-> [b \in Slots |->
                    IF lands[tier] /\ acc[tier][d].bucket = b
                    THEN acc[tier][d].frames ELSE rows[tier][d][b]]]]
      /\ written' = written \union
           {k \in Key : lands[k[1]] /\ acc[k[1]][k[2]].bucket = k[3]}
  BY DEF Finish, Key
<1> HIDE DEF lands
<1>2. WrittenBefore(acc, written)
  BY <1>1 DEF RowInv
<1>3. acc' \in [Tiers -> [Devices -> AccType]]
  <2>1. NoBucket \in AccType
    BY DEF NoBucket, AccType
  <2>2. QED
    BY <1>1, <2>1
<1>4. rows' \in RowsType
  <2>1. \A tier \in Tiers, d \in Devices : acc[tier][d].frames \in SUBSET Frame
    BY <1>0 DEF AccType
  <2>2. \A tier \in Tiers, d \in Devices, b \in Slots : rows[tier][d][b] \in SUBSET Frame
    BY <1>0 DEF RowsType
  <2>3. \A tier \in Tiers, d \in Devices, b \in Slots :
          (IF lands[tier] /\ acc[tier][d].bucket = b
           THEN acc[tier][d].frames ELSE rows[tier][d][b]) \in SUBSET Frame
    BY <2>1, <2>2
  <2>4. QED
    BY <1>1, <2>3 DEF RowsType
<1>5. written' \in SUBSET Key
  BY <1>0, <1>1
<1>6. RowsKept
  <2> SUFFICES ASSUME NEW k \in written
               PROVE  rows'[k[1]][k[2]][k[3]] = rows[k[1]][k[2]][k[3]]
    BY DEF RowsKept
  <2>1. k[1] \in Tiers /\ k[2] \in Devices /\ k[3] \in Slots
    BY <1>0 DEF Key
  <2>2. /\ acc[k[1]][k[2]].bucket # None
        /\ k[3] < acc[k[1]][k[2]].bucket
    BY <1>2 DEF WrittenBefore
  <2>3. acc[k[1]][k[2]].bucket \in Nat /\ k[3] \in Nat
    BY <1>0, <2>1, <2>2 DEF AccType, Slots
  <2>4. acc[k[1]][k[2]].bucket # k[3]
    BY <2>2, <2>3
  <2>5. QED
    BY <1>1, <2>1, <2>4
<1>7. QED
  <2>1. ticks' = ticks /\ ticks \in Nat
    BY DEF Finish, RowInv
  <2>2. QED
    BY <1>0, <1>1, <1>3, <1>4, <1>5, <1>6, <2>1 DEF RowInv

\* Every step keeps the invariant, and the rows of the session it runs in.
LEMMA RowStep ==
  RowInv /\ [Next]_vars => RowInv' /\ (session' = session => RowsKept)
<1> SUFFICES ASSUME RowInv, [Next]_vars
             PROVE  RowInv' /\ (session' = session => RowsKept)
  OBVIOUS
<1>1. ASSUME NEW d \in Devices, NEW withProcs \in BOOLEAN,
             NEW ok \in [1..4 -> BOOLEAN], Observe(d, withProcs, ok)
      PROVE  RowInv' /\ RowsKept
  BY <1>1, ObserveRows
<1>2. ASSUME NEW ok \in [1..4 -> BOOLEAN], Finish(ok)
      PROVE  RowInv' /\ RowsKept
  BY <1>2, FinishRows
<1>3. ASSUME UNCHANGED <<clock, session, status, acc, rows, written>>, ticks' \in {ticks, ticks + 1}
      PROVE  RowInv' /\ RowsKept
  BY <1>3 DEF RowInv, RowsKept, WrittenBefore
<1>4. ASSUME NEW others \in BOOLEAN, NEW ok \in BOOLEAN, EndTick(others, ok)
      PROVE  RowInv' /\ RowsKept
  BY <1>3, <1>4 DEF EndTick
<1>5. ASSUME NEW ok \in BOOLEAN, PanickedTick(ok)
      PROVE  RowInv' /\ RowsKept
  BY <1>3, <1>5 DEF PanickedTick
<1>6. CASE Crash
  <2>1. /\ clock' = clock /\ status' = "crashed" /\ rows' = rows
        /\ written' = written /\ session' = session /\ ticks' = ticks
        /\ acc' = [tier \in Tiers |-> [d \in Devices |-> NoBucket]]
    BY <1>6 DEF Crash, history
  <2>2. NoBucket \in AccType
    BY DEF NoBucket, AccType
  <2>3. acc' \in [Tiers -> [Devices -> AccType]]
    BY <2>1, <2>2
  <2>4. QED
    BY <2>1, <2>3 DEF RowInv, RowsKept
<1>7. ASSUME NEW ok \in BOOLEAN, Start(ok)
      PROVE  RowInv' /\ session' # session
  <2>1. /\ session' = session + 1 /\ written' = {}
        /\ clock' = clock /\ acc' = acc /\ rows' = rows /\ ticks' = ticks
    BY <1>7 DEF Start
  <2>2. WrittenBefore(acc', written')
    BY <2>1 DEF WrittenBefore
  <2>3. session \in Nat
    BY DEF RowInv
  <2>4. session' # session /\ session' \in Nat
    BY <2>1, <2>3
  <2>5. QED
    BY <2>1, <2>2, <2>4 DEF RowInv
<1>8. CASE Clock
  <2>1. clock' \in Slots /\ UNCHANGED <<session, ticks, status, acc, rows, written>>
    BY <1>8 DEF Clock, folding, history
  <2>2. QED
    BY <2>1 DEF RowInv, RowsKept, WrittenBefore
<1>9. CASE UNCHANGED vars
  BY <1>3, <1>9 DEF vars, folding, history
<1>10. QED
  BY <1>1, <1>2, <1>4, <1>5, <1>6, <1>7, <1>8, <1>9 DEF Next

\* However the clock is stepped and the disk fails, a session never writes a
\* row twice: no later flush erases what an earlier one recorded.
THEOREM RowsWrittenOnce == Spec => RowWrittenOnce
<1>1. RowInv /\ [Next]_vars => RowInv'
  BY RowStep
<1>2. RowInv /\ [Next]_vars =>
        [session' = session =>
           \A k \in written :
             rows'[k[1]][k[2]][k[3]] \in {rows[k[1]][k[2]][k[3]], {}}]_vars
  BY RowStep DEF RowsKept
<1>3. QED
  BY <1>1, <1>2, RowInit, PTL DEF Spec, RowWrittenOnce

-----------------------------------------------------------------------------
(* Types *)

\* What the write edges and the rows leave open.
RestInv ==
  /\ status \in {"running", "finished", "crashed"}
  /\ session \in 0..MaxSessions /\ ticks \in 0..MaxTicks
  /\ seen \in SUBSET Devices
  /\ flushes \in 0..(PruneEvery - 1)
  /\ newest \in Slots
  /\ frames \in [Devices -> [Slots -> SUBSET Frame]]

LEMMA RestInit == Init => RestInv
<1> SUFFICES ASSUME Init PROVE RestInv
  OBVIOUS
<1>1. /\ session \in 0..MaxSessions /\ ticks \in 0..MaxTicks
      /\ flushes \in 0..(PruneEvery - 1) /\ newest \in Slots
  BY RecorderAssumption DEF Init, Slots
<1>2. QED
  BY <1>1 DEF Init, RestInv

LEMMA RestStep == RowInv /\ RestInv /\ [Next]_vars => RestInv'
<1> SUFFICES ASSUME RowInv, RestInv, [Next]_vars PROVE RestInv'
  OBVIOUS
<1>0. /\ PruneEvery \in Nat \ {0} /\ MaxTicks \in Nat /\ MaxSessions \in Nat
      /\ MaxSlot \in Nat
  BY RecorderAssumption
<1>1. ASSUME NEW d \in Devices, NEW withProcs \in BOOLEAN,
             NEW ok \in [1..4 -> BOOLEAN], Observe(d, withProcs, ok)
      PROVE  RestInv'
  <2> DEFINE ten == Crosses(acc["10s"][d], BucketOf("10s", clock))
  <2>1. /\ seen' = seen \union {d}
        /\ newest' = IF clock > newest THEN clock ELSE newest
        /\ flushes' = IF PruneDue(ten) THEN 0 ELSE IF ten THEN flushes + 1 ELSE flushes
        /\ frames' = [frames EXCEPT ![d][clock] = frames[d][clock] \union {<<session, ticks>>}]
        /\ UNCHANGED <<status, session, ticks>>
    BY <1>1 DEF Observe, Tiers
  <2> HIDE DEF ten
  <2>2. flushes' \in 0..(PruneEvery - 1)
    BY <1>0, <2>1 DEF PruneDue, RestInv
  <2>3. newest' \in Slots
    BY <2>1 DEF RestInv, RowInv
  <2>4. frames' \in [Devices -> [Slots -> SUBSET Frame]]
    BY <2>1 DEF RestInv, RowInv, Frame
  <2>5. QED
    BY <2>1, <2>2, <2>3, <2>4 DEF RestInv
<1>2. ASSUME NEW others \in BOOLEAN, NEW ok \in BOOLEAN,
             EndTick(others, ok) \/ PanickedTick(ok)
      PROVE  RestInv'
  <2>1. ticks < MaxTicks /\ ticks' = ticks + 1
    BY <1>2 DEF EndTick, PanickedTick
  <2>2. ticks' \in 0..MaxTicks
    BY <1>0, <2>1 DEF RestInv
  <2>3. QED
    BY <1>2, <2>2 DEF EndTick, PanickedTick, RestInv
<1>3. ASSUME NEW ok \in [1..4 -> BOOLEAN], Finish(ok)
      PROVE  RestInv'
  BY <1>3 DEF Finish, RestInv
<1>4. CASE Crash
  BY <1>4 DEF Crash, history, RestInv
<1>5. ASSUME NEW ok \in BOOLEAN, Start(ok)
      PROVE  RestInv'
  <2>1. session' \in 0..MaxSessions /\ flushes' \in 0..(PruneEvery - 1)
        /\ newest' \in Slots
    BY <1>0, <1>5 DEF Start, RestInv, Slots
  <2>2. QED
    BY <1>5, <2>1 DEF Start, RestInv
<1>6. CASE Clock
  BY <1>6 DEF Clock, folding, history, RestInv
<1>7. CASE UNCHANGED vars
  BY <1>7 DEF vars, folding, history, RestInv
<1>8. QED
  BY <1>1, <1>2, <1>3, <1>4, <1>5, <1>6, <1>7 DEF Next

\* However the clock is stepped and the disk fails, the Recorder stays in its
\* types: a bucket number never leaves the clock's, and the flushes counted
\* towards a prune never reach its period (Recorder::observe).
THEOREM RecorderTypes == Spec => []TypeOK
<1>1. RowInv /\ RestInv /\ EdgeIInv => TypeOK
  BY DEF RowInv, AccType, RowsType, Key, RestInv, EdgeIInv, EdgeInv, TallyType, TypeOK
<1>2. RowInv /\ [Next]_vars => RowInv'
  BY RowStep
<1>3. QED
  BY <1>1, <1>2, RowInit, RestInit, RestStep, EdgeInit, EdgeStep, PTL DEF Spec

-----------------------------------------------------------------------------
(* What a prune deletes, under a clock that only runs *)

\* No frame is later than the clock, and a bucket that accumulates holds one.
PruneInv ==
  /\ newest <= clock
  /\ \A tier \in Tiers, d \in Devices :
       acc[tier][d].bucket # None => acc[tier][d].frames # {}

LEMMA PruneInit == Init => PruneInv
BY DEF Init, NoBucket, PruneInv

\* A replaced row that holds a frame leaves no other row empty.
LEMMA PutNonEmpty ==
  ASSUME NEW rs \in RowsType, NEW put \in BOOLEAN, NEW tier \in Tiers,
         NEW d \in Devices, NEW a \in AccType,
         put => a.bucket \in Slots /\ a.frames # {},
         NEW k \in Key, rs[k[1]][k[2]][k[3]] # {}
  PROVE  PutRow(rs, put, tier, d, a)[k[1]][k[2]][k[3]] # {}
<1>1. CASE ~put
  BY <1>1 DEF PutRow
<1>2. CASE put /\ k[1] = tier /\ k[2] = d /\ k[3] = a.bucket
  <2>1. PutRow(rs, put, tier, d, a) = [rs EXCEPT ![tier][d][a.bucket] = a.frames]
    BY <1>2 DEF PutRow
  <2>2. a.bucket \in Slots /\ a.frames # {} /\ a.frames \in SUBSET Frame
    BY <1>2 DEF AccType
  <2> DEFINE new == PutRow(rs, put, tier, d, a)
  <2>3. new[tier][d][a.bucket] = a.frames /\ a.frames # {}
    BY <2>1, <2>2 DEF RowsType
  <2> HIDE DEF new
  <2>4. new[k[1]][k[2]][k[3]] # {}
    BY <1>2, <2>3
  <2>5. QED
    BY <2>4 DEF new
<1>3. CASE put /\ ~(k[1] = tier /\ k[2] = d /\ k[3] = a.bucket)
  BY <1>3, PutStep
<1>4. QED
  BY <1>1, <1>2, <1>3

\* A fold leaves no empty bucket.
LEMMA FoldNonEmpty ==
  ASSUME NEW a \in AccType, NEW b \in Slots, NEW f
  PROVE  Fold(a, b, f).frames # {}
<1>1. a.frames \in SUBSET Frame
  BY DEF AccType
<1>2. CASE a.bucket = None \/ Crosses(a, b)
  BY <1>2 DEF Fold
<1>3. CASE ~(a.bucket = None \/ Crosses(a, b))
  <2>1. Fold(a, b, f) = [a EXCEPT !.frames = a.frames \union {f}]
    BY <1>3 DEF Fold
  <2>2. Fold(a, b, f).frames = a.frames \union {f}
    BY <2>1 DEF AccType
  <2>3. QED
    BY <1>1, <2>2
<1>4. QED
  BY <1>2, <1>3

LEMMA ObservePrunes ==
  ASSUME RowInv, RestInv, PruneInv, NEW d \in Devices, NEW withProcs \in BOOLEAN,
         NEW ok \in [1..4 -> BOOLEAN], Observe(d, withProcs, ok)
  PROVE  PruneInv' /\ PrunesPastRetention
<1> DEFINE a(tier) == acc[tier][d]
           b(tier) == BucketOf(tier, clock)
           ten == Crosses(a("10s"), b("10s"))
           min == Crosses(a("1m"), b("1m"))
           now == IF clock > newest THEN clock ELSE newest
           put10 == PutRow(rows, ten /\ ok[1], "10s", d, a("10s"))
           put == PutRow(put10, min /\ ok[2], "1m", d, a("1m"))
           done == PruneDue(ten) /\ ok[4]
           f == <<session, ticks>>
<1>1. /\ acc' = [tier \in Tiers |-> [acc[tier] EXCEPT ![d] = Fold(a(tier), b(tier), f)]]
      /\ newest' = now /\ clock' = clock
      /\ rows' = Prune(put, done, now)
  BY DEF Observe, Tiers
<1>2. /\ clock \in Int /\ newest \in Int /\ clock \in Slots
      /\ acc \in [Tiers -> [Devices -> AccType]] /\ rows \in RowsType
      /\ "10s" \in Tiers /\ "1m" \in Tiers
      /\ ok[1] \in BOOLEAN /\ ok[2] \in BOOLEAN /\ ok[4] \in BOOLEAN
  BY RecorderAssumption DEF RowInv, RestInv, Slots, Tiers
<1>3. now = clock
  <2>1. newest <= clock
    BY DEF PruneInv
  <2>2. QED
    BY <1>2, <2>1
<1>4. ASSUME NEW tier \in Tiers, NEW e \in Devices, acc'[tier][e].bucket # None
      PROVE  acc'[tier][e].frames # {}
  <2>1. CASE e = d
    <3>1. acc'[tier][e] = Fold(a(tier), b(tier), f)
      BY <1>1, <1>2, <2>1
    <3>2. a(tier) \in AccType /\ b(tier) \in Slots
      BY <1>2, BucketInSlots
    <3>3. QED
      BY <3>1, <3>2, FoldNonEmpty
  <2>2. CASE e # d
    <3>1. acc'[tier][e] = acc[tier][e]
      BY <1>1, <1>2, <2>2
    <3>2. QED
      BY <1>4, <3>1 DEF PruneInv
  <2>3. QED
    BY <2>1, <2>2
<1>5. PruneInv'
  <2>1. newest' <= clock'
    BY <1>1, <1>2, <1>3
  <2>2. QED
    BY <1>4, <2>1 DEF PruneInv
<1>6. /\ ten \in BOOLEAN /\ min \in BOOLEAN
      /\ ten => a("10s").bucket \in Slots /\ a("10s").frames # {}
      /\ min => a("1m").bucket \in Slots /\ a("1m").frames # {}
      /\ a("10s") \in AccType /\ a("1m") \in AccType
  <2>1. \A tier \in Tiers : a(tier) \in AccType /\ b(tier) \in Slots
    BY <1>2, BucketInSlots
  <2>2. QED
    BY <1>2, <2>1 DEF Crosses, AccType, PruneInv
<1> HIDE DEF ten, min, a, b
<1>7. put10 \in RowsType /\ \A k \in Key : rows[k[1]][k[2]][k[3]] # {}
                                            => put10[k[1]][k[2]][k[3]] # {}
  <2> DEFINE made == ten /\ ok[1]
  <2>1. made \in BOOLEAN /\ (made => a("10s").bucket \in Slots /\ a("10s").frames # {})
    BY <1>2, <1>6
  <2> HIDE DEF made
  <2>2. PutRow(rows, made, "10s", d, a("10s")) \in RowsType
    BY <1>2, <1>6, <2>1, PutStep
  <2>3. \A k \in Key : rows[k[1]][k[2]][k[3]] # {}
          => PutRow(rows, made, "10s", d, a("10s"))[k[1]][k[2]][k[3]] # {}
    BY <1>2, <1>6, <2>1, PutNonEmpty
  <2>4. QED
    BY <2>2, <2>3 DEF made
<1> HIDE DEF put10
<1>8. put \in RowsType /\ \A k \in Key : put10[k[1]][k[2]][k[3]] # {}
                                          => put[k[1]][k[2]][k[3]] # {}
  <2> DEFINE made == min /\ ok[2]
  <2>1. made \in BOOLEAN /\ (made => a("1m").bucket \in Slots /\ a("1m").frames # {})
    BY <1>2, <1>6
  <2> HIDE DEF made
  <2>2. PutRow(put10, made, "1m", d, a("1m")) \in RowsType
    BY <1>2, <1>6, <1>7, <2>1, PutStep
  <2>3. \A k \in Key : put10[k[1]][k[2]][k[3]] # {}
          => PutRow(put10, made, "1m", d, a("1m"))[k[1]][k[2]][k[3]] # {}
    <3>1. put10 \in RowsType /\ "1m" \in Tiers /\ a("1m") \in AccType
      BY <1>2, <1>6, <1>7
    <3> DEFINE it == a("1m")
    <3>2. it \in AccType /\ (made => it.bucket \in Slots /\ it.frames # {})
      BY <2>1, <3>1
    <3> HIDE DEF it
    <3>3. \A k \in Key : put10[k[1]][k[2]][k[3]] # {}
            => PutRow(put10, made, "1m", d, it)[k[1]][k[2]][k[3]] # {}
      BY <2>1, <3>1, <3>2, PutNonEmpty
    <3>4. QED
      BY <3>3 DEF it
  <2>4. QED
    BY <2>2, <2>3 DEF made
<1> HIDE DEF put
<1>9. ASSUME NEW tier \in Tiers, NEW e \in Devices, NEW slot \in Slots,
             rows[tier][e][slot] # {}, rows'[tier][e][slot] = {}
      PROVE  slot * Width(tier) + Retention[tier] < clock
  <2>1. put[tier][e][slot] # {}
    <3>1. <<tier, e, slot>> \in Key
      BY DEF Key
    <3>2. QED
      BY <1>7, <1>8, <1>9, <3>1
  <2>2. done
    BY <1>1, <1>9, <2>1 DEF Prune
  <2>3. rows'[tier][e][slot] = IF Kept(tier, slot, now) THEN put[tier][e][slot] ELSE {}
    BY <1>1, <2>2 DEF Prune
  <2>4. ~Kept(tier, slot, clock)
    BY <1>3, <1>9, <2>1, <2>3
  <2> DEFINE last == slot * Width(tier) + Retention[tier]
  <2>5. last \in Int
    BY RecorderAssumption DEF Width, Slots
  <2>6. ~(last >= clock)
    BY <2>4 DEF Kept
  <2> HIDE DEF last
  <2>7. last < clock
    BY <1>2, <2>5, <2>6
  <2>8. QED
    BY <2>7 DEF last
<1>10. QED
  BY <1>5, <1>9 DEF PrunesPastRetention

LEMMA FinishPrunes ==
  ASSUME RowInv, PruneInv, NEW ok \in [1..4 -> BOOLEAN], Finish(ok)
  PROVE  PruneInv' /\ PrunesPastRetention
<1>1. /\ clock' = clock /\ newest' = newest
      /\ acc' = [tier \in Tiers |-> [d \in Devices |-> NoBucket]]
  BY DEF Finish
<1>2. PruneInv'
  BY <1>1 DEF PruneInv, NoBucket
<1>3. ASSUME NEW tier \in Tiers, NEW d \in Devices, NEW b \in Slots,
             rows[tier][d][b] # {}
      PROVE  rows'[tier][d][b] # {}
  <2>1. \/ rows'[tier][d][b] = rows[tier][d][b]
        \/ acc[tier][d].bucket = b /\ rows'[tier][d][b] = acc[tier][d].frames
    BY DEF Finish
  <2>2. b # None
    BY RecorderAssumption DEF Slots
  <2>3. QED
    BY <1>3, <2>1, <2>2 DEF PruneInv
<1>4. QED
  BY <1>2, <1>3 DEF PrunesPastRetention

\* A step that does not set the clock back prunes past retention only.
LEMMA PrunesStep ==
  ASSUME RowInv, RestInv, PruneInv, [Next]_vars, clock' >= clock
  PROVE  PruneInv' /\ PrunesPastRetention
<1>0. clock \in Int /\ clock' \in Int /\ newest \in Int
  <2>1. RowInv'
    BY RowStep
  <2>2. QED
    BY <2>1, RecorderAssumption DEF RowInv, RestInv, Slots
<1>1. ASSUME NEW d \in Devices, NEW withProcs \in BOOLEAN,
             NEW ok \in [1..4 -> BOOLEAN], Observe(d, withProcs, ok)
      PROVE  PruneInv' /\ PrunesPastRetention
  BY <1>1, ObservePrunes
<1>2. ASSUME NEW ok \in [1..4 -> BOOLEAN], Finish(ok)
      PROVE  PruneInv' /\ PrunesPastRetention
  BY <1>2, FinishPrunes
<1>3. ASSUME rows' = rows,
             acc' = acc \/ acc' = [tier \in Tiers |-> [d \in Devices |-> NoBucket]],
             newest' <= clock'
      PROVE  PruneInv' /\ PrunesPastRetention
  BY <1>3 DEF PruneInv, PrunesPastRetention, NoBucket
<1>4. newest <= clock'
  BY <1>0 DEF PruneInv
<1>5. ASSUME NEW others \in BOOLEAN, NEW ok \in BOOLEAN,
             EndTick(others, ok) \/ PanickedTick(ok)
      PROVE  PruneInv' /\ PrunesPastRetention
  BY <1>3, <1>4, <1>5 DEF EndTick, PanickedTick
<1>6. CASE Crash \/ Clock \/ UNCHANGED vars
  BY <1>3, <1>4, <1>6 DEF Crash, Clock, vars, folding, history
<1>7. ASSUME NEW ok \in BOOLEAN, Start(ok)
      PROVE  PruneInv' /\ PrunesPastRetention
  <2>1. newest' = 0 /\ acc' = acc /\ rows' = rows /\ clock' = clock
    BY <1>7 DEF Start
  <2>2. 0 <= clock
    BY RecorderAssumption DEF RowInv, Slots
  <2>3. QED
    BY <1>3, <2>1, <2>2
<1>8. QED
  BY <1>1, <1>2, <1>5, <1>6, <1>7 DEF Next

\* Whatever fails, under a clock that runs only rows past their tier's
\* retention are deleted, and no flush overwrites a row with an empty one
\* (RETAIN_10S_MS, RETAIN_1M_MS, Recorder::observe).
THEOREM RunningClockKeepsRetention == Spec2 => RunningPruneKeeps
<1> DEFINE Running == setting = "disk" => PruneInv
<1>1. Init2 => RowInv /\ RestInv /\ Running
  BY RowInit, RestInit, PruneInit DEF Init2
<1>2. RowInv /\ RestInv /\ Running /\ [Next2]_<<vars, setting>>
        => /\ RowInv' /\ RestInv' /\ Running'
           /\ [setting = "disk" => PrunesPastRetention]_vars
  <2> SUFFICES ASSUME RowInv, RestInv, Running, [Next2]_<<vars, setting>>
               PROVE  /\ RowInv' /\ RestInv' /\ Running'
                      /\ setting = "disk" => PrunesPastRetention
    OBVIOUS
  <2>1. [Next]_vars /\ setting' = setting
    BY DEF Next2
  <2>2. RowInv' /\ RestInv'
    BY <2>1, RowStep, RestStep
  <2>3. ASSUME setting = "disk" PROVE PruneInv' /\ PrunesPastRetention
    <3>1. PruneInv
      BY <2>3
    <3>2. clock \in Int /\ clock' \in {clock, clock + 1}
      BY <2>3, RecorderAssumption DEF Next2, RowInv, Slots, vars
    <3>3. clock' >= clock
      BY <3>2
    <3>4. QED
      BY <2>1, <3>1, <3>3, PrunesStep
  <2>4. QED
    BY <2>1, <2>2, <2>3
<1>3. QED
  BY <1>1, <1>2, PTL DEF Spec2, RunningPruneKeeps

-----------------------------------------------------------------------------
(* What one observation does to the rows and the frames of a device *)

\* Every row after one is replaced.
LEMMA PutExact ==
  ASSUME NEW rs \in RowsType, NEW put \in BOOLEAN, NEW tier \in Tiers,
         NEW d \in Devices, NEW a \in AccType, put => a.bucket \in Slots,
         NEW t \in Tiers, NEW e \in Devices, NEW x \in Slots
  PROVE  PutRow(rs, put, tier, d, a)[t][e][x]
           = IF put /\ t = tier /\ e = d /\ x = a.bucket THEN a.frames
             ELSE rs[t][e][x]
<1>1. CASE ~put
  BY <1>1 DEF PutRow
<1>2. CASE put
  <2>1. PutRow(rs, put, tier, d, a) = [rs EXCEPT ![tier][d][a.bucket] = a.frames]
    BY <1>2 DEF PutRow
  <2>2. a.bucket \in Slots
    BY <1>2
  <2>3. QED
    <3> DEFINE row == [rs[tier][d] EXCEPT ![a.bucket] = a.frames]
    <3>1. PutRow(rs, put, tier, d, a)[t][e] = IF t = tier /\ e = d THEN row ELSE rs[t][e]
      BY <2>1 DEF RowsType
    <3>2. row[x] = IF x = a.bucket THEN a.frames ELSE rs[tier][d][x]
      BY <2>2 DEF RowsType
    <3> HIDE DEF row
    <3>3. QED
      BY <1>2, <3>1, <3>2
<1>3. QED
  BY <1>1, <1>2

\* The row a completed bucket leaves: it is the accumulator's frames where its
\* write is made, and only a prune past retention empties a row.
LEMMA ObservedRow ==
  ASSUME RowInv, NEW d \in Devices, NEW withProcs \in BOOLEAN,
         NEW ok \in [1..4 -> BOOLEAN], Observe(d, withProcs, ok),
         NEW tier \in Tiers, NEW e \in Devices, NEW x \in Slots
  PROVE  LET a == acc[tier][d]
             b == BucketOf(tier, clock)
             made == Crosses(a, b) /\ ok[IF tier = "10s" THEN 1 ELSE 2]
             left == IF e = d /\ made /\ x = a.bucket THEN a.frames
                     ELSE rows[tier][e][x]
         IN  /\ acc'[tier][e] = IF e = d THEN Fold(a, b, <<session, ticks>>)
                                ELSE acc[tier][e]
             /\ rows'[tier][e][x] \in {left, {}}
             /\ Kept(tier, x, newest') => rows'[tier][e][x] = left
<1> DEFINE b(t) == BucketOf(t, clock)
           a(t) == acc[t][d]
           p10 == Crosses(a("10s"), b("10s")) /\ ok[1]
           p1m == Crosses(a("1m"), b("1m")) /\ ok[2]
           put10 == PutRow(rows, p10, "10s", d, a("10s"))
           put == PutRow(put10, p1m, "1m", d, a("1m"))
           now == IF clock > newest THEN clock ELSE newest
           done == PruneDue(Crosses(a("10s"), b("10s"))) /\ ok[4]
           made == Crosses(a(tier), b(tier)) /\ ok[IF tier = "10s" THEN 1 ELSE 2]
           left == IF e = d /\ made /\ x = a(tier).bucket THEN a(tier).frames
                   ELSE rows[tier][e][x]
<1>0. /\ clock \in Slots /\ rows \in RowsType
      /\ acc \in [Tiers -> [Devices -> AccType]]
      /\ "10s" \in Tiers /\ "1m" \in Tiers
  BY DEF RowInv, Tiers
<1>1. /\ acc' = [t \in Tiers |-> [acc[t] EXCEPT ![d] = Fold(a(t), b(t), <<session, ticks>>)]]
      /\ rows' = Prune(put, done, now) /\ newest' = now
  BY DEF Observe, Tiers
<1>2. acc'[tier][e] = IF e = d THEN Fold(a(tier), b(tier), <<session, ticks>>)
                      ELSE acc[tier][e]
  BY <1>0, <1>1
<1>3. \A t \in Tiers : a(t) \in AccType /\ (Crosses(a(t), b(t)) => a(t).bucket \in Slots)
  BY <1>0 DEF AccType, Crosses
<1>4. /\ p10 \in BOOLEAN /\ (p10 => a("10s").bucket \in Slots) /\ a("10s") \in AccType
      /\ p1m \in BOOLEAN /\ (p1m => a("1m").bucket \in Slots) /\ a("1m") \in AccType
      /\ done \in BOOLEAN
  BY <1>0, <1>3 DEF Crosses, PruneDue
<1>5. made <=> (tier = "10s" /\ p10) \/ (tier = "1m" /\ p1m)
  BY DEF Tiers
<1> HIDE DEF p10, p1m, a, b, now, done, made
<1>6. put10[tier][e][x] = IF p10 /\ tier = "10s" /\ e = d /\ x = a("10s").bucket
                          THEN a("10s").frames ELSE rows[tier][e][x]
  BY <1>0, <1>4, PutExact
<1>7. put10 \in RowsType
  BY <1>0, <1>4, PutStep
<1> HIDE DEF put10
<1>8. put[tier][e][x] = IF p1m /\ tier = "1m" /\ e = d /\ x = a("1m").bucket
                        THEN a("1m").frames ELSE put10[tier][e][x]
  BY <1>0, <1>4, <1>7, PutExact
<1> HIDE DEF put
<1>9. put[tier][e][x] = left
  <2>1. CASE tier = "10s"
    BY <1>5, <1>6, <1>8, <2>1
  <2>2. CASE tier = "1m"
    BY <1>5, <1>6, <1>8, <2>2
  <2>3. QED
    BY <2>1, <2>2 DEF Tiers
<1>10. Prune(put, done, now)[tier][e][x]
         = IF done /\ ~Kept(tier, x, now) THEN {} ELSE put[tier][e][x]
  BY <1>4 DEF Prune
<1>11. /\ rows'[tier][e][x] \in {left, {}}
       /\ Kept(tier, x, newest') => rows'[tier][e][x] = left
  BY <1>1, <1>9, <1>10
<1>12. QED
  BY <1>2, <1>11 DEF a, b, made

\* The frame observed is stamped in the bucket the clock is in, and no other.
LEMMA ObservedFrames ==
  ASSUME RowInv, RestInv, NEW d \in Devices, NEW withProcs \in BOOLEAN,
         NEW ok \in [1..4 -> BOOLEAN], Observe(d, withProcs, ok),
         NEW e \in Devices
  PROVE  LET f == <<session, ticks>>
         IN  /\ Observed(e)' = IF e = d THEN Observed(d) \union {f} ELSE Observed(e)
             /\ \A tier \in Tiers, x \in Slots :
                  FramesIn(tier, e, x)'
                    = IF e = d /\ x = BucketOf(tier, clock)
                      THEN FramesIn(tier, d, x) \union {f} ELSE FramesIn(tier, e, x)
<1> DEFINE f == <<session, ticks>>
<1>1. frames' = [frames EXCEPT ![d][clock] = frames[d][clock] \union {f}]
  BY DEF Observe
<1>2. clock \in Slots /\ frames \in [Devices -> [Slots -> SUBSET Frame]]
  BY DEF RowInv, RestInv
<1> HIDE DEF f
<1>3. \A s \in Slots : frames'[e][s] = IF e = d /\ s = clock THEN frames[d][s] \union {f}
                                       ELSE frames[e][s]
  BY <1>1, <1>2
<1>4. \A g : g \in Observed(e)' <=> \E s \in Slots : g \in frames'[e][s]
  BY DEF Observed
<1>5. \A g : g \in Observed(e) <=> \E s \in Slots : g \in frames[e][s]
  BY DEF Observed
<1>6. Observed(e)' = IF e = d THEN Observed(d) \union {f} ELSE Observed(e)
  BY <1>2, <1>3, <1>4, <1>5
<1>7. ASSUME NEW tier \in Tiers, NEW x \in Slots
      PROVE  FramesIn(tier, e, x)'
               = IF e = d /\ x = BucketOf(tier, clock)
                 THEN FramesIn(tier, d, x) \union {f} ELSE FramesIn(tier, e, x)
  <2>1. \A g : g \in FramesIn(tier, e, x)'
                 <=> \E s \in Slots : BucketOf(tier, s) = x /\ g \in frames'[e][s]
    BY DEF FramesIn
  <2>2. \A g : g \in FramesIn(tier, e, x)
                 <=> \E s \in Slots : BucketOf(tier, s) = x /\ g \in frames[e][s]
    BY DEF FramesIn
  <2>3. CASE e = d /\ x = BucketOf(tier, clock)
    <3>1. \A g : g \in FramesIn(tier, e, x)' <=> g \in FramesIn(tier, e, x) \/ g = f
      <4>1. ASSUME NEW g, g \in FramesIn(tier, e, x)'
            PROVE  g \in FramesIn(tier, e, x) \/ g = f
        <5>1. PICK s \in Slots : BucketOf(tier, s) = x /\ g \in frames'[e][s]
          BY <2>1, <4>1
        <5>2. g \in frames[e][s] \/ g = f
          BY <1>3, <2>3, <5>1
        <5>3. QED
          BY <2>2, <5>1, <5>2
      <4>2. ASSUME NEW g, g \in FramesIn(tier, e, x) \/ g = f
            PROVE  g \in FramesIn(tier, e, x)'
        BY <1>2, <1>3, <2>1, <2>2, <2>3, <4>2
      <4>3. QED
        BY <4>1, <4>2
    <3>2. QED
      BY <2>3, <3>1
  <2>4. CASE ~(e = d /\ x = BucketOf(tier, clock))
    <3>1. \A s \in Slots : BucketOf(tier, s) = x => frames'[e][s] = frames[e][s]
      BY <1>3, <2>4
    <3>2. \A g : g \in FramesIn(tier, e, x)' <=> g \in FramesIn(tier, e, x)
      BY <2>1, <2>2, <3>1
    <3>3. QED
      BY <2>4, <3>2
  <2>5. QED
    BY <2>3, <2>4
<1>8. QED
  BY <1>6, <1>7 DEF f

-----------------------------------------------------------------------------
(* No frame is counted twice, whatever the clock and the disk do *)

\* The frame a device would be observed with now is one no row has yet.
FramesArePast ==
  \A d \in Devices, s \in Slots :
    /\ \A g \in frames[d][s] : g[1] <= session /\ g[2] <= ticks
    /\ <<session, ticks>> \in frames[d][s] => d \in seen \/ status # "running"

\* The rows R of a device in a tier and its accumulator a hold each of the
\* observed frames O at most once.
EachOnce(R, a, O) ==
  /\ a.frames \subseteq O
  /\ \A b \in Slots :
       /\ R[b] \subseteq O \ a.frames
       /\ \A c \in Slots \ {b} : R[b] \intersect R[c] = {}

CountInv == FramesArePast /\ NoFrameCountedTwice

LEMMA CountIs ==
  NoFrameCountedTwice <=>
    \A tier \in Tiers, d \in Devices : EachOnce(rows[tier][d], acc[tier][d], Observed(d))
BY DEF NoFrameCountedTwice, EachOnce

LEMMA CountInit == Init => CountInv
<1> SUFFICES ASSUME Init PROVE CountInv
  OBVIOUS
<1>1. FramesArePast
  BY DEF Init, FramesArePast
<1>2. NoFrameCountedTwice
  BY DEF Init, NoBucket, NoFrameCountedTwice
<1>3. QED
  BY <1>1, <1>2 DEF CountInv

\* An observation with a new frame: the accumulator takes it, or gives its
\* frames to the row of its bucket and starts with it.
LEMMA EachOnceStep ==
  ASSUME NEW R, NEW R2, NEW a \in AccType, NEW O, NEW b, NEW f, f \notin O,
         EachOnce(R, a, O),
         \A x \in Slots : \/ R2[x] \in {R[x], {}}
                          \/ Crosses(a, b) /\ x = a.bucket /\ R2[x] = a.frames
  PROVE  EachOnce(R2, Fold(a, b, f), O \union {f})
<1> DEFINE a2 == Fold(a, b, f)
<1>1. CASE Crosses(a, b)
  <2>1. a2.frames = {f}
    BY <1>1 DEF Fold
  <2>2. \A x \in Slots : R2[x] \subseteq O
    BY DEF EachOnce
  <2>3. ASSUME NEW x \in Slots, NEW y \in Slots \ {x}
        PROVE  R2[x] \intersect R2[y] = {}
    BY <2>3 DEF EachOnce
  <2> HIDE DEF a2
  <2>4. EachOnce(R2, a2, O \union {f})
    BY <2>1, <2>2, <2>3 DEF EachOnce
  <2>5. QED
    BY <2>4 DEF a2
<1>2. CASE ~Crosses(a, b)
  <2>1. a2.frames \subseteq a.frames \union {f}
    <3>1. CASE a.bucket = None
      BY <3>1 DEF Fold
    <3>2. CASE a.bucket # None
      BY <1>2, <3>2 DEF Fold, AccType
    <3>3. QED
      BY <3>1, <3>2
  <2>2. \A x \in Slots : R2[x] \subseteq R[x]
    BY <1>2
  <2> HIDE DEF a2
  <2>3. EachOnce(R2, a2, O \union {f})
    BY <2>1, <2>2 DEF EachOnce
  <2>4. QED
    BY <2>3 DEF a2
<1>3. QED
  BY <1>1, <1>2

LEMMA ObserveCounts ==
  ASSUME RowInv, RestInv, CountInv, NEW d \in Devices, NEW withProcs \in BOOLEAN,
         NEW ok \in [1..4 -> BOOLEAN], Observe(d, withProcs, ok)
  PROVE  CountInv'
<1> DEFINE f == <<session, ticks>>
<1>1. /\ status = "running" /\ d \notin seen /\ seen' = seen \union {d}
      /\ UNCHANGED <<status, session, ticks>>
      /\ frames' = [frames EXCEPT ![d][clock] = frames[d][clock] \union {f}]
  BY DEF Observe
<1>2. /\ session \in Nat /\ ticks \in Nat /\ clock \in Slots
      /\ frames \in [Devices -> [Slots -> SUBSET Frame]]
      /\ acc \in [Tiers -> [Devices -> AccType]]
  BY DEF RowInv, RestInv
<1>3. f \notin Observed(d)
  BY <1>1 DEF CountInv, FramesArePast, Observed
<1>4. FramesArePast'
  <2> SUFFICES ASSUME NEW e \in Devices, NEW s \in Slots
               PROVE  /\ \A g \in frames'[e][s] : g[1] <= session' /\ g[2] <= ticks'
                      /\ <<session', ticks'>> \in frames'[e][s]
                           => e \in seen' \/ status' # "running"
    BY DEF FramesArePast
  <2>1. frames'[e][s] = IF e = d /\ s = clock THEN frames[d][clock] \union {f}
                        ELSE frames[e][s]
    BY <1>1, <1>2
  <2>2. f[1] <= session /\ f[2] <= ticks
    BY <1>2
  <2>3. /\ \A g \in frames[e][s] : g[1] <= session /\ g[2] <= ticks
        /\ <<session, ticks>> \in frames[e][s] => e \in seen
    BY <1>1 DEF CountInv, FramesArePast
  <2> HIDE DEF f
  <2>4. \A g \in frames'[e][s] : g[1] <= session /\ g[2] <= ticks
    BY <2>1, <2>2, <2>3
  <2>5. <<session, ticks>> \in frames'[e][s] => e \in seen'
    BY <1>1, <2>1, <2>3
  <2>6. QED
    BY <1>1, <2>4, <2>5
<1>5. ASSUME NEW tier \in Tiers, NEW e \in Devices
      PROVE  EachOnce(rows'[tier][e], acc'[tier][e], Observed(e)')
  <2> DEFINE a == acc[tier][d]
             b == BucketOf(tier, clock)
             R == rows[tier][e]
             R2 == rows'[tier][e]
  <2>1. EachOnce(R, acc[tier][e], Observed(e))
    BY CountIs DEF CountInv
  <2>2. /\ acc'[tier][e] = IF e = d THEN Fold(a, b, f) ELSE acc[tier][e]
        /\ \A x \in Slots : \/ R2[x] \in {R[x], {}}
                            \/ e = d /\ Crosses(a, b) /\ x = a.bucket /\ R2[x] = a.frames
    <3>1. ASSUME NEW x \in Slots
          PROVE  /\ acc'[tier][e] = IF e = d THEN Fold(a, b, f) ELSE acc[tier][e]
                 /\ \/ R2[x] \in {R[x], {}}
                    \/ e = d /\ Crosses(a, b) /\ x = a.bucket /\ R2[x] = a.frames
      BY ObservedRow
    <3>2. QED
      BY <1>2, <3>1
  <2>3. Observed(e)' = IF e = d THEN Observed(d) \union {f} ELSE Observed(e)
    BY ObservedFrames
  <2>4. a \in AccType
    BY <1>2
  <2> HIDE DEF R, R2, a, b, f
  <2>5. CASE e = d
    <3>1. EachOnce(R, a, Observed(d))
      BY <2>1, <2>5 DEF a
    <3>2. EachOnce(R2, Fold(a, b, f), Observed(d) \union {f})
      BY <1>3, <2>2, <2>4, <2>5, <3>1, EachOnceStep
    <3>3. QED
      BY <2>2, <2>3, <2>5, <3>2 DEF R2
  <2>6. CASE e # d
    <3>1. \A x \in Slots : R2[x] \subseteq R[x]
      BY <2>2, <2>6
    <3>2. EachOnce(R2, acc[tier][e], Observed(e))
      BY <2>1, <3>1 DEF EachOnce
    <3>3. QED
      BY <2>2, <2>3, <2>6, <3>2 DEF R2
  <2>7. QED
    BY <2>5, <2>6
<1>6. NoFrameCountedTwice'
  BY <1>5 DEF NoFrameCountedTwice, EachOnce
<1>7. QED
  BY <1>4, <1>6 DEF CountInv

\* A step that leaves the rows and the frames, and keeps or empties what
\* accumulates.
LEMMA KeptCounts ==
  ASSUME NoFrameCountedTwice, UNCHANGED <<rows, frames>>,
         acc' = acc \/ acc' = [tier \in Tiers |-> [d \in Devices |-> NoBucket]]
  PROVE  NoFrameCountedTwice'
<1>1. \A d \in Devices : Observed(d)' = Observed(d)
  BY DEF Observed
<1>2. CASE acc' = acc
  BY <1>1, <1>2 DEF NoFrameCountedTwice
<1>3. CASE acc' = [tier \in Tiers |-> [d \in Devices |-> NoBucket]]
  <2>1. \A tier \in Tiers, d \in Devices : acc'[tier][d].frames = {}
    BY <1>3 DEF NoBucket
  <2>2. QED
    BY <1>1, <2>1 DEF NoFrameCountedTwice
<1>4. QED
  BY <1>2, <1>3

LEMMA FinishCounts ==
  ASSUME RowInv, CountInv, NEW ok \in [1..4 -> BOOLEAN], Finish(ok)
  PROVE  CountInv'
<1>1. /\ UNCHANGED <<session, ticks, seen, frames>> /\ status' = "finished"
      /\ acc' = [tier \in Tiers |-> [d \in Devices |-> NoBucket]]
  BY DEF Finish
<1>2. FramesArePast'
  BY <1>1 DEF CountInv, FramesArePast
<1>3. ASSUME NEW tier \in Tiers, NEW d \in Devices
      PROVE  EachOnce(rows'[tier][d], acc'[tier][d], Observed(d)')
  <2> DEFINE R == rows[tier][d]
             R2 == rows'[tier][d]
             a == acc[tier][d]
  <2>1. EachOnce(R, a, Observed(d))
    BY CountIs DEF CountInv
  <2>2. ASSUME NEW x \in Slots
        PROVE  R2[x] = R[x] \/ (x = a.bucket /\ R2[x] = a.frames)
    BY DEF Finish
  <2>3. Observed(d)' = Observed(d)
    BY <1>1 DEF Observed
  <2>4. acc'[tier][d].frames = {}
    BY <1>1 DEF NoBucket
  <2> HIDE DEF R, R2, a
  <2>5. \A x \in Slots : R2[x] \subseteq Observed(d)
    BY <2>1, <2>2 DEF EachOnce
  <2>6. ASSUME NEW x \in Slots, NEW y \in Slots \ {x}
        PROVE  R2[x] \intersect R2[y] = {}
    BY <2>1, <2>2, <2>6 DEF EachOnce
  <2>7. EachOnce(R2, acc'[tier][d], Observed(d))
    BY <2>4, <2>5, <2>6 DEF EachOnce
  <2>8. QED
    BY <2>3, <2>7 DEF R2
<1>4. NoFrameCountedTwice'
  BY <1>3 DEF NoFrameCountedTwice, EachOnce
<1>5. QED
  BY <1>2, <1>4 DEF CountInv

LEMMA CountStep == RowInv /\ RestInv /\ CountInv /\ [Next]_vars => CountInv'
<1> SUFFICES ASSUME RowInv, RestInv, CountInv, [Next]_vars PROVE CountInv'
  OBVIOUS
<1>0. /\ session \in Nat /\ ticks \in Nat
      /\ frames \in [Devices -> [Slots -> SUBSET Frame]]
      /\ FramesArePast /\ NoFrameCountedTwice
  BY DEF RowInv, RestInv, CountInv
<1>1. ASSUME NEW d \in Devices, NEW withProcs \in BOOLEAN,
             NEW ok \in [1..4 -> BOOLEAN], Observe(d, withProcs, ok)
      PROVE  CountInv'
  BY <1>1, ObserveCounts
<1>2. ASSUME NEW ok \in [1..4 -> BOOLEAN], Finish(ok)
      PROVE  CountInv'
  BY <1>2, FinishCounts
<1>3. ASSUME UNCHANGED frames, session' \in Nat, ticks' \in Nat,
             \/ session' > session /\ ticks' = ticks
             \/ session' = session /\ ticks' > ticks
      PROVE  FramesArePast'
  <2> SUFFICES ASSUME NEW d \in Devices, NEW s \in Slots, NEW g \in frames[d][s]
               PROVE  /\ g[1] <= session' /\ g[2] <= ticks'
                      /\ g # <<session', ticks'>>
    BY <1>3 DEF FramesArePast
  <2>1. g \in Frame /\ g[1] <= session /\ g[2] <= ticks
    BY <1>0 DEF FramesArePast
  <2>2. g[1] \in Nat /\ g[2] \in Nat
    BY <2>1 DEF Frame
  <2>3. /\ g[1] <= session' /\ g[2] <= ticks'
        /\ g[1] # session' \/ g[2] # ticks'
    BY <1>0, <1>3, <2>1, <2>2
  <2>4. QED
    BY <2>3
<1>4. ASSUME NEW others \in BOOLEAN, NEW ok \in BOOLEAN,
             EndTick(others, ok) \/ PanickedTick(ok)
      PROVE  CountInv'
  <2>1. UNCHANGED <<frames, session, acc, rows>> /\ ticks' = ticks + 1
    BY <1>4 DEF EndTick, PanickedTick
  <2>2. FramesArePast'
    BY <1>0, <1>3, <2>1
  <2>3. QED
    BY <1>0, <2>1, <2>2, KeptCounts DEF CountInv
<1>5. CASE Crash
  <2>1. UNCHANGED <<frames, session, ticks, rows>> /\ status' = "crashed"
        /\ acc' = [tier \in Tiers |-> [d \in Devices |-> NoBucket]]
    BY <1>5 DEF Crash, history
  <2>2. FramesArePast'
    BY <1>0, <2>1 DEF FramesArePast
  <2>3. QED
    BY <1>0, <2>1, <2>2, KeptCounts DEF CountInv
<1>6. ASSUME NEW ok \in BOOLEAN, Start(ok)
      PROVE  CountInv'
  <2>1. UNCHANGED <<frames, ticks, acc, rows>> /\ session' = session + 1
    BY <1>6 DEF Start
  <2>2. FramesArePast'
    BY <1>0, <1>3, <2>1
  <2>3. QED
    BY <1>0, <2>1, <2>2, KeptCounts DEF CountInv
<1>7. CASE Clock \/ UNCHANGED vars
  <2>1. UNCHANGED <<frames, session, ticks, seen, status, acc, rows>>
    BY <1>7 DEF Clock, vars, folding, history
  <2>2. FramesArePast'
    BY <1>0, <2>1 DEF FramesArePast
  <2>3. QED
    BY <1>0, <2>1, <2>2, KeptCounts DEF CountInv
<1>8. QED
  BY <1>1, <1>2, <1>4, <1>5, <1>6, <1>7 DEF Next

\* However the clock is stepped, the disk fails and the program restarts, no
\* tier counts a frame twice, and none counts a frame the device did not give.
THEOREM FramesCountedOnce == Spec => []NoFrameCountedTwice
<1>1. CountInv => NoFrameCountedTwice
  BY DEF CountInv
<1>2. RowInv /\ [Next]_vars => RowInv'
  BY RowStep
<1>3. QED
  BY <1>1, <1>2, RowInit, RestInit, RestStep, CountInit, CountStep, PTL DEF Spec

-----------------------------------------------------------------------------
(* Every row is the aggregate of its frames, under a clock that only runs *)

\* A device's rows R in a tier are whole: each is all the frames G of its
\* bucket.
Whole(R, G) == \A x \in Slots : R[x] # {} => R[x] = G[x]

\* While a session runs, all its frames are in the bucket that accumulates or
\* in an earlier one, and the rows are of earlier ones; `top` is the bucket the
\* clock is in.
Accumulates(R, a, G, top) ==
  /\ a.bucket = None => \A x \in Slots : G[x] = {}
  /\ a.bucket # None => /\ a.frames = G[a.bucket] /\ a.bucket <= top
                        /\ \A x \in Slots : x > a.bucket => G[x] = {}
  /\ \A x \in Slots : R[x] # {} => a.bucket # None /\ x < a.bucket

\* The rows and the accumulator account for the frames of the buckets K.
Complete(R, a, G, K) ==
  \A x \in K : R[x] \union (IF a.bucket = x THEN a.frames ELSE {}) = G[x]

InBuckets(tier, d) == [x \in Slots |-> FramesIn(tier, d, x)]
KeptBuckets(tier, now) == {x \in Slots : Kept(tier, x, now)}

DiskInv ==
  /\ session \in {0, 1}
  /\ status # "running" => acc = [tier \in Tiers |-> [d \in Devices |-> NoBucket]]
  /\ session = 0 => /\ status # "running"
                    /\ \A tier \in Tiers, d \in Devices, x \in Slots :
                         rows[tier][d][x] = {} /\ FramesIn(tier, d, x) = {}
  /\ \A tier \in Tiers, d \in Devices :
       LET R == rows[tier][d]
           a == acc[tier][d]
           G == InBuckets(tier, d)
       IN  /\ Whole(R, G)
           /\ status = "running" => Accumulates(R, a, G, BucketOf(tier, clock))
           /\ session = 1 /\ status # "crashed" /\ tally.failed = 0
                => Complete(R, a, G, KeptBuckets(tier, newest))

\* What the invariant says of a row.
LEMMA DiskShows == DiskInv => RowsAreWholeBuckets /\ RowsComplete
<1> SUFFICES ASSUME DiskInv PROVE RowsAreWholeBuckets /\ RowsComplete
  OBVIOUS
<1>1. ASSUME NEW tier \in Tiers, NEW d \in Devices, NEW b \in Slots
      PROVE  /\ rows[tier][d][b] # {} => rows[tier][d][b] = FramesIn(tier, d, b)
             /\ session = 1 /\ status # "crashed" /\ tally.failed = 0
                  /\ Kept(tier, b, newest)
                  => rows[tier][d][b] \union Accumulating(tier, d, b)
                       = FramesIn(tier, d, b)
  <2>1. InBuckets(tier, d)[b] = FramesIn(tier, d, b)
    BY DEF InBuckets
  <2>2. Kept(tier, b, newest) => b \in KeptBuckets(tier, newest)
    BY DEF KeptBuckets
  <2>3. Whole(rows[tier][d], InBuckets(tier, d))
    BY DEF DiskInv
  <2>4. session = 1 /\ status # "crashed" /\ tally.failed = 0
          => Complete(rows[tier][d], acc[tier][d], InBuckets(tier, d),
                      KeptBuckets(tier, newest))
    BY DEF DiskInv
  <2>5. QED
    BY <2>1, <2>2, <2>3, <2>4 DEF Whole, Complete, Accumulating
<1>2. QED
  BY <1>1 DEF RowsAreWholeBuckets, RowsComplete

\* A later bucket is never one of a smaller number.
LEMMA BucketsRun ==
  ASSUME NEW tier \in Tiers, NEW s \in Nat, NEW t \in {s, s + 1}
  PROVE  /\ BucketOf(tier, s) \in Nat /\ BucketOf(tier, t) \in Nat
         /\ BucketOf(tier, s) <= BucketOf(tier, t)
<1>1. \A m \in Nat \ {0}, n \in Nat :
        n \div m \in Nat /\ n % m \in 0..(m - 1) /\ n = m * (n \div m) + (n % m)
  OBVIOUS
<1> DEFINE m == Width(tier)
<1>2. m \in Nat \ {0} /\ t \in Nat
  BY RecorderAssumption DEF Width
<1> HIDE DEF m
<1> DEFINE p == s \div m
           q == t \div m
<1>3. /\ p \in Nat /\ q \in Nat
      /\ m * p <= s /\ t < m * q + m
  <2>1. /\ p \in Nat /\ s % m \in 0..(m - 1) /\ s = m * p + (s % m)
        /\ q \in Nat /\ t % m \in 0..(m - 1) /\ t = m * q + (t % m)
    BY <1>1, <1>2
  <2> HIDE DEF p, q
  <2>2. m * p \in Nat /\ m * q \in Nat
    BY <1>2, <2>1
  <2>3. QED
    BY <1>2, <2>1, <2>2
<1> HIDE DEF p, q
<1>4. ASSUME q < p PROVE FALSE
  <2>1. PICK k \in Nat : p = q + 1 + k
    <3>1. p - q - 1 \in Nat /\ p = q + 1 + (p - q - 1)
      BY <1>3, <1>4
    <3>2. QED
      BY <3>1
  <2>2. m * p = m * q + m + m * k
    BY <1>2, <1>3, <2>1
  <2>3. m * k \in Nat /\ m * q \in Nat /\ m * p \in Nat
    BY <1>2, <1>3
  <2>4. s <= t
    OBVIOUS
  <2>5. QED
    BY <1>2, <1>3, <2>2, <2>3, <2>4
<1>5. p <= q
  BY <1>3, <1>4
<1>6. QED
  BY <1>3, <1>5 DEF BucketOf, p, q, m

\* A tally without failures: no write failed before, and none fails now.
LEMMA NoFailure ==
  ASSUME NEW t \in TallyType, NEW due \in BOOLEAN, NEW nonempty, NEW ok \in BOOLEAN
  PROVE  LET t2 == Tally(t, Write(due, nonempty, ok))
         IN  /\ t2 \in TallyType
             /\ t2.failed = 0 => t.failed = 0 /\ (due => ok)
<1> DEFINE f == IF due /\ ~ok THEN t.failed + 1 ELSE t.failed
           t2 == Tally(t, Write(due, nonempty, ok))
<1>1. t.failed \in Nat /\ t.narrated \in Nat
      /\ t = [failed |-> t.failed, narrated |-> t.narrated]
  BY DEF TallyType
<1>2. t2 = [t EXCEPT !.failed = f]
  BY DEF Tally, Write
<1>3. f \in Nat /\ (f = 0 => t.failed = 0 /\ (due => ok))
  BY <1>1
<1> HIDE DEF f, t2
<1>4. t2 = [failed |-> f, narrated |-> t.narrated]
  BY <1>1, <1>2
<1>5. t2 \in TallyType /\ (t2.failed = 0 => t.failed = 0 /\ (due => ok))
  BY <1>1, <1>3, <1>4 DEF TallyType
<1>6. QED
  BY <1>5 DEF t2

\* The frames by bucket once the frame f is stamped in bucket b.
Stamped(G, G2, b, f) ==
  \A x \in Slots : G2[x] = IF x = b THEN G[x] \union {f} ELSE G[x]

\* The rows once the accumulator's is written, if it is, and a prune has left
\* those of the buckets K.
Left(R, R2, a, made, K) ==
  \A x \in Slots :
    LET left == IF made /\ x = a.bucket THEN a.frames ELSE R[x]
    IN  R2[x] \in {left, {}} /\ (x \in K => R2[x] = left)

\* One observation under a clock that runs, of one tier and device: `b` is the
\* bucket the clock is in, and the frame's.
LEMMA ObserveCell ==
  ASSUME NEW R, NEW R2, NEW a \in AccType, NEW b \in Slots, NEW f \in Frame, NEW G, NEW G2,
         NEW made \in BOOLEAN, made => Crosses(a, b), NEW K \in SUBSET Slots,
         Whole(R, G), Accumulates(R, a, G, b),
         Stamped(G, G2, b, f), Left(R, R2, a, made, K)
  PROVE  /\ Whole(R2, G2)
         /\ Accumulates(R2, Fold(a, b, f), G2, b)
         /\ (Crosses(a, b) => made) /\ Complete(R, a, G, K)
              => Complete(R2, Fold(a, b, f), G2, K)
<1> DEFINE a2 == Fold(a, b, f)
<1> USE DEF Stamped, Left
<1>1. b \in Nat /\ b # None /\ a.bucket \in Slots \union {None}
      /\ \A x \in Slots : x \in Nat /\ x # None
  BY RecorderAssumption DEF AccType, Slots
<1>2. CASE a.bucket = None
  <2>1. a2.bucket = b /\ a2.frames = {f}
    BY <1>2 DEF Fold
  <2>2. ~made /\ \A x \in Slots : R[x] = {} /\ G[x] = {}
    BY <1>2 DEF Accumulates, Crosses
  <2>3. \A x \in Slots : R2[x] = {}
    BY <2>2
  <2>4. \A x \in Slots : G2[x] = IF x = b THEN {f} ELSE {}
    BY <2>2
  <2> HIDE DEF a2
  <2>5. Whole(R2, G2) /\ Complete(R2, a2, G2, K)
    BY <2>1, <2>3, <2>4 DEF Whole, Complete
  <2>6. \A x \in Slots : x > b => x # b
    BY <1>1
  <2>7. Accumulates(R2, a2, G2, b)
    BY <1>1, <2>1, <2>3, <2>4, <2>6 DEF Accumulates
  <2>8. QED
    BY <2>5, <2>7 DEF a2
<1>3. CASE Crosses(a, b)
  <2>1. a2.bucket = b /\ a2.frames = {f}
    BY <1>3 DEF Fold
  <2>2. a.bucket \in Slots /\ a.bucket \in Nat /\ a.bucket < b /\ b > a.bucket
    BY <1>1, <1>3 DEF Crosses
  <2>3. /\ a.frames = G[a.bucket] /\ G[b] = {}
        /\ \A x \in Slots : x > a.bucket => G[x] = {}
        /\ \A x \in Slots : R[x] # {} => x < a.bucket
    <3>1. a.bucket # None
      BY <1>3 DEF Crosses
    <3>2. QED
      BY <2>2, <3>1 DEF Accumulates
  <2>4. R[b] = {} /\ \A x \in Slots : R[x] # {} => R[x] = G[x] /\ x # b
    BY <1>1, <2>2, <2>3 DEF Whole
  <2>5. \A x \in Slots : G2[x] = IF x = b THEN {f} ELSE G[x]
    BY <2>3
  <2>6. ASSUME NEW x \in Slots, R2[x] # {}
        PROVE  R2[x] = G2[x] /\ x < b
    <3>1. CASE made /\ x = a.bucket
      BY <1>1, <2>2, <2>3, <2>5, <2>6, <3>1
    <3>2. CASE ~(made /\ x = a.bucket)
      <4>1. R2[x] = R[x] /\ R[x] # {}
        BY <2>6, <3>2
      <4>2. x < a.bucket /\ x # b
        BY <2>3, <2>4, <4>1
      <4>3. x < b
        <5>1. x \in Nat /\ b \in Nat
          BY <1>1
        <5>2. QED
          BY <2>2, <4>2, <5>1
      <4>4. QED
        BY <2>4, <2>5, <4>1, <4>3
    <3>3. QED
      BY <3>1, <3>2
  <2>7. \A x \in Slots : x > b => G2[x] = {}
    <3>1. ASSUME NEW x \in Slots, x > b PROVE x > a.bucket /\ x # b
      <4>1. x \in Nat
        BY <1>1
      <4>2. QED
        BY <1>1, <2>2, <3>1, <4>1
    <3>2. QED
      BY <2>3, <2>5, <3>1
  <2> HIDE DEF a2
  <2>8. Whole(R2, G2)
    BY <2>6 DEF Whole
  <2>9. Accumulates(R2, a2, G2, b)
    BY <1>1, <2>1, <2>5, <2>6, <2>7 DEF Accumulates
  <2>10. ASSUME made, Complete(R, a, G, K), NEW x \in K
         PROVE  R2[x] \union (IF a2.bucket = x THEN a2.frames ELSE {}) = G2[x]
    <3>1. /\ x \in Slots
          /\ R2[x] = IF x = a.bucket THEN a.frames ELSE R[x]
      BY <2>10
    <3>2. R[x] \union (IF a.bucket = x THEN a.frames ELSE {}) = G[x]
      BY <2>10 DEF Complete
    <3>3. a.bucket # b
      BY <2>2
    <3>4. CASE x = b
      BY <2>1, <2>4, <2>5, <3>1, <3>3, <3>4
    <3>5. CASE x # b
      BY <2>1, <2>3, <2>5, <3>1, <3>2, <3>5
    <3>6. QED
      BY <3>4, <3>5
  <2>11. QED
    BY <1>3, <2>8, <2>9, <2>10 DEF Complete, a2
<1>4. CASE a.bucket # None /\ ~Crosses(a, b)
  <2>1. a2.bucket = a.bucket /\ a2.frames = a.frames \union {f}
    BY <1>4 DEF Fold, AccType
  <2>2. a.bucket = b
    <3>1. a.bucket \in Nat /\ a.bucket <= b /\ ~(b > a.bucket)
      BY <1>1, <1>4 DEF Accumulates, Crosses
    <3>2. QED
      BY <1>1, <3>1
  <2>3. /\ a.frames = G[b]
        /\ \A x \in Slots : x > b => G[x] = {}
        /\ \A x \in Slots : R[x] # {} => x < b
    BY <1>4, <2>2 DEF Accumulates
  <2>4. ~made
    BY <1>4
  <2>5. \A x \in Slots : R2[x] \in {R[x], {}} /\ (x \in K => R2[x] = R[x])
    BY <2>4
  <2>6. \A x \in Slots : x < b => x # b
    BY <1>1
  <2>7. \A x \in Slots : x > b => x # b
    BY <1>1
  <2> HIDE DEF a2
  <2>8. ASSUME NEW x \in Slots, R2[x] # {}
        PROVE  R2[x] = G2[x] /\ x < b
    <3>1. R2[x] = R[x] /\ R[x] # {}
      BY <2>5, <2>8
    <3>2. x < b /\ x # b /\ R[x] = G[x]
      BY <2>3, <2>6, <3>1 DEF Whole
    <3>3. QED
      BY <3>1, <3>2
  <2>9. Whole(R2, G2)
    BY <2>8 DEF Whole
  <2>10. /\ a2.frames = G2[b] /\ b <= b
         /\ \A x \in Slots : x > b => G2[x] = {}
    <3>1. b <= b
      BY <1>1
    <3>2. QED
      BY <2>1, <2>3, <2>7, <3>1
  <2>11. Accumulates(R2, a2, G2, b)
    BY <1>1, <2>1, <2>2, <2>8, <2>10 DEF Accumulates
  <2>12. ASSUME Complete(R, a, G, K), NEW x \in K
         PROVE  R2[x] \union (IF a2.bucket = x THEN a2.frames ELSE {}) = G2[x]
    <3>1. R2[x] = R[x] /\ x \in Slots
      BY <2>5
    <3>2. R[x] \union (IF a.bucket = x THEN a.frames ELSE {}) = G[x]
      BY <2>12 DEF Complete
    <3>3. CASE x = b
      BY <2>1, <2>2, <3>1, <3>2, <3>3
    <3>4. CASE x # b
      BY <2>1, <2>2, <3>1, <3>2, <3>4
    <3>5. QED
      BY <3>3, <3>4
  <2>13. QED
    BY <2>9, <2>11, <2>12 DEF Complete, a2
<1>5. QED
  BY <1>2, <1>3, <1>4

\* What a prune leaves of another device's rows.
LEMMA PrunedCell ==
  ASSUME NEW R, NEW R2, NEW a, NEW b, NEW G, NEW G2, NEW K, NEW K2 \in SUBSET K,
         K \in SUBSET Slots, Whole(R, G), Accumulates(R, a, G, b),
         \A x \in Slots : G2[x] = G[x],
         \A x \in Slots : R2[x] \in {R[x], {}} /\ (x \in K2 => R2[x] = R[x]),
         a.bucket # None => a.bucket \in Slots
  PROVE  /\ Whole(R2, G2) /\ Accumulates(R2, a, G2, b)
         /\ Complete(R, a, G, K) => Complete(R2, a, G2, K2)
<1>1. \A x \in Slots : R2[x] # {} => R[x] # {} /\ R2[x] = R[x]
  OBVIOUS
<1>2. Whole(R2, G2)
  BY <1>1 DEF Whole
<1>3. Accumulates(R2, a, G2, b)
  BY <1>1 DEF Accumulates
<1>4. Complete(R, a, G, K) => Complete(R2, a, G2, K2)
  BY DEF Complete
<1>5. QED
  BY <1>2, <1>3, <1>4

\* Retention reaches no bucket again once the newest frame is later.
LEMMA KeptShrinks ==
  ASSUME NEW tier \in Tiers, NEW m \in Nat, NEW n \in Nat, m <= n
  PROVE  KeptBuckets(tier, n) \subseteq KeptBuckets(tier, m)
<1> SUFFICES ASSUME NEW x \in Slots, Kept(tier, x, n) PROVE Kept(tier, x, m)
  BY DEF KeptBuckets
<1> DEFINE last == x * Width(tier) + Retention[tier]
<1>1. last \in Nat
  <2>1. /\ x \in Nat /\ Width(tier) \in Nat /\ Retention[tier] \in Nat
    BY RecorderAssumption DEF Slots, Width
  <2>2. x * Width(tier) \in Nat
    BY <2>1
  <2>3. QED
    BY <2>1, <2>2
<1>2. last >= n
  BY DEF Kept
<1> HIDE DEF last
<1>3. last >= m
  BY <1>1, <1>2
<1>4. QED
  BY <1>3 DEF Kept, last

LEMMA DiskInit == Init => DiskInv
<1> SUFFICES ASSUME Init PROVE DiskInv
  OBVIOUS
<1>1. \A tier \in Tiers, d \in Devices, x \in Slots :
        rows[tier][d][x] = {} /\ FramesIn(tier, d, x) = {}
  BY DEF Init, FramesIn
<1>2. /\ session = 0 /\ status = "finished"
      /\ acc = [tier \in Tiers |-> [d \in Devices |-> NoBucket]]
  BY DEF Init
<1>3. \A tier \in Tiers, d \in Devices : Whole(rows[tier][d], InBuckets(tier, d))
  BY <1>1 DEF Whole
<1>4. QED
  BY <1>1, <1>2, <1>3 DEF DiskInv

LEMMA ObserveDisk ==
  ASSUME RowInv, RestInv, EdgeIInv, DiskInv, NEW d \in Devices,
         NEW withProcs \in BOOLEAN, NEW ok \in [1..4 -> BOOLEAN],
         Observe(d, withProcs, ok)
  PROVE  DiskInv'
<1> DEFINE f == <<session, ticks>>
           ten == Crosses(acc["10s"][d], BucketOf("10s", clock))
           min == Crosses(acc["1m"][d], BucketOf("1m", clock))
<1>1. /\ status = "running" /\ UNCHANGED <<status, session, clock>>
      /\ newest' = IF clock > newest THEN clock ELSE newest
      /\ tally' = Tally(Tally(Tally(Tally(tally, Write(ten, TRUE, ok[1])),
                    Write(min, TRUE, ok[2])), Write(ten, procs[d], ok[3])),
                    Write(PruneDue(ten), TRUE, ok[4]))
  BY DEF Observe, Tiers
<1>2. /\ f \in Frame /\ clock \in Slots /\ newest \in Nat /\ newest' \in Nat
      /\ acc \in [Tiers -> [Devices -> AccType]]
      /\ tally \in TallyType
      /\ newest <= newest'
  BY <1>1, RecorderAssumption DEF RowInv, RestInv, EdgeIInv, EdgeInv, Frame, Slots
<1>3. session = 1
  BY <1>1 DEF DiskInv
<1>4. tally'.failed = 0 => tally.failed = 0 /\ (ten => ok[1]) /\ (min => ok[2])
  <2>1. ten \in BOOLEAN /\ min \in BOOLEAN /\ PruneDue(ten) \in BOOLEAN
    BY DEF Crosses, PruneDue
  <2> DEFINE t1 == Tally(tally, Write(ten, TRUE, ok[1]))
             t2 == Tally(t1, Write(min, TRUE, ok[2]))
             t3 == Tally(t2, Write(ten, procs[d], ok[3]))
  <2>2. /\ tally' = Tally(t3, Write(PruneDue(ten), TRUE, ok[4]))
        /\ ok[1] \in BOOLEAN /\ ok[2] \in BOOLEAN
        /\ ok[3] \in BOOLEAN /\ ok[4] \in BOOLEAN
    BY <1>1
  <2> HIDE DEF ten, min
  <2>3. t1 \in TallyType /\ (t1.failed = 0 => tally.failed = 0 /\ (ten => ok[1]))
    BY <1>2, <2>1, <2>2, NoFailure
  <2> HIDE DEF t1
  <2>4. t2 \in TallyType /\ (t2.failed = 0 => t1.failed = 0 /\ (min => ok[2]))
    BY <2>1, <2>2, <2>3, NoFailure
  <2> HIDE DEF t2
  <2>5. t3 \in TallyType /\ (t3.failed = 0 => t2.failed = 0)
    BY <2>1, <2>2, <2>4, NoFailure
  <2> HIDE DEF t3
  <2>6. tally'.failed = 0 => t3.failed = 0
    BY <2>1, <2>2, <2>5, NoFailure
  <2>7. QED
    BY <2>3, <2>4, <2>5, <2>6
<1>5. ASSUME NEW tier \in Tiers, NEW e \in Devices
      PROVE  LET R2 == rows'[tier][e]
                 a2 == acc'[tier][e]
                 G2 == InBuckets(tier, e)'
             IN  /\ Whole(R2, G2)
                 /\ Accumulates(R2, a2, G2, BucketOf(tier, clock))
                 /\ tally'.failed = 0 => Complete(R2, a2, G2, KeptBuckets(tier, newest'))
  <2> DEFINE R == rows[tier][e]
             R2 == rows'[tier][e]
             a == acc[tier][d]
             G == InBuckets(tier, e)
             G2 == InBuckets(tier, e)'
             b == BucketOf(tier, clock)
             K == KeptBuckets(tier, newest)
             K2 == KeptBuckets(tier, newest')
             made == Crosses(a, b) /\ ok[IF tier = "10s" THEN 1 ELSE 2]
  <2>1. /\ Whole(R, G) /\ Accumulates(R, acc[tier][e], G, b)
        /\ tally.failed = 0 => Complete(R, acc[tier][e], G, K)
    BY <1>1, <1>3 DEF DiskInv
  <2>2. ASSUME NEW x \in Slots
        PROVE  /\ acc'[tier][e] = IF e = d THEN Fold(a, b, f) ELSE acc[tier][e]
               /\ LET left == IF e = d /\ made /\ x = a.bucket THEN a.frames ELSE R[x]
                  IN  R2[x] \in {left, {}} /\ (x \in K2 => R2[x] = left)
    BY ObservedRow DEF KeptBuckets
  <2>3. \A x \in Slots : G2[x] = IF e = d /\ x = b THEN G[x] \union {f} ELSE G[x]
    <3>1. \A x \in Slots : G[x] = FramesIn(tier, e, x) /\ G2[x] = FramesIn(tier, e, x)'
      BY DEF InBuckets
    <3>2. \A x \in Slots : FramesIn(tier, e, x)'
            = IF e = d /\ x = b THEN FramesIn(tier, d, x) \union {f} ELSE FramesIn(tier, e, x)
      BY ObservedFrames
    <3> HIDE DEF G, G2, b, f
    <3>3. QED
      BY <3>1, <3>2
  <2>4. a \in AccType /\ acc[tier][e] \in AccType /\ b \in Slots
    BY <1>2, BucketInSlots
  <2>5. K2 \subseteq K /\ K \subseteq Slots
    BY <1>2, KeptShrinks DEF KeptBuckets
  <2>6. made \in BOOLEAN /\ (made => Crosses(a, b))
    BY DEF Crosses
  <2>7. tally'.failed = 0 => tally.failed = 0 /\ (Crosses(a, b) => made)
    BY <1>4 DEF Tiers
  <2>8. acc'[tier][e] = IF e = d THEN Fold(a, b, f) ELSE acc[tier][e]
    BY <1>2, <2>2
  <2> HIDE DEF R, R2, G, G2, b, K, K2, made, f, a
  <2>9. CASE e = d
    <3>1. acc[tier][e] = a
      BY <2>9 DEF a
    <3>2. Stamped(G, G2, b, f)
      BY <2>3, <2>9 DEF Stamped
    <3>3. Left(R, R2, a, made, K2)
      BY <2>2, <2>9 DEF Left
    <3>4. K2 \in SUBSET Slots
      BY <2>5
    <3>5. /\ Whole(R2, G2)
          /\ Accumulates(R2, Fold(a, b, f), G2, b)
          /\ (Crosses(a, b) => made) /\ Complete(R, a, G, K2)
               => Complete(R2, Fold(a, b, f), G2, K2)
      <4>1. /\ a \in AccType /\ b \in Slots /\ f \in Frame /\ made \in BOOLEAN
            /\ made => Crosses(a, b)
            /\ Whole(R, G) /\ Accumulates(R, a, G, b)
        BY <1>2, <2>1, <2>4, <2>6, <3>1
      <4>2. QED
        BY <3>2, <3>3, <3>4, <4>1, ObserveCell
    <3>6. Complete(R, a, G, K) => Complete(R, a, G, K2)
      BY <2>5 DEF Complete
    <3>7. QED
      BY <2>1, <2>7, <2>8, <2>9, <3>1, <3>5, <3>6 DEF R2, G2, b, K2
  <2>10. CASE e # d
    <3>1. \A x \in Slots : G2[x] = G[x]
      BY <2>3, <2>10
    <3>2. \A x \in Slots : R2[x] \in {R[x], {}} /\ (x \in K2 => R2[x] = R[x])
      BY <2>2, <2>10
    <3>3. K2 \in SUBSET K /\ K \in SUBSET Slots
      BY <2>5
    <3> DEFINE it == acc[tier][e]
    <3>4. it.bucket # None => it.bucket \in Slots
      BY <2>4 DEF AccType
    <3>5. Accumulates(R, it, G, b)
      BY <2>1
    <3> HIDE DEF it
    <3>6. /\ Whole(R2, G2) /\ Accumulates(R2, it, G2, b)
          /\ Complete(R, it, G, K) => Complete(R2, it, G2, K2)
      BY <2>1, <3>1, <3>2, <3>3, <3>4, <3>5, PrunedCell
    <3>7. acc'[tier][e] = it
      BY <2>8, <2>10 DEF it
    <3>8. QED
      BY <2>1, <2>7, <3>6, <3>7 DEF R2, G2, b, K2, it
  <2>11. QED
    BY <2>9, <2>10
<1>6. QED
  BY <1>1, <1>3, <1>5 DEF DiskInv

\* A step that leaves the rows and what accumulates, under a clock that runs.
LEMMA KeptDisk ==
  ASSUME RowInv, DiskInv, UNCHANGED <<session, status, acc, rows, frames, newest>>,
         clock' \in {clock, clock + 1}, tally'.failed = 0 => tally.failed = 0
  PROVE  DiskInv'
<1>1. clock \in Nat /\ acc \in [Tiers -> [Devices -> AccType]]
  BY RecorderAssumption DEF RowInv, Slots
<1>2. \A tier \in Tiers, d \in Devices, x \in Slots :
        FramesIn(tier, d, x)' = FramesIn(tier, d, x)
  BY DEF FramesIn
<1>3. \A tier \in Tiers, d \in Devices : InBuckets(tier, d)' = InBuckets(tier, d)
  BY <1>2 DEF InBuckets
<1>4. ASSUME NEW tier \in Tiers, NEW d \in Devices,
             Accumulates(rows[tier][d], acc[tier][d], InBuckets(tier, d),
                         BucketOf(tier, clock))
      PROVE  Accumulates(rows[tier][d], acc[tier][d], InBuckets(tier, d),
                         BucketOf(tier, clock'))
  <2> DEFINE a == acc[tier][d]
             b == BucketOf(tier, clock)
             c == BucketOf(tier, clock')
  <2>1. b \in Nat /\ c \in Nat /\ b <= c
    BY <1>1, BucketsRun
  <2>2. a.bucket # None => a.bucket \in Nat
    BY <1>1 DEF AccType, Slots
  <2>3. a.bucket # None => a.bucket <= b
    BY <1>4 DEF Accumulates
  <2> HIDE DEF a, b, c
  <2>4. a.bucket # None => a.bucket <= c
    BY <2>1, <2>2, <2>3
  <2>5. QED
    BY <1>4, <2>4 DEF Accumulates, a, c
<1>5. ASSUME NEW tier \in Tiers, NEW d \in Devices
      PROVE  LET R == rows[tier][d]
                 a == acc[tier][d]
                 G == InBuckets(tier, d)
             IN  /\ Whole(R, G)
                 /\ status = "running" => Accumulates(R, a, G, BucketOf(tier, clock'))
                 /\ session = 1 /\ status # "crashed" /\ tally'.failed = 0
                      => Complete(R, a, G, KeptBuckets(tier, newest))
  BY <1>4 DEF DiskInv
<1>6. session = 0 => /\ status # "running"
                     /\ \A tier \in Tiers, d \in Devices, x \in Slots :
                          rows[tier][d][x] = {} /\ FramesIn(tier, d, x) = {}
  BY DEF DiskInv
<1>7. session \in {0, 1}
      /\ (status # "running" => acc = [tier \in Tiers |-> [d \in Devices |-> NoBucket]])
  BY DEF DiskInv
<1>8. QED
  BY <1>2, <1>3, <1>5, <1>6, <1>7 DEF DiskInv

LEMMA FinishDisk ==
  ASSUME RowInv, EdgeIInv, DiskInv, NEW ok \in [1..4 -> BOOLEAN], Finish(ok)
  PROVE  DiskInv'
<1> DEFINE lands == [tier \in Tiers |-> IF tier = "10s" THEN ok[2] ELSE ok[3]]
           n2 == {d \in Devices : acc["10s"][d].bucket # None} # {}
           n3 == {d \in Devices : acc["1m"][d].bucket # None} # {}
           n4 == \E d \in Devices : procs[d]
           t1 == Tally(tally, Write(TRUE, TRUE, ok[1]))
           t2 == Tally(t1, Write(TRUE, n2, ok[2]))
           t3 == Tally(t2, Write(TRUE, n3, ok[3]))
<1>1. /\ status = "running" /\ status' = "finished"
      /\ UNCHANGED <<session, frames, newest>>
      /\ tally' = Tally(t3, Write(TRUE, n4, ok[4]))
      /\ acc' = [tier \in Tiers |-> [d \in Devices |-> NoBucket]]
      /\ rows' = [tier \in Tiers |-> [d \in Devices |-> [b \in Slots |->
                    IF lands[tier] /\ acc[tier][d].bucket = b
                    THEN acc[tier][d].frames ELSE rows[tier][d][b]]]]
  BY DEF Finish
<1>2. session = 1
  BY <1>1 DEF DiskInv
<1>3. tally'.failed = 0 => tally.failed = 0 /\ \A tier \in Tiers : lands[tier]
  <2>1. /\ ok[1] \in BOOLEAN /\ ok[2] \in BOOLEAN
        /\ ok[3] \in BOOLEAN /\ ok[4] \in BOOLEAN
        /\ tally \in TallyType
    BY DEF EdgeIInv, EdgeInv
  <2>2. t1 \in TallyType /\ (t1.failed = 0 => tally.failed = 0)
    BY <2>1, NoFailure
  <2> HIDE DEF t1, n2, n3, n4
  <2>3. t2 \in TallyType /\ (t2.failed = 0 => t1.failed = 0 /\ (TRUE => ok[2]))
    BY <2>1, <2>2, NoFailure
  <2> HIDE DEF t2
  <2>4. t3 \in TallyType /\ (t3.failed = 0 => t2.failed = 0 /\ (TRUE => ok[3]))
    BY <2>1, <2>3, NoFailure
  <2> HIDE DEF t3
  <2>5. tally'.failed = 0 => t3.failed = 0
    BY <1>1, <2>1, <2>4, NoFailure
  <2>6. tally'.failed = 0 => tally.failed = 0 /\ ok[2] /\ ok[3]
    BY <2>2, <2>3, <2>4, <2>5
  <2>7. QED
    BY <2>6
<1>4. \A tier \in Tiers, d \in Devices : InBuckets(tier, d)' = InBuckets(tier, d)
  BY <1>1 DEF InBuckets, FramesIn
<1> HIDE DEF lands
<1>5. ASSUME NEW tier \in Tiers, NEW d \in Devices
      PROVE  LET R2 == rows'[tier][d]
                 G == InBuckets(tier, d)
             IN  /\ Whole(R2, G)
                 /\ tally'.failed = 0
                      => Complete(R2, NoBucket, G, KeptBuckets(tier, newest))
  <2> DEFINE R == rows[tier][d]
             R2 == rows'[tier][d]
             a == acc[tier][d]
             G == InBuckets(tier, d)
             K == KeptBuckets(tier, newest)
  <2>1. /\ Whole(R, G) /\ Accumulates(R, a, G, BucketOf(tier, clock))
        /\ tally.failed = 0 => Complete(R, a, G, K)
    BY <1>1, <1>2 DEF DiskInv
  <2>2. \A x \in Slots : R2[x] = IF lands[tier] /\ a.bucket = x THEN a.frames ELSE R[x]
    BY <1>1
  <2>3. K \subseteq Slots /\ \A x \in Slots : x # None
    BY RecorderAssumption DEF KeptBuckets, Slots
  <2> HIDE DEF R, R2, a, G, K
  <2>4. Whole(R2, G)
    <3>1. \A x \in Slots : a.bucket = x => a.frames = G[x]
      BY <2>1, <2>3 DEF Accumulates
    <3>2. QED
      BY <2>1, <2>2, <3>1 DEF Whole
  <2>5. ASSUME tally'.failed = 0, NEW x \in K
        PROVE  R2[x] \union (IF NoBucket.bucket = x THEN NoBucket.frames ELSE {}) = G[x]
    <3>1. lands[tier] /\ tally.failed = 0 /\ x \in Slots /\ x # None
      BY <1>3, <2>3, <2>5
    <3>2. R[x] \union (IF a.bucket = x THEN a.frames ELSE {}) = G[x]
      BY <2>1, <3>1 DEF Complete
    <3>3. a.bucket = x => a.frames = G[x]
      BY <2>1, <3>1 DEF Accumulates
    <3>4. NoBucket.bucket = None
      BY DEF NoBucket
    <3>5. R2[x] = IF a.bucket = x THEN a.frames ELSE R[x]
      BY <2>2, <3>1
    <3>6. R2[x] = G[x]
      BY <3>2, <3>3, <3>5
    <3>7. QED
      BY <3>1, <3>4, <3>6
  <2>6. QED
    BY <2>4, <2>5 DEF Complete, R2, G, K
<1>6. \A tier \in Tiers, d \in Devices : acc'[tier][d] = NoBucket
  BY <1>1
<1>7. \A tier \in Tiers, d \in Devices :
        /\ Whole(rows'[tier][d], InBuckets(tier, d)')
        /\ tally'.failed = 0
             => Complete(rows'[tier][d], acc'[tier][d], InBuckets(tier, d)',
                         KeptBuckets(tier, newest'))
  BY <1>1, <1>4, <1>5, <1>6
<1>8. QED
  BY <1>1, <1>2, <1>7 DEF DiskInv

\* Every step of a session under a clock that runs.
LEMMA DiskStep ==
  ASSUME RowInv, RestInv, EdgeIInv, DiskInv, [Next]_vars,
         clock' \in {clock, clock + 1}, session' <= DiskSessions
  PROVE  DiskInv'
<1>0. tally \in TallyType /\ tally.failed \in Nat
  BY DEF EdgeIInv, EdgeInv, TallyType
<1>1. ASSUME NEW d \in Devices, NEW withProcs \in BOOLEAN,
             NEW ok \in [1..4 -> BOOLEAN], Observe(d, withProcs, ok)
      PROVE  DiskInv'
  BY <1>1, ObserveDisk
<1>2. ASSUME NEW ok \in [1..4 -> BOOLEAN], Finish(ok)
      PROVE  DiskInv'
  BY <1>2, FinishDisk
<1>3. ASSUME NEW others \in BOOLEAN, NEW ok \in BOOLEAN, EndTick(others, ok)
      PROVE  DiskInv'
  <2> DEFINE t == [tally EXCEPT !.narrated = tally.narrated + w.lost]
             some == others \/ w.pending # "none"
  <2>1. /\ UNCHANGED <<session, status, clock, acc, rows, frames, newest>>
        /\ tally' = Tally(t, Write(TRUE, some, ok))
    BY <1>3 DEF EndTick, RecordEvents
  <2>2. t \in TallyType /\ t.failed = tally.failed
    BY <1>0 DEF EdgeIInv, EdgeInv, WriteState, TallyType
  <2> HIDE DEF t, some
  <2>3. tally'.failed = 0 => tally.failed = 0
    BY <2>1, <2>2, NoFailure
  <2>4. QED
    BY <2>1, <2>3, KeptDisk
<1>4. ASSUME NEW ok \in BOOLEAN, PanickedTick(ok)
      PROVE  DiskInv'
  <2>1. /\ UNCHANGED <<session, status, clock, acc, rows, frames, newest>>
        /\ tally' = Tally(tally, Write(TRUE, TRUE, ok))
    BY <1>4 DEF PanickedTick, RecordEvents
  <2>2. tally'.failed = 0 => tally.failed = 0
    BY <1>0, <2>1, NoFailure
  <2>3. QED
    BY <2>1, <2>2, KeptDisk
<1>5. CASE Crash
  <2>1. /\ status = "running" /\ status' = "crashed"
        /\ UNCHANGED <<session, rows, frames>>
        /\ acc' = [tier \in Tiers |-> [d \in Devices |-> NoBucket]]
    BY <1>5 DEF Crash, history
  <2>2. session = 1
    BY <2>1 DEF DiskInv
  <2>3. \A tier \in Tiers, d \in Devices : InBuckets(tier, d)' = InBuckets(tier, d)
    BY <2>1 DEF InBuckets, FramesIn
  <2>4. \A tier \in Tiers, d \in Devices : Whole(rows'[tier][d], InBuckets(tier, d)')
    BY <2>1, <2>3 DEF DiskInv
  <2>5. QED
    BY <2>1, <2>2, <2>4 DEF DiskInv
<1>6. ASSUME NEW ok \in BOOLEAN, Start(ok)
      PROVE  DiskInv'
  <2>1. /\ status # "running" /\ status' = "running" /\ session' = session + 1
        /\ UNCHANGED <<acc, rows, frames>>
    BY <1>6 DEF Start
  <2>2. session = 0 /\ session' = 1
    BY <2>1 DEF DiskInv, DiskSessions
  <2>3. /\ acc = [tier \in Tiers |-> [d \in Devices |-> NoBucket]]
        /\ \A tier \in Tiers, d \in Devices, x \in Slots :
             rows[tier][d][x] = {} /\ FramesIn(tier, d, x) = {}
    BY <2>1, <2>2 DEF DiskInv
  <2>4. \A tier \in Tiers, d \in Devices, x \in Slots : InBuckets(tier, d)'[x] = {}
    BY <2>1, <2>3 DEF InBuckets, FramesIn
  <2>5. ASSUME NEW tier \in Tiers, NEW d \in Devices
        PROVE  LET R2 == rows'[tier][d]
                   a2 == acc'[tier][d]
                   G2 == InBuckets(tier, d)'
               IN  /\ Whole(R2, G2)
                   /\ Accumulates(R2, a2, G2, BucketOf(tier, clock'))
                   /\ Complete(R2, a2, G2, KeptBuckets(tier, newest'))
    <3> DEFINE R2 == rows'[tier][d]
               a2 == acc'[tier][d]
               G2 == InBuckets(tier, d)'
    <3>1. a2.bucket = None /\ a2.frames = {}
      BY <2>1, <2>3 DEF NoBucket
    <3>2. \A x \in Slots : R2[x] = {} /\ G2[x] = {}
      BY <2>1, <2>3, <2>4
    <3> HIDE DEF R2, a2, G2
    <3>3. Whole(R2, G2) /\ Accumulates(R2, a2, G2, BucketOf(tier, clock'))
      BY <3>1, <3>2 DEF Whole, Accumulates
    <3>4. Complete(R2, a2, G2, KeptBuckets(tier, newest'))
      BY <3>1, <3>2 DEF Complete, KeptBuckets
    <3>5. QED
      BY <3>3, <3>4 DEF R2, a2, G2
  <2>6. QED
    BY <2>1, <2>2, <2>5 DEF DiskInv
<1>7. CASE Clock \/ UNCHANGED vars
  <2>1. UNCHANGED <<session, status, acc, rows, frames, newest, tally>>
    BY <1>7 DEF Clock, vars, folding, history
  <2>2. QED
    BY <2>1, KeptDisk
<1>8. QED
  BY <1>1, <1>2, <1>3, <1>4, <1>5, <1>6, <1>7 DEF Next

\* No tier ever counts a frame twice; and under a clock that only runs, in a
\* session that starts with an empty store, every row is the aggregate of all
\* the frames of its bucket, and none the device gave is missing while no
\* write fails, until retention drops it (Recorder::observe, flush).
THEOREM RowsTellEveryFrame == Spec2 => []RowsAreTheFrames
<1> DEFINE Running == setting = "disk" => DiskInv
           Inv == RowInv /\ RestInv /\ EdgeIInv /\ CountInv /\ Running
<1>1. Init2 => Inv
  BY RowInit, RestInit, EdgeInit, CountInit, DiskInit DEF Init2
<1>2. Inv /\ [Next2]_<<vars, setting>> => Inv'
  <2> SUFFICES ASSUME Inv, [Next2]_<<vars, setting>> PROVE Inv'
    OBVIOUS
  <2>1. [Next]_vars /\ setting' = setting
    BY DEF Next2
  <2>2. RowInv' /\ RestInv' /\ EdgeIInv' /\ CountInv'
    BY <2>1, RowStep, RestStep, EdgeStep, CountStep
  <2>3. ASSUME setting = "disk" PROVE DiskInv'
    <3>1. DiskInv
      BY <2>3
    <3>2. clock' \in {clock, clock + 1} /\ session' <= DiskSessions
      BY <2>3, <3>1 DEF Next2, vars, DiskInv, DiskSessions
    <3>3. QED
      BY <2>1, <3>1, <3>2, DiskStep
  <2>4. QED
    BY <2>1, <2>2, <2>3
<1>3. Inv => RowsAreTheFrames
  BY DiskShows DEF CountInv, RowsAreTheFrames
<1>4. QED
  BY <1>1, <1>2, <1>3, PTL DEF Spec2
=============================================================================
