--------------------------- MODULE CollectorProofs ---------------------------
(***************************************************************************)
(* Proofs about the collection thread and the UI thread, for every number  *)
(* of devices, loss threshold and panic budget.                            *)
(***************************************************************************)
EXTENDS Collector, TLAPS

-----------------------------------------------------------------------------
(* How the loop ends *)

\* Where the thread is, with what it must have done to be there: an ended
\* loop was stopped or said so, a finished Drop wrote its marks, and whatever
\* the feed shows, or is about to show, is on disk.
EndInv ==
  /\ pc \in {"mark", "flush", "done"} => stop \/ stopped
  /\ pc \in {"flush", "done"} => "stop" \in marks
  /\ pc = "done" => "tail" \in marks
  /\ ui = "exited" /\ ~late => pc = "done"
  /\ feed \subseteq marks
  /\ pc = "fold" => carried \subseteq marks

LEMMA EndInit == Init => EndInv
BY DEF Init, EndInv

\* The steps that neither end the loop nor touch what is told or recorded.
LEMMA EndQuiet ==
  ASSUME EndInv, Alive, pc' \in {"top", "probe", "sleep"},
         UNCHANGED <<ui, late, feed, marks>>
  PROVE  EndInv'
BY DEF EndInv, Alive

LEMMA EndStep == EndInv /\ [Next]_vars => EndInv'
<1> SUFFICES ASSUME EndInv, [Next]_vars
             PROVE  EndInv'
  OBVIOUS
<1>1. CASE BeginTick
  BY <1>1, EndQuiet DEF BeginTick, shared, disk, control
<1>2. CASE Answer
  BY <1>2, EndQuiet DEF Answer, shared, disk, control
<1>3. CASE Fail
  BY <1>3, EndQuiet DEF Fail, shared, disk, control
<1>4. CASE Panic
  BY <1>4 DEF Panic, shared, disk, control, EndInv, Alive
<1>5. CASE EndTick
  BY <1>5 DEF EndTick, Persisted, tick, shared, control, EndInv, Alive
<1>6. CASE FoldFrame
  BY <1>6 DEF FoldFrame, tick, disk, control, EndInv, Alive
<1>7. CASE FoldPanic
  BY <1>7 DEF FoldPanic, StopStated, AfterPanic, disk, control, EndInv, Alive
<1>8. CASE PausedPass
  BY <1>8, EndQuiet DEF PausedPass, shared, disk, control
<1>9. CASE Wake
  BY <1>9, EndQuiet DEF Wake, shared, disk, control
<1>10. CASE StopSeen
  BY <1>10 DEF StopSeen, shared, disk, control, EndInv, Alive
<1>11. CASE Mark
  BY <1>11 DEF Mark, shared, control, EndInv, Alive
<1>12. CASE Flush
  BY <1>12 DEF Flush, shared, control, EndInv, Alive
<1>13. CASE TogglePause
  BY <1>13 DEF TogglePause, rest, tick, shared, disk, EndInv
<1>14. CASE Quit
  BY <1>14 DEF Quit, rest, tick, shared, disk, EndInv
<1>15. CASE Join
  BY <1>15 DEF Join, ThreadFinished, rest, tick, shared, disk, EndInv
<1>16. CASE GiveUp
  BY <1>16 DEF GiveUp, rest, tick, shared, disk, EndInv
<1>17. CASE UNCHANGED vars
  BY <1>17 DEF vars, tick, shared, disk, control, EndInv
<1>18. QED
  BY <1>1, <1>2, <1>3, <1>4, <1>5, <1>6, <1>7, <1>8, <1>9, <1>10, <1>11,
     <1>12, <1>13, <1>14, <1>15, <1>16, <1>17
     DEF Next, Loop, Probe, Shutdown

\* A collection loop never ends in silence: either the UI asked it to stop,
\* or the UI has been told that it stopped (tick_guarded, Collector::start).
THEOREM NeverDeadInSilence == Spec => []DeadIsStated
<1>1. EndInv => DeadIsStated
  BY DEF EndInv, DeadIsStated
<1>2. QED
  BY <1>1, EndInit, EndStep, PTL DEF Spec

\* A quit that waited for the thread leaves the session's end, its tail and
\* everything the UI was told on disk (Collector::shutdown, Engine::finish).
THEOREM CleanQuitIsRecorded == Spec => []QuitIsRecorded
<1>1. EndInv => QuitIsRecorded
  BY DEF EndInv, QuitIsRecorded
<1>2. QED
  BY <1>1, EndInit, EndStep, PTL DEF Spec

\* However a collection ends, by a quit, by panics or by losing its devices,
\* somebody is told (tick_guarded, finish, Collector::shutdown).
THEOREM EndsAreStated == Spec => []EndIsStated
<1>1. DeadIsStated /\ QuitIsRecorded => EndIsStated
  BY DEF EndIsStated
<1>2. QED
  BY <1>1, NeverDeadInSilence, CleanQuitIsRecorded, PTL

-----------------------------------------------------------------------------
(* Loss markers *)

\* What one device's marker, its last edge on disk and the edge of the frame
\* in flight say of its health, by how far that frame has got. An edge in
\* flight amends what a panicked tick dropped before it.
EdgeIsNews(d) ==
  /\ edges[d] = "lost" => lostAt[d]
  /\ edges[d] = "returned" => ~lostAt[d]

MarkerAgrees(d) ==
  d \notin dropped /\ (edges[d] = "none" \/ pc \notin {"probe", "fold"})
    => (marker[d] <=> lostAt[d])

OnDisk(d) ==
  \/ d \notin dropped /\ (pc # "probe" \/ edges[d] = "none")
  \/ pc = "fold" /\ edges[d] # "none"

DiskAgrees(d) == OnDisk(d) => (recorded[d] = "lost" <=> lostAt[d])

\* An edge the tick in progress derived is the opposite of the last on disk.
DiskOwes(d) ==
  pc = "probe" /\ d \notin dropped /\ edges[d] # "none"
    => (recorded[d] = "lost" <=> ~lostAt[d])

Agreed(d) == EdgeIsNews(d) /\ MarkerAgrees(d) /\ DiskAgrees(d) /\ DiskOwes(d)

LossInv ==
  /\ at \in Nat
  /\ lostAt \in [Devices -> BOOLEAN]
  /\ marker \in [Devices -> BOOLEAN]
  /\ edges \in [Devices -> {"none", "lost", "returned"}]
  /\ recorded \in [Devices -> {"none", "lost", "returned"}]
  /\ pc = "probe" => \A d \in Devices : d >= at => edges[d] = "none"
  /\ pc = "fold" /\ outcome # "frame" => \A d \in Devices : edges[d] = "none"
  /\ \A d \in Devices : Agreed(d)

LEMMA LossInit == Init => LossInv
BY DEF Init, NoEdges, LossInv, Agreed, EdgeIsNews, MarkerAgrees, DiskAgrees, OnDisk, DiskOwes

\* A step that leaves the devices alone and stays out of the tick.
LEMMA LossQuiet ==
  ASSUME LossInv, pc \notin {"probe", "fold"}, pc' \notin {"probe", "fold"},
         UNCHANGED <<at, edges, lostAt, outcome, dropped, marker, recorded>>
  PROVE  LossInv'
BY DEF LossInv, Agreed, EdgeIsNews, MarkerAgrees, DiskAgrees, OnDisk, DiskOwes

\* A step of the UI.
LEMMA LossElsewhere ==
  ASSUME LossInv,
         UNCHANGED <<pc, at, edges, lostAt, outcome, dropped, marker, recorded>>
  PROVE  LossInv'
BY DEF LossInv, Agreed, EdgeIsNews, MarkerAgrees, DiskAgrees, OnDisk, DiskOwes

LEMMA LossStep == LossInv /\ [Next]_vars => LossInv'
<1> SUFFICES ASSUME LossInv, [Next]_vars
             PROVE  LossInv'
  OBVIOUS
<1>1. CASE BeginTick
  BY <1>1 DEF BeginTick, NoEdges, guarded, health, shared, disk,
     LossInv, Agreed, EdgeIsNews, MarkerAgrees, DiskAgrees, OnDisk, DiskOwes
<1>2. CASE Answer
  <2>1. /\ pc = "probe" /\ pc' = "probe" /\ at \in Devices /\ at' = at + 1
        /\ edges' = [edges EXCEPT ![at] = IF lostAt[at] THEN "returned" ELSE "none"]
        /\ lostAt' = [lostAt EXCEPT ![at] = FALSE]
        /\ UNCHANGED <<dropped, marker, recorded>>
    BY <1>2 DEF Answer, Returns, guarded, shared, disk
  <2>2. edges[at] = "none" /\ at \in Nat
    BY <2>1 DEF LossInv
  <2>3. /\ at' \in Nat /\ lostAt' \in [Devices -> BOOLEAN]
        /\ edges' \in [Devices -> {"none", "lost", "returned"}]
    BY <2>1, <2>2 DEF LossInv
  <2>4. \A d \in Devices : d >= at' => edges'[d] = "none"
    BY <2>1, <2>2 DEF LossInv, Devices
  <2>5. ASSUME NEW d \in Devices PROVE Agreed(d)'
    <3>1. CASE d = at
      BY <2>1, <2>2, <3>1 DEF
     LossInv, Agreed, EdgeIsNews, MarkerAgrees, DiskAgrees, OnDisk, DiskOwes
    <3>2. CASE d # at
      BY <2>1, <3>2 DEF
     LossInv, Agreed, EdgeIsNews, MarkerAgrees, DiskAgrees, OnDisk, DiskOwes
    <3>3. QED
      BY <3>1, <3>2
  <2>6. QED
    BY <2>1, <2>3, <2>4, <2>5 DEF LossInv
<1>3. CASE Fail
  <2> DEFINE declared == DeclaredLost(at)
  <2>1. /\ pc = "probe" /\ pc' = "probe" /\ at \in Devices /\ at' = at + 1
        /\ edges' = [edges EXCEPT ![at] = IF declared THEN "lost" ELSE "none"]
        /\ lostAt' = [lostAt EXCEPT ![at] = lostAt[at] \/ declared]
        /\ UNCHANGED <<dropped, marker, recorded>>
    BY <1>3 DEF Fail, guarded, shared, disk
  <2>2. edges[at] = "none" /\ at \in Nat /\ lostAt[at] \in BOOLEAN
    BY <2>1 DEF LossInv
  <2>3. declared \in BOOLEAN /\ (declared => ~lostAt[at])
    BY DEF DeclaredLost
  <2> HIDE DEF declared
  <2>4. /\ at' \in Nat /\ lostAt' \in [Devices -> BOOLEAN]
        /\ edges' \in [Devices -> {"none", "lost", "returned"}]
    BY <2>1, <2>2, <2>3 DEF LossInv
  <2>5. \A d \in Devices : d >= at' => edges'[d] = "none"
    BY <2>1, <2>2 DEF LossInv, Devices
  <2>6. ASSUME NEW d \in Devices PROVE Agreed(d)'
    <3>1. CASE d = at /\ declared
      BY <2>1, <2>2, <2>3, <3>1 DEF
     LossInv, Agreed, EdgeIsNews, MarkerAgrees, DiskAgrees, OnDisk, DiskOwes
    <3>2. CASE d = at /\ ~declared
      BY <2>1, <2>2, <2>3, <3>2 DEF
     LossInv, Agreed, EdgeIsNews, MarkerAgrees, DiskAgrees, OnDisk, DiskOwes
    <3>3. CASE d # at
      BY <2>1, <3>3 DEF
     LossInv, Agreed, EdgeIsNews, MarkerAgrees, DiskAgrees, OnDisk, DiskOwes
    <3>4. QED
      BY <3>1, <3>2, <3>3
  <2>7. QED
    BY <2>1, <2>4, <2>5, <2>6 DEF LossInv
<1>4. CASE Panic
  <2>1. /\ pc = "probe" /\ pc' = "fold" /\ edges' = NoEdges
        /\ dropped' = dropped \union {d \in Devices : edges[d] # "none"}
        /\ UNCHANGED <<at, lostAt, marker, recorded>>
    BY <1>4 DEF Panic, health, shared, disk
  <2>2. ASSUME NEW d \in Devices PROVE edges'[d] = "none" /\ Agreed(d)'
    BY <2>1 DEF NoEdges,
     LossInv, Agreed, EdgeIsNews, MarkerAgrees, DiskAgrees, OnDisk, DiskOwes
  <2>3. QED
    BY <2>1, <2>2 DEF NoEdges, LossInv
<1>5. CASE EndTick
  BY <1>5 DEF EndTick, Persisted, tick, health, shared,
     LossInv, Agreed, EdgeIsNews, MarkerAgrees, DiskAgrees, OnDisk, DiskOwes
<1>6. CASE FoldFrame
  BY <1>6 DEF FoldFrame, Folded, tick, health, disk,
     LossInv, Agreed, EdgeIsNews, MarkerAgrees, DiskAgrees, OnDisk, DiskOwes
<1>7. CASE FoldPanic
  BY <1>7 DEF FoldPanic, AfterPanic, tick, health, guarded, disk, LossInv, Agreed,
              EdgeIsNews, MarkerAgrees, DiskAgrees, OnDisk, DiskOwes
<1>8. CASE PausedPass \/ Wake \/ StopSeen
  BY <1>8, LossQuiet
     DEF PausedPass, Wake, StopSeen, tick, health, guarded, shared, disk
<1>9. CASE Mark \/ Flush
  BY <1>9, LossQuiet DEF Mark, Flush, tick, health, guarded, shared
<1>10. CASE TogglePause \/ Quit \/ Join \/ GiveUp
  BY <1>10, LossElsewhere
     DEF TogglePause, Quit, Join, GiveUp, rest, tick, health, guarded, shared, disk
<1>11. CASE UNCHANGED vars
  BY <1>11, LossElsewhere DEF vars, tick, health, guarded, shared, disk
<1>12. QED
  BY <1>1, <1>2, <1>3, <1>4, <1>5, <1>6, <1>7, <1>8, <1>9, <1>10, <1>11
     DEF Next, Loop, Probe, Shutdown

-----------------------------------------------------------------------------
(* Fresh panes *)

\* A device the tick in progress sampled is not lost, and is behind it.
FreshInv ==
  /\ pc \in {"probe", "fold"} => \A d \in sampled : ~lostAt[d]
  /\ pc = "probe" => \A d \in sampled : d \in Nat /\ d < at
  /\ sampled \subseteq Devices
  /\ \A d \in fresh \intersect Told : ~marker[d]

LEMMA FreshStep == LossInv /\ FreshInv /\ [Next]_vars => FreshInv'
<1> SUFFICES ASSUME LossInv, FreshInv, [Next]_vars
             PROVE  FreshInv'
  OBVIOUS
<1>1. CASE BeginTick
  BY <1>1 DEF BeginTick, guarded, health, shared, FreshInv, Told
<1>2. CASE Answer
  <2>1. /\ pc = "probe" /\ at \in Devices /\ at' = at + 1 /\ sampled' = sampled \union {at}
        /\ lostAt' = [lostAt EXCEPT ![at] = FALSE] /\ pc' = pc
        /\ UNCHANGED <<dropped, marker, fresh>>
    BY <1>2 DEF Answer, guarded, shared
  <2>2. at \in Nat /\ lostAt \in [Devices -> BOOLEAN]
    BY DEF LossInv
  <2>3. QED
    BY <2>1, <2>2 DEF FreshInv, Told
<1>3. CASE Fail
  <2>1. /\ pc = "probe" /\ at \in Devices /\ at' = at + 1 /\ sampled' = sampled
        /\ \A d \in Devices : d # at => lostAt'[d] = lostAt[d]
        /\ pc' = pc /\ UNCHANGED <<dropped, marker, fresh>>
    BY <1>3 DEF Fail, guarded, shared, LossInv
  <2>2. at \in Nat
    BY DEF LossInv
  <2>3. QED
    BY <2>1, <2>2 DEF FreshInv, Told
<1>4. CASE Panic
  BY <1>4 DEF Panic, health, shared, FreshInv, Told
<1>5. CASE EndTick
  BY <1>5 DEF EndTick, tick, health, shared, FreshInv, Told
<1>6. CASE FoldFrame
  <2>1. /\ pc = "fold" /\ pc' = "sleep" /\ fresh' = sampled /\ sampled' = sampled
        /\ \A d \in Devices : marker'[d] = (IF edges[d] = "none" THEN marker[d]
                                            ELSE edges[d] = "lost")
        /\ dropped' = {d \in dropped : edges[d] = "none"}
    BY <1>6 DEF FoldFrame, Folded, tick
  <2>2. SUFFICES ASSUME NEW d \in sampled, d \in Devices, d \notin dropped' PROVE ~marker'[d]
    BY <2>1 DEF FreshInv, Told
  <2>3. ~lostAt[d]
    BY <2>1 DEF FreshInv
  <2>4. QED
    BY <2>1, <2>2, <2>3 DEF LossInv, Agreed, EdgeIsNews, MarkerAgrees
<1>7. CASE FoldPanic
  BY <1>7 DEF FoldPanic, AfterPanic, tick, FreshInv, Told
<1>8. CASE PausedPass \/ Wake \/ StopSeen
  BY <1>8 DEF PausedPass, Wake, StopSeen, tick, guarded, shared, FreshInv, Told
<1>9. CASE Mark \/ Flush
  BY <1>9 DEF Mark, Flush, tick, guarded, shared, FreshInv, Told
<1>10. CASE TogglePause \/ Quit \/ Join \/ GiveUp
  BY <1>10 DEF TogglePause, Quit, Join, GiveUp, rest, tick, health, guarded, shared,
               FreshInv, Told
<1>11. CASE UNCHANGED vars
  BY <1>11 DEF vars, tick, health, guarded, shared, FreshInv, Told
<1>12. QED
  BY <1>1, <1>2, <1>3, <1>4, <1>5, <1>6, <1>7, <1>8, <1>9, <1>10, <1>11
     DEF Next, Loop, Probe, Shutdown

\* The stale marker the UI shows, the engine's probe health and the last edge
\* on disk agree of every device between two ticks, and no fresh pane is marked
\* stale, but where a panicked tick dropped the edge (Engine::tick,
\* tick_guarded, Collector::start).
THEOREM LossMarkersAgree == Spec => []LossAgreed
<1>1. Init => FreshInv
  BY DEF Init, FreshInv
<1>2. LossInv /\ FreshInv => LossAgreed
  BY DEF LossInv, FreshInv, Agreed, MarkerAgrees, DiskAgrees, OnDisk, DiskOwes, LossAgreed,
         Told
<1>3. QED
  BY <1>1, <1>2, LossInit, LossStep, FreshStep, PTL DEF Spec

-----------------------------------------------------------------------------
(* The loss log *)

\* The markers follow the disk, but between a tick's end and its fold.
Following(d) ==
  IF pc = "fold" /\ outcome = "frame" /\ edges[d] # "none"
  THEN recorded[d] = edges[d]
  ELSE marker[d] <=> recorded[d] = "lost"

FollowInv == \A d \in Devices : Following(d)

LEMMA FollowStep == LossInv /\ FollowInv /\ [Next]_vars => FollowInv'
<1> SUFFICES ASSUME LossInv, FollowInv, [Next]_vars
             PROVE  FollowInv'
  OBVIOUS
<1>1. CASE BeginTick \/ PausedPass \/ Wake \/ StopSeen \/ Mark \/ Flush
  BY <1>1 DEF BeginTick, PausedPass, Wake, StopSeen, Mark, Flush, tick, guarded, shared,
              disk, FollowInv, Following
<1>2. CASE Answer \/ Fail
  BY <1>2 DEF Answer, Fail, guarded, shared, disk, FollowInv, Following
<1>3. CASE Panic
  BY <1>3 DEF Panic, NoEdges, shared, disk, FollowInv, Following
<1>4. CASE EndTick
  BY <1>4 DEF EndTick, Persisted, tick, shared, FollowInv, Following
<1>5. CASE FoldFrame
  BY <1>5 DEF FoldFrame, Folded, tick, disk, FollowInv, Following
<1>6. CASE FoldPanic
  BY <1>6 DEF FoldPanic, AfterPanic, guarded, tick, disk, FollowInv, Following
<1>7. CASE TogglePause \/ Quit \/ Join \/ GiveUp
  BY <1>7 DEF TogglePause, Quit, Join, GiveUp, rest, tick, guarded, shared, disk,
              FollowInv, Following
<1>8. CASE UNCHANGED vars
  BY <1>8 DEF vars, tick, guarded, shared, disk, FollowInv, Following
<1>9. QED
  BY <1>1, <1>2, <1>3, <1>4, <1>5, <1>6, <1>7, <1>8 DEF Next, Loop, Probe, Shutdown

\* Each step of the two threads is a step of the log or leaves it alone.
LEMMA LogStep == LossInv /\ FollowInv /\ [Next]_vars => [Log!Next]_(Log!vars)
<1> SUFFICES ASSUME LossInv, FollowInv, [Next]_vars
             PROVE  Log!Next \/ UNCHANGED <<recorded, marker, dropped>>
  BY DEF Log!vars
<1>1. CASE EndTick
  <2>1. /\ pc = "probe" /\ UNCHANGED <<marker, dropped>>
        /\ recorded' = [d \in Devices |-> IF edges[d] = "none" THEN recorded[d]
                                          ELSE edges[d]]
    BY <1>1 DEF EndTick, Persisted, shared
  <2>2. Log!InStep
    BY <2>1 DEF FollowInv, Following, Log!InStep
  <2>3. edges \in [Devices -> Log!Edges]
    BY DEF LossInv, Log!Edges
  <2>4. ASSUME NEW d \in Devices \ dropped, edges[d] # "none"
        PROVE  Log!Continues(d, edges[d])
    BY <2>1, <2>4 DEF LossInv, Agreed, EdgeIsNews, DiskOwes, Log!Continues
  <2>5. Log!Record
    BY <2>1, <2>2, <2>3, <2>4 DEF Log!Record
  <2>6. QED
    BY <2>5 DEF Log!Next
<1>2. CASE FoldFrame
  <2>1. /\ pc = "fold" /\ outcome = "frame" /\ UNCHANGED recorded
        /\ marker' = [d \in Devices |-> IF edges[d] = "none" THEN marker[d]
                                        ELSE edges[d] = "lost"]
        /\ dropped' = {d \in dropped : edges[d] = "none"}
    BY <1>2 DEF FoldFrame, Folded, disk
  <2>2. ASSUME NEW d \in Devices PROVE marker'[d] = (recorded[d] = "lost")
    <3>1. marker[d] \in BOOLEAN
      BY DEF LossInv
    <3>2. QED
      BY <2>1, <3>1 DEF FollowInv, Following
  <2>3. marker' = [d \in Devices |-> recorded[d] = "lost"]
    BY <2>1, <2>2
  <2>4. QED
    BY <2>1, <2>3 DEF Log!Next, Log!Show
<1>3. CASE Panic
  <2>1. /\ dropped' = dropped \union {d \in Devices : edges[d] # "none"}
        /\ UNCHANGED <<recorded, marker>>
    BY <1>3 DEF Panic, shared, disk
  <2>2. QED
    BY <2>1 DEF Log!Next, Log!Drop
<1>4. CASE ~(EndTick \/ FoldFrame \/ Panic)
  BY <1>4 DEF Next, Loop, Probe, Shutdown, BeginTick, Answer, Fail, FoldPanic, PausedPass,
              Wake, StopSeen, Mark, Flush, TogglePause, Quit, Join, GiveUp, vars, rest,
              guarded, shared, disk
<1>5. QED
  BY <1>1, <1>2, <1>3, <1>4

\* For any number of devices and any failures, what the threads record and
\* show implements the loss log (Engine::tick, tick_guarded, Collector::start).
THEOREM CollectorKeepsLossLog == Spec => KeepsLossLog
<1>1. Init => FollowInv /\ Log!Init
  BY DEF Init, NoEdges, FollowInv, Following, Log!Init
<1>2. QED
  BY <1>1, LossInit, LossStep, FollowStep, LogStep, PTL DEF Spec, KeepsLossLog, Log!Spec

-----------------------------------------------------------------------------
(* Types *)

\* The panic budget: a thread that may still probe has some of it left.
Budget ==
  pc \in {"top", "probe", "sleep"} \/ (pc = "fold" /\ outcome # "fatal")
    => panics < MaxPanics

TypeInv == TypeOK /\ Budget

LEMMA TypeInit == Init => TypeInv
<1> SUFFICES ASSUME Init PROVE TypeInv
  OBVIOUS
<1>1. /\ at \in 1..(N + 1) /\ panics \in 0..MaxPanics /\ panics < MaxPanics
      /\ failures \in [Devices -> 0..LostAfter]
  BY CollectorAssumption DEF Init
<1>2. pending \in SUBSET {"start", "reset"}
  BY DEF Init
<1>3. QED
  BY <1>1, <1>2 DEF Init, TypeInv, TypeOK, Budget, NoEdges, Edges

LEMMA TypeStep == TypeInv /\ [Next]_vars => TypeInv'
<1> SUFFICES ASSUME TypeInv, [Next]_vars
             PROVE  TypeInv'
  OBVIOUS
<1>1. CASE BeginTick
  BY <1>1, CollectorAssumption
     DEF BeginTick, NoEdges, Edges, health, guarded, shared, disk, control,
         TypeInv, TypeOK, Budget
<1>2. CASE Answer
  <2>1. at \in Devices /\ at' \in 1..(N + 1)
    BY <1>2, CollectorAssumption DEF Answer, Devices
  <2>2. /\ edges' \in [Devices -> Edges]
        /\ lostAt' \in [Devices -> BOOLEAN]
        /\ failures' \in [Devices -> 0..LostAfter]
        /\ sampled' \in SUBSET Devices
    BY <1>2, <2>1, CollectorAssumption DEF Answer, Edges, TypeInv, TypeOK
  <2>3. QED
    BY <1>2, <2>1, <2>2
       DEF Answer, guarded, shared, disk, control, TypeInv, TypeOK, Budget
<1>3. CASE Fail
  <2>1. at \in Devices /\ at' \in 1..(N + 1)
    BY <1>3, CollectorAssumption DEF Fail, Devices
  <2>2. failures' \in [Devices -> 0..LostAfter]
    BY <1>3, <2>1, CollectorAssumption DEF Fail, TypeInv, TypeOK
  <2>3. DeclaredLost(at) \in BOOLEAN /\ lostAt[at] \in BOOLEAN
    BY <2>1 DEF DeclaredLost, TypeInv, TypeOK
  <2>4. edges' \in [Devices -> Edges] /\ lostAt' \in [Devices -> BOOLEAN]
    BY <1>3, <2>1, <2>3 DEF Fail, Edges, TypeInv, TypeOK
  <2>5. QED
    BY <1>3, <2>1, <2>2, <2>4
       DEF Fail, guarded, shared, disk, control, TypeInv, TypeOK, Budget
<1>4. CASE Panic
  <2>1. panics' \in 0..MaxPanics /\ (outcome' # "fatal" => panics' < MaxPanics)
    BY <1>4, CollectorAssumption DEF Panic, Fatal, TypeInv, TypeOK, Budget
  <2>2. QED
    BY <1>4, <2>1 DEF Panic, NoEdges, Edges, health, shared, disk, control,
                      TypeInv, TypeOK, Budget
<1>5. CASE EndTick
  BY <1>5, CollectorAssumption
     DEF EndTick, Persisted, Edges, tick, health, shared, control, TypeInv, TypeOK, Budget
<1>6. CASE FoldFrame
  <2>1. marker' \in [Devices -> BOOLEAN]
    BY <1>6 DEF FoldFrame, Folded, TypeInv, TypeOK
  <2>2. QED
    BY <1>6, <2>1 DEF FoldFrame, tick, health, disk, control, TypeInv, TypeOK, Budget
<1>7. CASE FoldPanic
  BY <1>7 DEF FoldPanic, StopStated, AfterPanic, tick, health, guarded, disk, control,
              TypeInv, TypeOK, Budget
<1>8. CASE PausedPass \/ Wake \/ StopSeen
  BY <1>8 DEF PausedPass, Wake, StopSeen, tick, health, guarded, shared, disk, control,
              TypeInv, TypeOK, Budget
<1>9. CASE Mark \/ Flush
  BY <1>9 DEF Mark, Flush, tick, health, guarded, shared, control,
              TypeInv, TypeOK, Budget
<1>10. CASE TogglePause
  BY <1>10 DEF TogglePause, rest, tick, health, guarded, shared, disk,
               TypeInv, TypeOK, Budget
<1>11. CASE Quit \/ Join \/ GiveUp
  BY <1>11 DEF Quit, Join, GiveUp, rest, tick, health, guarded, shared, disk,
               TypeInv, TypeOK, Budget
<1>12. CASE UNCHANGED vars
  BY <1>12 DEF vars, tick, health, guarded, shared, disk, control,
               TypeInv, TypeOK, Budget
<1>13. QED
  BY <1>1, <1>2, <1>3, <1>4, <1>5, <1>6, <1>7, <1>8, <1>9, <1>10, <1>11, <1>12
     DEF Next, Loop, Probe, Shutdown

\* The threads stay in their types: the probe cursor never passes the devices
\* by more than one, and the panic count never passes its budget, for the
\* fatal panic ends the loop that counts (tick_guarded, Collector::start).
THEOREM CollectorTypes == Spec => []TypeOK
<1>1. TypeInv => TypeOK
  BY DEF TypeInv
<1>2. QED
  BY <1>1, TypeInit, TypeStep, PTL DEF Spec
=============================================================================
