---------------------------- MODULE StoryProofs -----------------------------
(***************************************************************************)
(* Proofs about the story engine, for every set of processes, every        *)
(* threshold and every sequence of samples and lists.                      *)
(***************************************************************************)
EXTENDS MCStorySettings, TLAPS, WellFoundedInduction

-----------------------------------------------------------------------------
(* Throttle episodes *)

\* The clock of the model is a number, and no number is None.
Clock == now \in Nat

LEMMA ClockKnown == ASSUME Clock PROVE now # None
BY StoryAssumption DEF Clock

ThrottleInv ==
  /\ Clock
  /\ EndKnowsItsStart
  /\ prev # None => prev \in Sample

\* Both kinds of observed tick follow the sample's throttle bits.
LEMMA ThrottleTold ==
  ASSUME ThrottleInv, NEW s \in Sample, DeviceTold(s)
  PROVE  ThrottleInv'
<1>1. Clock'
  BY DEF ThrottleInv, Clock, DeviceTold
<1>2. prev' = s /\ throttle_since' = ThrottleSince(s) /\ s # None
  BY StoryAssumption DEF DeviceTold
<1>3. now # None
  BY ClockKnown DEF ThrottleInv
<1>4. Throttling(prev)' <=> Throttling(s)
  BY <1>2 DEF Throttling
<1>5. Throttling(prev) <=> throttle_since # None
  BY DEF ThrottleInv, EndKnowsItsStart
<1>6. s.throttle \in {"throttling", "clear", None}
  BY StoryAssumption DEF Sample
<1>7. CASE Throttling(s)
  <2>1. s.throttle = "throttling"
    BY <1>7 DEF Throttling
  <2>2. s.throttle # None
    BY <2>1, StoryAssumption DEF Sample
  <2>3. CASE Throttling(prev)
    <3>1. ThrottleSince(s) = throttle_since
      BY <2>1, <2>2, <2>3 DEF ThrottleSince, Begins, Ends
    <3>2. QED
      BY <1>1, <1>2, <1>4, <1>5, <1>7, <2>3, <3>1 DEF ThrottleInv, EndKnowsItsStart
  <2>4. CASE ~Throttling(prev)
    <3>1. ThrottleSince(s) = now
      BY <1>7, <2>4 DEF ThrottleSince, Begins
    <3>2. QED
      BY <1>1, <1>2, <1>3, <1>4, <1>7, <3>1 DEF ThrottleInv, EndKnowsItsStart
  <2>5. QED
    BY <2>3, <2>4
<1>8. CASE ~Throttling(s)
  <2>1. s.throttle \in {"clear", None}
    BY <1>2, <1>6, <1>8 DEF Throttling
  <2>2. ThrottleSince(s) = None
    BY <1>5, <1>8, <2>1 DEF ThrottleSince, Begins, Ends
  <2>3. QED
    BY <1>1, <1>2, <1>4, <1>8, <2>2 DEF ThrottleInv, EndKnowsItsStart
<1>9. QED
  BY <1>7, <1>8

LEMMA ThrottleStep == ThrottleInv /\ [Next]_vars => ThrottleInv'
<1> SUFFICES ASSUME ThrottleInv, [Next]_vars PROVE ThrottleInv'
  OBVIOUS
<1>1. CASE \E s \in Sample : DeviceTold(s)
  BY <1>1, ThrottleTold
<1>2. CASE Missed
  BY <1>2 DEF Missed, device, ThrottleInv, Clock, EndKnowsItsStart, Throttling
<1>3. CASE UNCHANGED vars
  BY <1>3 DEF vars, device, ThrottleInv, Clock, EndKnowsItsStart, Throttling
<1>4. QED
  BY <1>1, <1>2, <1>3 DEF Next, Observe, ObserveBlind

\* A throttle episode is open exactly while the last sample throttled, so the
\* end of one always knows its start (throttle_events).
THEOREM EndsHaveStarts == Spec => []EndKnowsItsStart
<1>1. Init => ThrottleInv
  BY DEF Init, ThrottleInv, Clock, EndKnowsItsStart, Throttling
<1>2. ThrottleInv => EndKnowsItsStart
  BY DEF ThrottleInv
<1>3. QED
  BY <1>1, <1>2, ThrottleStep, PTL DEF Spec

-----------------------------------------------------------------------------
(* The process list *)

RosterInv ==
  /\ RosterFollowsEvents
  /\ DOMAIN procs \subseteq Pids
  /\ seen \in BOOLEAN

LEMMA ListOfPids == ASSUME NEW ps \in ProcessList PROVE DOMAIN ps \subseteq Pids
BY DEF ProcessList

\* What an observed list tells of processes is the difference to the last.
LEMMA ToldOfProcesses ==
  ASSUME NEW s \in Sample, NEW ps \in ProcessList, Observe(s, ps), NEW p
  PROVE  /\ <<"attached", p>> \in said' <=> p \in Attached(ps)
         /\ <<"exited", p>> \in said' <=> p \in Exited(ps)
<1>1. said' = ThrottleSaid(s) \union SpilloverSaid(s, ps) \union ProcessSaid(ps)
                \union HangSaid(s, ps) \union GapSaid(s, ps) \union PressureSaid(s)
  BY DEF Observe
<1>2. ASSUME NEW kind \in {"attached", "exited"}
      PROVE  <<kind, p>> \in said' <=> <<kind, p>> \in ProcessSaid(ps)
  BY <1>1, <1>2 DEF ThrottleSaid, SpilloverSaid, HangSaid, GapSaid, PressureSaid,
                    When, Pairs
<1>3. QED
  BY <1>2 DEF ProcessSaid, Pairs

LEMMA RosterStep == RosterInv /\ [Next]_vars => RosterInv'
<1> SUFFICES ASSUME RosterInv, [Next]_vars PROVE RosterInv'
  OBVIOUS
<1>1. ASSUME NEW s \in Sample, NEW ps \in ProcessList, Observe(s, ps)
      PROVE  RosterInv'
  <2>1. procs' = ps /\ seen' = TRUE /\ DOMAIN ps \subseteq Pids
    BY <1>1, ListOfPids DEF Observe
  <2>2. CASE seen
    <3>1. roster' = (roster \ {p \in Pids : <<"exited", p>> \in said'})
                      \union {p \in Pids : <<"attached", p>> \in said'}
      BY <1>1, <2>2 DEF Observe
    <3>2. roster' = (roster \ {p \in Pids : p \in Exited(ps)})
                      \union {p \in Pids : p \in Attached(ps)}
      BY <1>1, <3>1, ToldOfProcesses
    <3>3. roster = DOMAIN procs
      BY <2>2 DEF RosterInv, RosterFollowsEvents
    <3>4. roster' = DOMAIN ps
      BY <2>1, <2>2, <3>2, <3>3 DEF RosterInv, Exited, Attached
    <3>5. QED
      BY <2>1, <3>4 DEF RosterInv, RosterFollowsEvents
  <2>3. CASE ~seen
    <3>1. roster' = DOMAIN ps
      BY <1>1, <2>3 DEF Observe
    <3>2. QED
      BY <2>1, <3>1 DEF RosterInv, RosterFollowsEvents
  <2>4. QED
    BY <2>2, <2>3
<1>2. ASSUME NEW s \in Sample, ObserveBlind(s) PROVE RosterInv'
  BY <1>2 DEF ObserveBlind, KeptUnseen, RosterInv, RosterFollowsEvents
<1>3. CASE Missed
  BY <1>3 DEF Missed, clients, history, RosterInv, RosterFollowsEvents
<1>4. CASE UNCHANGED vars
  BY <1>4 DEF vars, clients, history, RosterInv, RosterFollowsEvents
<1>5. QED
  BY <1>1, <1>2, <1>3, <1>4 DEF Next

\* The attached and left events, replayed over the first list, always give the
\* list last observed (process_events).
THEOREM RosterIsTold == Spec => []RosterFollowsEvents
<1>1. Init => RosterInv
  BY DEF Init, RosterInv, RosterFollowsEvents, NoOne
<1>2. RosterInv => RosterFollowsEvents
  BY DEF RosterInv
<1>3. QED
  BY <1>1, <1>2, RosterStep, PTL DEF Spec
-----------------------------------------------------------------------------
(* What an inference rests on *)

\* In every list since start, and none went unobserved.
Stayed(p, start) == present[p] # None /\ present[p] <= start

\* The holders an open inference rests on, and since when.
GapRests == gap # None =>
  gap.start \in Nat /\ \A p \in gap.holders : p \in Pids /\ Stayed(p, gap.start)
HangRests == hang # None =>
  hang \in [start : Nat, holder : Pids, fired : BOOLEAN] /\ Stayed(hang.holder, hang.start)
SpilloversRest == \A p \in DOMAIN spillovers :
  p \in Pids /\ spillovers[p].start \in Nat /\ Stayed(p, spillovers[p].start)

\* A process is in the lists since a tick that has passed.
PresentPast ==
  /\ now \in Nat
  /\ present \in [Pids -> Nat \union {None}]
  /\ \A p \in Pids : present[p] # None => present[p] <= now

HoldInv == PresentPast /\ GapRests /\ HangRests /\ SpilloversRest

\* A process in the list observed now has stayed since it had, or since now.
LEMMA StaysInList ==
  ASSUME PresentPast, NEW s \in Sample, NEW ps \in ProcessList, Observe(s, ps),
         NEW p \in DOMAIN ps
  PROVE  /\ p \in Pids
         /\ Stayed(p, now)'
         /\ present'[p] # None /\ present'[p] \in Nat /\ present'[p] <= now
         /\ \A start : Stayed(p, start) => present'[p] # None /\ present'[p] <= start
<1>1. p \in Pids
  BY DEF ProcessList
<1>2. now \in Nat /\ now # None /\ now' = now + 1
  BY StoryAssumption DEF PresentPast, Observe, DeviceTold
<1>3. present' = Since(present, DOMAIN ps)
  BY DEF Observe
<1>4. present'[p] = IF present[p] = None THEN now ELSE present[p]
  BY <1>1, <1>3 DEF Since
<1>5. QED
  BY <1>1, <1>2, <1>4 DEF PresentPast, Stayed

LEMMA PresentStaysPast ==
  ASSUME PresentPast, NEW S, present' = Since(present, S), now' = now + 1
  PROVE  PresentPast'
<1>1. now \in Nat /\ now' \in Nat /\ now # None
  BY StoryAssumption DEF PresentPast
<1>2. ASSUME NEW p \in Pids
      PROVE  /\ present'[p] \in Nat \union {None}
             /\ present'[p] # None => present'[p] <= now'
  BY <1>1 DEF PresentPast, Since
<1>3. present' \in [Pids -> Nat \union {None}]
  BY <1>2 DEF Since
<1>4. QED
  BY <1>1, <1>2, <1>3 DEF PresentPast

LEMMA GapStays ==
  ASSUME HoldInv, NEW s \in Sample, NEW ps \in ProcessList, Observe(s, ps)
  PROVE  GapRests'
<1>1. gap' = GapNext(s, ps) /\ now \in Nat
  BY DEF Observe, HoldInv, PresentPast
<1>2. CASE gap # None /\ Known(s.util) /\ ~Active(s)
  <2>1. gap'.start = gap.start /\ gap'.holders = {p \in gap.holders : p \in DOMAIN ps}
    BY <1>1, <1>2 DEF GapNext, StillHolding
  <2>2. \A p \in gap'.holders : p \in Pids /\ present'[p] # None /\ present'[p] <= gap'.start
    BY <1>2, <2>1, StaysInList DEF HoldInv, GapRests
  <2>3. QED
    BY <1>2, <2>1, <2>2 DEF HoldInv, GapRests, Stayed
<1>3. CASE ~(gap # None /\ Known(s.util) /\ ~Active(s)) /\ GapOpens(s)
  <2>1. /\ gap'.start = now
        /\ gap'.holders = {p \in DOMAIN ps : ps[p].mem >= IDLE_HOLDER_MIN}
    BY <1>1, <1>3 DEF GapNext
  <2>2. \A p \in gap'.holders : p \in Pids /\ present'[p] # None /\ present'[p] <= gap'.start
    BY <2>1, StaysInList DEF HoldInv
  <2>3. QED
    BY <1>1, <2>1, <2>2 DEF GapRests, Stayed
<1>4. CASE ~(gap # None /\ Known(s.util) /\ ~Active(s)) /\ ~GapOpens(s)
  BY <1>1, <1>4 DEF GapNext, GapRests
<1>5. QED
  BY <1>2, <1>3, <1>4

LEMMA HangStays ==
  ASSUME HoldInv, NEW s \in Sample, NEW ps \in ProcessList, Observe(s, ps)
  PROVE  HangRests'
<1>1. hang' \in HangNext(s, ps) /\ now \in Nat
  BY DEF Observe, HoldInv, PresentPast
<1>2. CASE hang # None /\ HangGoesOn(s, ps)
  <2>1. hang' = [hang EXCEPT !.fired = hang.fired \/ HangFires(s, ps)]
    BY <1>1, <1>2 DEF HangNext
  <2>2. hang \in [start : Nat, holder : Pids, fired : BOOLEAN]
    BY <1>2 DEF HoldInv, HangRests
  <2>3. (hang.fired \/ HangFires(s, ps)) \in BOOLEAN
    OBVIOUS
  <2>4. /\ hang' \in [start : Nat, holder : Pids, fired : BOOLEAN]
        /\ hang'.start = hang.start /\ hang'.holder = hang.holder
    BY <2>1, <2>2, <2>3
  <2>5. hang.holder \in DOMAIN ps
    BY <1>2 DEF HangGoesOn
  <2>6. present'[hang.holder] # None /\ present'[hang.holder] <= hang.start
    BY <1>2, <2>5, StaysInList DEF HoldInv, HangRests
  <2>7. QED
    BY <2>4, <2>6 DEF HangRests, Stayed
<1>3. CASE hang = None /\ LooksHung(s, ps)
  <2>1. PICK p \in Largest(ps) : hang' = [start |-> now, holder |-> p, fired |-> FALSE]
    BY <1>1, <1>3 DEF HangNext
  <2>2. p \in DOMAIN ps
    BY DEF Largest, QuietHolders
  <2>3. p \in Pids /\ present'[p] # None /\ present'[p] <= now
    BY <2>2, StaysInList DEF HoldInv
  <2>4. QED
    BY <1>1, <2>1, <2>3 DEF HangRests, Stayed
<1>4. CASE (hang # None /\ ~HangGoesOn(s, ps)) \/ (hang = None /\ ~LooksHung(s, ps))
  <2>1. hang' = None
    BY <1>1, <1>4 DEF HangNext
  <2>2. QED
    BY <2>1 DEF HangRests
<1>5. QED
  BY <1>2, <1>3, <1>4

LEMMA SpilloversStay ==
  ASSUME HoldInv, NEW s \in Sample, NEW ps \in ProcessList, Observe(s, ps)
  PROVE  SpilloversRest'
<1>1. spillovers' = Spillovers(s, ps) /\ now \in Nat
  BY DEF Observe, HoldInv, PresentPast
<1>2. SUFFICES ASSUME NEW p \in DOMAIN spillovers'
               PROVE  /\ p \in Pids /\ spillovers'[p].start \in Nat
                      /\ present'[p] # None /\ present'[p] <= spillovers'[p].start
  BY DEF SpilloversRest, Stayed
<1>3. p \in Assessed(s, ps) /\ spillovers'[p] = Counted(s, ps, p)
  BY <1>1 DEF Spillovers
<1>4. p \in DOMAIN ps
  BY <1>3 DEF Assessed
<1>5. CASE p \in DOMAIN spillovers
  <2>1. spillovers'[p].start = spillovers[p].start
    BY <1>3, <1>5 DEF Counted
  <2>2. QED
    BY <1>4, <1>5, <2>1, StaysInList DEF HoldInv, SpilloversRest
<1>6. CASE p \notin DOMAIN spillovers
  <2>1. spillovers'[p].start = now
    BY <1>3, <1>6 DEF Counted, Window
  <2>2. QED
    BY <1>1, <1>4, <2>1, StaysInList DEF HoldInv
<1>7. QED
  BY <1>5, <1>6

LEMMA HoldStep == HoldInv /\ [Next]_vars => HoldInv'
<1> SUFFICES ASSUME HoldInv, [Next]_vars PROVE HoldInv'
  OBVIOUS
<1>1. ASSUME NEW s \in Sample, NEW ps \in ProcessList, Observe(s, ps)
      PROVE  HoldInv'
  <2>1. present' = Since(present, DOMAIN ps) /\ now' = now + 1
    BY <1>1 DEF Observe, DeviceTold
  <2>2. PresentPast'
    BY <2>1, PresentStaysPast DEF HoldInv
  <2>3. QED
    BY <1>1, <2>2, GapStays, HangStays, SpilloversStay DEF HoldInv
<1>2. ASSUME NEW s \in Sample, ObserveBlind(s) PROVE HoldInv'
  <2>1. present' = Since(present, {}) /\ now' = now + 1
    BY <1>2 DEF ObserveBlind, DeviceTold
  <2>2. gap' = None /\ hang' = None /\ spillovers' = NoOne
    BY <1>2 DEF ObserveBlind, HangUnseen
  <2>3. PresentPast'
    BY <2>1, PresentStaysPast DEF HoldInv
  <2>4. QED
    BY <2>2, <2>3 DEF HoldInv, GapRests, HangRests, SpilloversRest, NoOne
<1>3. CASE Missed
  <2>1. now' = now + 1 /\ UNCHANGED <<gap, hang, spillovers, present>>
    BY <1>3 DEF Missed, inference, history
  <2>2. PresentPast'
    BY <2>1 DEF HoldInv, PresentPast
  <2>3. QED
    BY <2>1, <2>2 DEF HoldInv, GapRests, HangRests, SpilloversRest, Stayed
<1>4. CASE UNCHANGED vars
  BY <1>4 DEF vars, inference, history, HoldInv, PresentPast, GapRests, HangRests,
              SpilloversRest, Stayed
<1>5. QED
  BY <1>1, <1>2, <1>3, <1>4 DEF Next

\* Nothing is inferred about a process across a list that nobody saw or that
\* it was not in (observe, idle_gap_events, hang_events, spillover_events).
THEOREM InferencesRestOnLists == Spec => []HoldersStayed
<1>1. Init => HoldInv
  BY StoryAssumption DEF Init, HoldInv, PresentPast, GapRests, HangRests,
                         SpilloversRest, NoOne
<1>2. HoldInv => HoldersStayed
  BY DEF HoldInv, GapRests, HangRests, SpilloversRest, Stayed, HoldersStayed
<1>3. QED
  BY <1>1, <1>2, HoldStep, PTL DEF Spec

-----------------------------------------------------------------------------
(* Spillover windows belong to arrivals *)

\* A process present in every list is in the last one.
ArrivalInv ==
  /\ \A p \in Pids : present[p] # None => p \in DOMAIN procs /\ seen
  /\ DOMAIN spillovers \subseteq Pids
  /\ SpilloverOfArrivals

LEMMA ArrivalStep == ArrivalInv /\ HoldInv /\ [Next]_vars => ArrivalInv'
<1> SUFFICES ASSUME ArrivalInv, HoldInv, [Next]_vars PROVE ArrivalInv'
  OBVIOUS
<1>1. ASSUME NEW s \in Sample, NEW ps \in ProcessList, Observe(s, ps)
      PROVE  ArrivalInv'
  <2>1. /\ present' = Since(present, DOMAIN ps) /\ procs' = ps /\ seen' = TRUE
        /\ spillovers' = Spillovers(s, ps)
    BY <1>1 DEF Observe
  <2>2. now # None /\ DOMAIN ps \subseteq Pids
    BY ClockKnown DEF HoldInv, PresentPast, Clock, ProcessList
  <2>3. ASSUME NEW p \in Pids, present'[p] # None PROVE p \in DOMAIN ps
    BY <2>1, <2>3 DEF Since
  <2>4. ASSUME NEW p \in DOMAIN spillovers'
        PROVE  p \in Pids /\ spillovers'[p].start = present'[p]
    <3>1. p \in Assessed(s, ps) /\ spillovers'[p] = Counted(s, ps, p)
      BY <2>1, <2>4 DEF Spillovers
    <3>2. p \in DOMAIN ps /\ p \in Pids
      BY <2>2, <3>1 DEF Assessed
    <3>3. present'[p] = IF present[p] = None THEN now ELSE present[p]
      BY <2>1, <3>2 DEF Since
    <3>4. CASE p \in DOMAIN spillovers
      <4>1. spillovers'[p].start = spillovers[p].start
        BY <3>1, <3>4 DEF Counted
      <4>2. present[p] # None
        BY <3>4 DEF HoldInv, SpilloversRest, Stayed
      <4>3. QED
        BY <3>2, <3>3, <3>4, <4>1, <4>2 DEF ArrivalInv, SpilloverOfArrivals
    <3>5. CASE p \notin DOMAIN spillovers
      <4>1. spillovers'[p].start = now
        BY <3>1, <3>5 DEF Counted, Window
      <4>2. p \in Attached(ps)
        BY <3>1, <3>5 DEF Assessed, Newcomers
      <4>3. present[p] = None
        BY <3>2, <4>2 DEF Attached, ArrivalInv
      <4>4. QED
        BY <3>2, <3>3, <4>1, <4>3
    <3>6. QED
      BY <3>4, <3>5
  <2>5. QED
    BY <2>1, <2>3, <2>4 DEF ArrivalInv, SpilloverOfArrivals
<1>2. ASSUME NEW s \in Sample, ObserveBlind(s) PROVE ArrivalInv'
  <2>1. present' = Since(present, {}) /\ spillovers' = NoOne
    BY <1>2 DEF ObserveBlind
  <2>2. QED
    BY <2>1 DEF ArrivalInv, SpilloverOfArrivals, Since, NoOne
<1>3. CASE Missed
  BY <1>3 DEF Missed, inference, clients, history, ArrivalInv, SpilloverOfArrivals
<1>4. CASE UNCHANGED vars
  BY <1>4 DEF vars, inference, clients, history, ArrivalInv, SpilloverOfArrivals
<1>5. QED
  BY <1>1, <1>2, <1>3, <1>4 DEF Next

\* A process is assessed for a CPU spillover only from the tick it was first
\* seen in, so once per arrival (spillover_events).
THEOREM SpilloversOfArrivals == Spec => []SpilloverOfArrivals
<1>1. Init => ArrivalInv /\ HoldInv
  BY StoryAssumption DEF Init, ArrivalInv, SpilloverOfArrivals, HoldInv, PresentPast,
                         GapRests, HangRests, SpilloversRest, NoOne
<1>2. ArrivalInv /\ HoldInv /\ [Next]_vars => (ArrivalInv /\ HoldInv)'
  BY ArrivalStep, HoldStep
<1>3. ArrivalInv => SpilloverOfArrivals
  BY DEF ArrivalInv
<1>4. QED
  BY <1>1, <1>2, <1>3, PTL DEF Spec

\* Gaps, hangs and spillovers are inferred of processes seen in every list
\* since, spillovers of those that arrived (observe).
THEOREM InferencesAreSound == Spec => []InferencesHold
<1>1. HoldersStayed /\ SpilloverOfArrivals => InferencesHold
  BY DEF InferencesHold
<1>2. QED
  BY <1>1, InferencesRestOnLists, SpilloversOfArrivals, PTL

\* Processes that come and go and throttles that start and end are told so
\* that the facts give the state back (process_events, throttle_events).
THEOREM FactsAreTrue == Spec => []FactsFollowState
<1>1. RosterFollowsEvents /\ EndKnowsItsStart => FactsFollowState
  BY DEF FactsFollowState
<1>2. QED
  BY <1>1, RosterIsTold, EndsHaveStarts, PTL

-----------------------------------------------------------------------------
(* The trend of VRAM pressure *)

Entry == [at : Nat, used : Nat]

\* Later entries are later, and none is a sharp drop from the one before.
Climbs(w) ==
  \A i, j \in DOMAIN w : i < j =>
    /\ w[i].at < w[j].at
    /\ j = i + 1 => w[i].used - w[j].used <= Total \div 20

TrendInv ==
  /\ now \in Nat
  /\ vram_window \in Seq(Entry)
  /\ \A i \in DOMAIN vram_window : vram_window[i].at < now
  /\ TrendIsOneClimb

LEMMA LeastIndex ==
  ASSUME NEW S \in SUBSET Nat, S # {}
  PROVE  \E i \in S : \A j \in S : i <= j
<1>1. IsWellFoundedOn(OpToRel(<, Nat), Nat)
  BY NatLessThanWellFounded
<1>2. PICK i \in S : \A j \in S : ~ <<j, i>> \in OpToRel(<, Nat)
  BY <1>1, WFMin
<1>3. \A x, y \in Nat : y < x => <<y, x>> \in OpToRel(<, Nat)
  BY DEF OpToRel
<1>4. ASSUME NEW j \in S
      PROVE  i <= j
  <2>1. i \in Nat /\ j \in Nat
    OBVIOUS
  <2>2. ~ (j < i)
    BY <1>2, <1>3, <2>1
  <2>3. QED
    BY <2>1, <2>2
<1>5. QED
  BY <1>4

LEMMA EntriesAre ==
  ASSUME NEW w \in Seq(Entry), NEW i \in DOMAIN w
  PROVE  w[i].at \in Nat /\ w[i].used \in Nat
<1>1. w[i] \in Entry
  OBVIOUS
<1>2. QED
  BY <1>1 DEF Entry

\* What stays of a window is its part from the first entry that is not old.
LEMMA AgedIsSuffix ==
  ASSUME now \in Nat, NEW w \in Seq(Entry), w # <<>>, w[Len(w)].at = now
  PROVE  \E f \in 1..Len(w) : /\ Aged(w) = SubSeq(w, f, Len(w))
                              /\ now - w[f].at <= VRAM_WINDOW
<1> DEFINE Old(i) == now - w[i].at > VRAM_WINDOW
           Young == {i \in DOMAIN w : ~Old(i)}
<1>1. VRAM_WINDOW \in Nat
  BY StoryAssumption
<1>2. DOMAIN w = 1..Len(w) /\ Len(w) \in Nat /\ Len(w) \in DOMAIN w
  OBVIOUS
<1>3. \A i \in DOMAIN w : w[i] \in Entry
  OBVIOUS
<1>4. Len(w) \in Young
  BY <1>1, <1>2
<1>5. Young \in SUBSET Nat
  BY <1>2
<1>6. PICK f \in Young : \A j \in Young : f <= j
  <2> HIDE DEF Young
  <2>1. QED
    BY <1>4, <1>5, LeastIndex
<1>7. f \in DOMAIN w /\ ~Old(f) /\ \A j \in DOMAIN w : j < f => Old(j)
  BY <1>2, <1>6
<1> DEFINE front == CHOOSE i \in DOMAIN w : ~Old(i) /\ \A j \in DOMAIN w : j < i => Old(j)
<1>8. front \in DOMAIN w /\ ~Old(front)
  BY <1>7
<1>9. Aged(w) = SubSeq(w, front, Len(w))
  BY DEF Aged
<1>10. now - w[front].at <= VRAM_WINDOW
  <2>1. w[front].at \in Nat
    BY <1>3, <1>8 DEF Entry
  <2> HIDE DEF front
  <2>2. QED
    BY <1>1, <1>8, <2>1
<1>11. QED
  <2> HIDE DEF front
  <2>1. QED
    BY <1>2, <1>8, <1>9, <1>10

LEMMA SuffixIs ==
  ASSUME NEW w \in Seq(Entry), NEW f \in 1..Len(w)
  PROVE  LET u == SubSeq(w, f, Len(w))
         IN /\ u \in Seq(Entry)
            /\ Len(u) = Len(w) - f + 1
            /\ \A i \in DOMAIN u : i \in Nat \ {0} /\ f + i - 1 \in DOMAIN w /\ u[i] = w[f + i - 1]
OBVIOUS

\* The new entry joins a trend it does not drop from.
LEMMA TrendClimbs ==
  ASSUME TrendInv, NEW used \in Nat
  PROVE  LET w == Append(Trend(used), [at |-> now, used |-> used])
         IN /\ w \in Seq(Entry) /\ w # <<>> /\ w[Len(w)].at = now
            /\ \A i \in DOMAIN w : w[i].at <= now
            /\ Climbs(w)
<1> DEFINE t == Trend(used)
           e == [at |-> now, used |-> used]
           w == Append(t, e)
<1>1. /\ t \in Seq(Entry)
      /\ \A i \in DOMAIN t : t[i].at < now
      /\ Climbs(t)
  BY DEF Trend, TrendInv, TrendIsOneClimb, Climbs
<1>2. t # <<>> => t[Len(t)].used - used <= Total \div 20
  <2>1. CASE t = <<>>
    BY <2>1
  <2>2. CASE t # <<>>
    <3>1. t = vram_window
      BY <2>2 DEF Trend
    <3>2. vram_window # <<>> /\ ~(vram_window[Len(vram_window)].used - used > Total \div 20)
      BY <2>2, <3>1 DEF Trend
    <3>3. vram_window[Len(vram_window)] \in Entry
      BY <3>2 DEF TrendInv
    <3>4. vram_window[Len(vram_window)].used \in Nat /\ Total \in Nat
      BY <3>3, StoryAssumption DEF Entry
    <3>5. QED
      BY <3>1, <3>2, <3>4
  <2>3. QED
    BY <2>1, <2>2
<1>3. e \in Entry /\ now \in Nat /\ e.at = now /\ e.used = used
  BY DEF Entry, TrendInv
<1> HIDE DEF t, e
<1>4. /\ w \in Seq(Entry) /\ Len(w) = Len(t) + 1 /\ Len(t) \in Nat
      /\ w[Len(w)] = e /\ DOMAIN w = 1..(Len(t) + 1) /\ DOMAIN t = 1..Len(t)
      /\ \A i \in 1..Len(t) : w[i] = t[i]
  BY <1>1, <1>3
<1>5. w # <<>>
  BY <1>4
<1> HIDE DEF w
<1>6. \A i \in 1..Len(t) : t[i].at \in Nat
  BY <1>1, <1>4, EntriesAre
<1>7. \A i \in DOMAIN w : w[i].at <= now
  BY <1>1, <1>3, <1>4, <1>6
<1>8. Climbs(w)
  <2> SUFFICES ASSUME NEW i \in DOMAIN w, NEW j \in DOMAIN w, i < j
               PROVE  /\ w[i].at < w[j].at
                      /\ j = i + 1 => w[i].used - w[j].used <= Total \div 20
    BY DEF Climbs
  <2>1. i \in 1..Len(t) /\ w[i] = t[i]
    BY <1>4
  <2>2. CASE j = Len(t) + 1
    <3>1. w[j] = e
      BY <1>4, <2>2
    <3>2. j = i + 1 => i = Len(t)
      BY <1>4, <2>1, <2>2
    <3>3. t # <<>>
      BY <1>4, <2>1
    <3>4. QED
      BY <1>1, <1>2, <1>3, <1>4, <2>1, <3>1, <3>2, <3>3
  <2>3. CASE j # Len(t) + 1
    <3>1. j \in 1..Len(t) /\ w[j] = t[j]
      BY <1>4, <2>3
    <3>2. QED
      BY <1>1, <1>4, <2>1, <3>1 DEF Climbs
  <2>4. QED
    BY <2>2, <2>3
<1>9. QED
  BY <1>3, <1>4, <1>5, <1>7, <1>8 DEF t, e, w

LEMMA TrendTold ==
  ASSUME TrendInv, NEW s \in Sample, DeviceTold(s)
  PROVE  TrendInv'
<1>1. now \in Nat /\ now' = now + 1 /\ vram_window' = VramWindow(s)
  BY DEF TrendInv, DeviceTold
<1>2. CASE s.used = None
  <2>1. vram_window' = vram_window
    BY <1>1, <1>2 DEF VramWindow
  <2>2. \A i \in DOMAIN vram_window : vram_window[i].at \in Nat
    BY EntriesAre DEF TrendInv
  <2>3. QED
    BY <1>1, <2>1, <2>2 DEF TrendInv, TrendIsOneClimb
<1>3. CASE s.used # None
  <2>1. s.used \in Nat
    BY <1>3, StoryAssumption DEF Sample
  <2> DEFINE w == Append(Trend(s.used), [at |-> now, used |-> s.used])
  <2>2. /\ w \in Seq(Entry) /\ w # <<>> /\ w[Len(w)].at = now
        /\ \A i \in DOMAIN w : w[i].at <= now
        /\ Climbs(w)
    BY <2>1, TrendClimbs
  <2>3. vram_window' = Aged(w)
    BY <1>1, <1>3 DEF VramWindow
  <2> HIDE DEF w
  <2>4. PICK f \in 1..Len(w) : /\ Aged(w) = SubSeq(w, f, Len(w))
                               /\ now - w[f].at <= VRAM_WINDOW
    BY <1>1, <2>2, AgedIsSuffix
  <2> DEFINE u == SubSeq(w, f, Len(w))
  <2>5. /\ u \in Seq(Entry) /\ Len(w) \in Nat /\ f \in DOMAIN w
        /\ \A i \in DOMAIN u : i \in Nat \ {0} /\ f + i - 1 \in DOMAIN w /\ u[i] = w[f + i - 1]
    BY <2>2, SuffixIs
  <2>6. vram_window' = u
    BY <2>3, <2>4
  <2> HIDE DEF u
  <2>7. \A i \in DOMAIN w : w[i].at \in Nat
    BY <2>2, EntriesAre
  <2>8. \A i \in DOMAIN u : u[i].at < now'
    BY <1>1, <2>2, <2>5, <2>7
  <2>9. ASSUME NEW i \in DOMAIN u, NEW j \in DOMAIN u, i < j
        PROVE  /\ u[i].at < u[j].at
               /\ u[j].at - u[i].at <= VRAM_WINDOW
               /\ j = i + 1 => u[i].used - u[j].used <= Total \div 20
    <3> DEFINE k == f + i - 1
               l == f + j - 1
    <3>1. i \in Nat \ {0} /\ j \in Nat \ {0} /\ f \in Nat
      BY <2>5
    <3>2. k \in DOMAIN w /\ l \in DOMAIN w /\ u[i] = w[k] /\ u[j] = w[l]
      BY <2>5
    <3>3. k < l /\ f <= k /\ (j = i + 1 => l = k + 1)
      BY <2>9, <3>1
    <3> HIDE DEF k, l
    <3>4. w[k].at < w[l].at /\ (l = k + 1 => w[k].used - w[l].used <= Total \div 20)
      BY <2>2, <3>2, <3>3 DEF Climbs
    <3>5. w[f].at <= w[k].at
      <4>1. k \in Nat /\ f \in Nat
        BY <3>1, <3>2
      <4>2. CASE f = k
        BY <2>5, <2>7, <4>2
      <4>3. CASE f < k
        <5>1. w[f].at < w[k].at
          BY <2>2, <2>5, <3>2, <4>3 DEF Climbs
        <5>2. w[f].at \in Nat /\ w[k].at \in Nat
          BY <2>5, <2>7, <3>2
        <5>3. QED
          BY <5>1, <5>2
      <4>4. QED
        BY <3>3, <4>1, <4>2, <4>3
    <3>6. w[l].at <= now
      BY <2>2, <3>2
    <3>7. w[l].at - w[k].at <= VRAM_WINDOW
      <4>1. w[f].at \in Nat /\ w[k].at \in Nat /\ w[l].at \in Nat /\ VRAM_WINDOW \in Nat
        BY <2>5, <2>7, <3>2, StoryAssumption
      <4>2. now - w[f].at <= VRAM_WINDOW
        BY <2>4
      <4>3. QED
        BY <1>1, <3>5, <3>6, <4>1, <4>2
    <3>8. QED
      BY <3>2, <3>3, <3>4, <3>7
  <2>10. QED
    BY <1>1, <2>5, <2>6, <2>8, <2>9 DEF TrendInv, TrendIsOneClimb
<1>4. QED
  BY <1>2, <1>3

LEMMA TrendStep == TrendInv /\ [Next]_vars => TrendInv'
<1> SUFFICES ASSUME TrendInv, [Next]_vars PROVE TrendInv'
  OBVIOUS
<1>1. CASE \E s \in Sample : DeviceTold(s)
  BY <1>1, TrendTold
<1>2. CASE Missed
  <2>1. now' = now + 1 /\ vram_window' = vram_window
    BY <1>2 DEF Missed, device
  <2>2. \A i \in DOMAIN vram_window : vram_window[i].at \in Nat
    BY EntriesAre DEF TrendInv
  <2>3. QED
    BY <2>1, <2>2 DEF TrendInv, TrendIsOneClimb
<1>3. CASE UNCHANGED vars
  BY <1>3 DEF vars, device, TrendInv, TrendIsOneClimb
<1>4. QED
  BY <1>1, <1>2, <1>3 DEF Next, Observe, ObserveBlind

\* The trend behind a VRAM pressure warning is always one climb, in order of
\* time, without a sharp drop and within its window (vram_pressure_events).
THEOREM TrendsAreOneClimb == Spec => []TrendIsOneClimb
<1>1. Init => TrendInv
  BY DEF Init, TrendInv, TrendIsOneClimb
<1>2. TrendInv => TrendIsOneClimb
  BY DEF TrendInv
<1>3. QED
  BY <1>1, <1>2, TrendStep, PTL DEF Spec

-----------------------------------------------------------------------------
(* Types *)

\* A spillover window has counted no more ticks than it has lived.
Lives(p) ==
  /\ spillovers[p] \in Assessment
  /\ spillovers[p].start < now /\ spillovers[p].tick_n <= now - spillovers[p].start

TypeInv == TypeOK /\ \A p \in DOMAIN spillovers : Lives(p)

LEMMA ReadingIs ==
  ASSUME NEW s \in Sample
  PROVE  Known(s.util) => s.util \in Nat
BY StoryAssumption DEF Sample, Known

LEMMA ListIs ==
  ASSUME NEW ps \in ProcessList, NEW p \in DOMAIN ps
  PROVE  p \in Pids /\ (Known(ps[p].cpu) => ps[p].cpu \in Nat)
<1>1. PICK S \in SUBSET Pids : ps \in [S -> Process]
  BY DEF ProcessList
<1>2. p \in Pids /\ ps[p] \in Process
  BY <1>1
<1>3. QED
  BY <1>2, StoryAssumption DEF Process, Known

LEMMA DeviceTyped ==
  ASSUME TypeInv, NEW s \in Sample, DeviceTold(s)
  PROVE  /\ prev' \in Sample \union {None}
         /\ throttle_since' \in Times \union {None}
         /\ now \in Times /\ now' = now + 1 /\ now' \in 1..(MaxNow + 1)
<1>1. now \in 1..(MaxNow + 1) /\ now < MaxNow /\ now' = now + 1 /\ MaxNow \in Nat
  BY StoryAssumption DEF TypeInv, TypeOK, DeviceTold
<1>2. now \in Times /\ now' \in 1..(MaxNow + 1)
  BY <1>1 DEF Times
<1>3. throttle_since' \in Times \union {None}
  BY <1>2 DEF DeviceTold, ThrottleSince, TypeInv, TypeOK
<1>4. prev' \in Sample \union {None}
  BY DEF DeviceTold
<1>5. QED
  BY <1>1, <1>2, <1>3, <1>4

LEMMA GapTyped ==
  ASSUME TypeInv, now \in Times, NEW s \in Sample, NEW ps \in ProcessList
  PROVE  /\ GapNext(s, ps) \in Gap \union {None}
         /\ gap # None /\ Known(s.util) /\ ~Active(s) => GapNext(s, ps) \in Gap
         /\ GapOpens(s) => GapNext(s, ps) \in Gap
<1>1. CASE gap # None /\ Known(s.util) /\ ~Active(s)
  <2>1. gap \in Gap
    BY <1>1 DEF TypeInv, TypeOK
  <2>2. StillHolding(ps) \subseteq Pids
    BY <2>1 DEF StillHolding, Gap
  <2>3. Muted(s, ps) \in BOOLEAN
    BY <2>1 DEF Muted, Gap
  <2>4. GapNext(s, ps) = [start |-> gap.start, holders |-> StillHolding(ps),
                          hang_narrated |-> Muted(s, ps)]
    BY <1>1 DEF GapNext
  <2>5. gap.start \in Times
    BY <2>1 DEF Gap
  <2>6. GapNext(s, ps) \in Gap
    BY <2>2, <2>3, <2>4, <2>5 DEF Gap
  <2>7. QED
    BY <2>6
<1>2. CASE ~(gap # None /\ Known(s.util) /\ ~Active(s)) /\ GapOpens(s)
  <2>1. {p \in DOMAIN ps : ps[p].mem >= IDLE_HOLDER_MIN} \subseteq Pids
    BY ListOfPids
  <2>2. GapNext(s, ps) = [start |-> now,
                          holders |-> {p \in DOMAIN ps : ps[p].mem >= IDLE_HOLDER_MIN},
                          hang_narrated |-> FALSE]
    BY <1>2 DEF GapNext
  <2>3. GapNext(s, ps) \in Gap
    BY <2>1, <2>2 DEF Gap
  <2>4. QED
    BY <1>2, <2>3
<1>3. CASE ~(gap # None /\ Known(s.util) /\ ~Active(s)) /\ ~GapOpens(s)
  BY <1>3 DEF GapNext
<1>4. QED
  BY <1>1, <1>2, <1>3

LEMMA HangTyped ==
  ASSUME TypeInv, now \in Times, NEW s \in Sample, NEW ps \in ProcessList
  PROVE  HangNext(s, ps) \subseteq Hang \union {None}
<1>1. CASE hang # None /\ HangGoesOn(s, ps)
  <2>1. hang \in Hang
    BY <1>1 DEF TypeInv, TypeOK
  <2> DEFINE fired == hang.fired \/ HangFires(s, ps)
  <2>2. fired \in BOOLEAN
    OBVIOUS
  <2>3. HangNext(s, ps) = {[hang EXCEPT !.fired = fired]}
    BY <1>1 DEF HangNext
  <2> HIDE DEF fired
  <2>4. [hang EXCEPT !.fired = fired] \in Hang
    BY <2>1, <2>2 DEF Hang
  <2>5. QED
    BY <2>3, <2>4
<1>2. CASE hang # None /\ ~HangGoesOn(s, ps)
  BY <1>2 DEF HangNext
<1>3. CASE hang = None
  <2>1. \A p \in Largest(ps) : p \in Pids
    BY ListOfPids DEF Largest, QuietHolders
  <2>2. \A p \in Largest(ps) : [start |-> now, holder |-> p, fired |-> FALSE] \in Hang
    BY <2>1 DEF Hang
  <2>3. QED
    BY <1>3, <2>2 DEF HangNext
<1>4. QED
  BY <1>1, <1>2, <1>3

\* A window that is not closed has room for the tick it counts.
LEMMA SpilloverTyped ==
  ASSUME TypeInv, now \in Times, NEW s \in Sample, NEW ps \in ProcessList,
         NEW p \in Assessed(s, ps), ~Closed(Counted(s, ps, p))
  PROVE  /\ p \in Pids
         /\ Counted(s, ps, p) \in Assessment
         /\ Counted(s, ps, p).start < now + 1
         /\ Counted(s, ps, p).tick_n <= now + 1 - Counted(s, ps, p).start
<1> DEFINE sp == IF p \in DOMAIN spillovers THEN spillovers[p] ELSE Window(now)
           c == Counted(s, ps, p)
<1>1. p \in DOMAIN ps /\ p \in Pids
  BY ListOfPids DEF Assessed
<1>2. (Known(s.util) => s.util \in Nat) /\ (Known(ps[p].cpu) => ps[p].cpu \in Nat)
  BY <1>1, ReadingIs, ListIs
<1>3. now \in Nat /\ SPILLOVER_WINDOW \in Nat
  BY StoryAssumption DEF Times
<1>4. /\ sp.start \in Times /\ sp.util_sum \in Nat /\ sp.util_n \in Nat /\ sp.cpu_sum \in Nat
      /\ sp.cpu_n \in Nat /\ sp.tick_n \in Nat
      /\ sp.start <= now /\ sp.tick_n <= now - sp.start
  <2>1. CASE p \in DOMAIN spillovers
    <3>1. Lives(p) /\ sp = spillovers[p]
      BY <2>1 DEF TypeInv
    <3> HIDE DEF sp
    <3>2. /\ sp \in Assessment /\ sp.start < now /\ sp.tick_n <= now - sp.start
      BY <3>1 DEF Lives
    <3>3. sp.start \in Nat
      BY <3>2 DEF Assessment, Times
    <3>4. QED
      BY <1>3, <3>2, <3>3 DEF Assessment
  <2>2. CASE p \notin DOMAIN spillovers
    <3>1. sp = Window(now)
      BY <2>2
    <3> HIDE DEF sp
    <3>2. QED
      BY <1>3, <3>1 DEF Window
  <2>3. QED
    BY <2>1, <2>2
<1>5. c = [start |-> sp.start,
           util_sum |-> sp.util_sum + (IF Known(s.util) THEN s.util ELSE 0),
           util_n |-> sp.util_n + (IF Known(s.util) THEN 1 ELSE 0),
           cpu_sum |-> sp.cpu_sum + (IF Known(ps[p].cpu) THEN ps[p].cpu ELSE 0),
           cpu_n |-> sp.cpu_n + (IF Known(ps[p].cpu) THEN 1 ELSE 0),
           tick_n |-> sp.tick_n + 1]
  BY DEF Counted
<1> HIDE DEF sp
<1>6. ~(now - c.start >= SPILLOVER_WINDOW)
  BY DEF Closed
<1> HIDE DEF c
<1>7. sp.start \in Nat
  BY <1>4 DEF Times
<1>8. c.start = sp.start /\ c.tick_n = sp.tick_n + 1
  BY <1>5
<1>9. c.tick_n \in 1..SPILLOVER_WINDOW
  BY <1>3, <1>4, <1>6, <1>7, <1>8
<1>10. c.start < now + 1 /\ c.tick_n <= now + 1 - c.start
  BY <1>3, <1>4, <1>7, <1>8
<1>11. /\ c.util_sum \in Nat /\ c.util_n \in Nat /\ c.cpu_sum \in Nat /\ c.cpu_n \in Nat
  BY <1>2, <1>4, <1>5
<1>12. c \in Assessment
  <2>1. c = [start |-> c.start, util_sum |-> c.util_sum, util_n |-> c.util_n,
             cpu_sum |-> c.cpu_sum, cpu_n |-> c.cpu_n, tick_n |-> c.tick_n]
    BY <1>5
  <2>2. QED
    BY <1>4, <1>8, <1>9, <1>11, <2>1 DEF Assessment
<1>13. QED
  BY <1>1, <1>10, <1>12 DEF c

LEMMA TypeObserved ==
  ASSUME TypeInv, NEW s \in Sample, NEW ps \in ProcessList, Observe(s, ps)
  PROVE  TypeInv'
<1>1. /\ spillovers' = Spillovers(s, ps) /\ procs' = ps /\ seen' = TRUE
      /\ hang' \in HangNext(s, ps) /\ gap' = GapNext(s, ps)
      /\ active_since' = ActiveSince(s) /\ idle_eligible' = IdleEligible(s)
      /\ DeviceTold(s)
  BY DEF Observe
<1>2. /\ prev' \in Sample \union {None} /\ throttle_since' \in Times \union {None}
      /\ now \in Times /\ now' = now + 1 /\ now' \in 1..(MaxNow + 1)
  BY <1>1, DeviceTyped
<1>3. gap' \in Gap \union {None}
  BY <1>1, <1>2, GapTyped
<1>4. hang' \in Hang \union {None}
  BY <1>1, <1>2, HangTyped
<1>5. active_since' \in Times \union {None}
  BY <1>1, <1>2 DEF ActiveSince, TypeInv, TypeOK
<1>6. idle_eligible' \in BOOLEAN
  BY <1>1 DEF IdleEligible, TypeInv, TypeOK
<1>7. ASSUME NEW p \in DOMAIN spillovers'
      PROVE  p \in Pids /\ Lives(p)'
  <2>1. p \in Assessed(s, ps) /\ ~Closed(Counted(s, ps, p)) /\ spillovers'[p] = Counted(s, ps, p)
    BY <1>1, <1>7 DEF Spillovers
  <2>2. /\ p \in Pids
        /\ Counted(s, ps, p) \in Assessment
        /\ Counted(s, ps, p).start < now + 1
        /\ Counted(s, ps, p).tick_n <= now + 1 - Counted(s, ps, p).start
    BY <1>2, <2>1, SpilloverTyped
  <2>3. now' = now + 1 /\ spillovers'[p] = Counted(s, ps, p)
    BY <1>2, <2>1
  <2>4. /\ spillovers'[p] \in Assessment
        /\ spillovers'[p].start < now' /\ spillovers'[p].tick_n <= now' - spillovers'[p].start
    <3> DEFINE c == Counted(s, ps, p)
    <3>1. /\ c \in Assessment /\ c.start < now + 1 /\ c.tick_n <= now + 1 - c.start
          /\ spillovers'[p] = c
      BY <2>2, <2>3
    <3> HIDE DEF c
    <3>2. c.start \in Nat /\ c.tick_n \in Nat /\ now \in Nat
      BY <1>2, <3>1, StoryAssumption DEF Assessment, Times
    <3>3. c.start < now' /\ c.tick_n <= now' - c.start
      BY <2>3, <3>1, <3>2
    <3>4. QED
      BY <3>1, <3>3
  <2>5. QED
    BY <2>2, <2>4 DEF Lives
<1>8. \A p \in DOMAIN spillovers' : p \in Pids /\ spillovers'[p] \in Assessment /\ Lives(p)'
  BY <1>7 DEF Lives
<1>9. procs' \in ProcessList /\ seen' \in BOOLEAN
  BY <1>1
<1>10. QED
  BY <1>2, <1>3, <1>4, <1>5, <1>6, <1>8, <1>9 DEF TypeInv, TypeOK

LEMMA TypeStep == TypeInv /\ [Next]_vars => TypeInv'
<1> SUFFICES ASSUME TypeInv, [Next]_vars PROVE TypeInv'
  OBVIOUS
<1>1. ASSUME NEW s \in Sample, NEW ps \in ProcessList, Observe(s, ps)
      PROVE  TypeInv'
  BY <1>1, TypeObserved
<1>2. ASSUME NEW s \in Sample, ObserveBlind(s)
      PROVE  TypeInv'
  <2>1. /\ hang' = None /\ gap' = None /\ spillovers' = NoOne /\ procs' = procs
        /\ seen' = seen /\ active_since' = active_since /\ idle_eligible' = idle_eligible
        /\ DeviceTold(s)
    BY <1>2 DEF ObserveBlind, HangUnseen, KeptUnseen
  <2>2. /\ prev' \in Sample \union {None} /\ throttle_since' \in Times \union {None}
        /\ now' \in 1..(MaxNow + 1)
    BY <2>1, DeviceTyped
  <2>3. DOMAIN spillovers' = {}
    BY <2>1 DEF NoOne
  <2>4. QED
    BY <2>1, <2>2, <2>3 DEF TypeInv, TypeOK
<1>3. CASE Missed
  <2>1. /\ UNCHANGED <<inference, device, clients>>
        /\ now < MaxNow /\ now' = now + 1
    BY <1>3 DEF Missed
  <2>2. now \in Nat /\ now' \in 1..(MaxNow + 1)
    BY <2>1, StoryAssumption DEF TypeInv, TypeOK
  <2>3. ASSUME NEW p \in DOMAIN spillovers
        PROVE  Lives(p)'
    <3>1. Lives(p) /\ spillovers' = spillovers
      BY <2>1 DEF TypeInv, inference
    <3>2. spillovers[p].start \in Nat /\ spillovers[p].tick_n \in Nat
      BY <3>1, StoryAssumption DEF Lives, Assessment, Times
    <3>3. QED
      BY <2>1, <2>2, <3>1, <3>2 DEF Lives
  <2>4. TypeOK'
    BY <2>1, <2>2 DEF TypeInv, TypeOK, inference, device, clients
  <2>5. spillovers' = spillovers
    BY <2>1 DEF inference
  <2>6. QED
    BY <2>3, <2>4, <2>5 DEF TypeInv
<1>4. CASE UNCHANGED vars
  BY <1>4 DEF vars, inference, device, clients, TypeInv, TypeOK, Lives
<1>5. QED
  BY <1>1, <1>2, <1>3, <1>4 DEF Next

LEMMA TypeInit == Init => TypeInv
<1> SUFFICES ASSUME Init PROVE TypeInv
  OBVIOUS
<1>1. NoOne \in [{} -> Process] /\ DOMAIN NoOne = {}
  BY DEF NoOne
<1>2. NoOne \in ProcessList
  BY <1>1 DEF ProcessList
<1>3. now \in 1..(MaxNow + 1)
  BY StoryAssumption DEF Init
<1>4. QED
  BY <1>1, <1>2, <1>3 DEF Init, TypeInv, TypeOK

\* The engine's state stays in its types; a spillover window never counts more
\* ticks than its span (spillover_events).
THEOREM StoryTypes == Spec => []TypeOK
<1>1. TypeInv => TypeOK
  BY DEF TypeInv
<1>2. QED
  BY <1>1, TypeInit, TypeStep, PTL DEF Spec

-----------------------------------------------------------------------------
(* Troughs *)

\* A trough whose hang was told stays muted until the device works again, and
\* while one hangs no gap can open beside it; the clock of activity, where it
\* counts, runs no longer than the work does.
TroughInv ==
  /\ now \in Nat
  /\ idle_eligible \in BOOLEAN
  /\ "hang" \in told =>
       IF gap = None THEN ~idle_eligible ELSE gap.hang_narrated
  /\ hang # None => gap # None \/ ~idle_eligible
  /\ gap = None /\ active_since # None =>
       active_since \in Nat /\ working # None /\ working \in Nat /\ working <= active_since
  /\ working # None => working \in Nat /\ working <= now

\* Which kinds an observed list tells.
LEMMA ToldOfTroughs ==
  ASSUME NEW s \in Sample, NEW ps \in ProcessList, Observe(s, ps)
  PROVE  /\ <<"idle_gap", None>> \in said' => GapSaid(s, ps) # {}
         /\ (\E event \in said' : event[1] = "hang") => HangFires(s, ps)
<1>1. said' = ThrottleSaid(s) \union SpilloverSaid(s, ps) \union ProcessSaid(ps)
                \union HangSaid(s, ps) \union GapSaid(s, ps) \union PressureSaid(s)
  BY DEF Observe
<1>2. ASSUME NEW event \in said', event[1] \in {"hang", "idle_gap"}
      PROVE  event \in HangSaid(s, ps) \/ event \in GapSaid(s, ps)
  BY <1>1, <1>2 DEF ThrottleSaid, SpilloverSaid, ProcessSaid, PressureSaid, When, Pairs
<1>3. \A event \in HangSaid(s, ps) : event[1] = "hang" /\ HangFires(s, ps)
  BY DEF HangSaid
<1>4. \A event \in GapSaid(s, ps) : event[1] = "idle_gap"
  BY DEF GapSaid, When
<1>5. QED
  BY <1>2, <1>3, <1>4

\* Where the list is seen, a trough is told once and only sustained work arms
\* the next.
LEMMA TroughObserved ==
  ASSUME TypeInv, TroughInv, NEW s \in Sample, NEW ps \in ProcessList, Observe(s, ps)
  PROVE  TroughInv' /\ OncePerTrough /\ ActivityIsSustained
<1>0. now \in Times
  BY DeviceTyped DEF Observe
<1>1. /\ hang' \in HangNext(s, ps) /\ gap' = GapNext(s, ps)
      /\ active_since' = ActiveSince(s) /\ idle_eligible' = IdleEligible(s)
  BY DEF Observe
<1>2. /\ now' = now + 1
      /\ working' = IF ~Active(s) THEN None ELSE IF working = None THEN now ELSE working
      /\ told' = IF Active(s) THEN {} ELSE told \union {event[1] : event \in said'}
  BY DEF Observe, DeviceTold
<1>3. now \in Nat /\ now # None /\ now' \in Nat
  BY <1>2, ClockKnown DEF TroughInv, Clock
<1>4. "hang" \in told' => ~Active(s) /\ ("hang" \in told \/ HangFires(s, ps))
  BY <1>2, ToldOfTroughs
<1>5. Known(s.util) => s.util \in Nat
  BY ReadingIs
<1>6. Active(s) => Known(s.util) /\ ~(s.util < IDLE_GAP_UTIL)
  BY <1>5 DEF Active, IDLE_ACTIVE_UTIL, IDLE_GAP_UTIL
<1>7. LooksHung(s, ps) => Known(s.util) /\ ~Active(s) /\ s.util < IDLE_GAP_UTIL
  BY <1>5 DEF LooksHung, Active, IDLE_ACTIVE_UTIL, IDLE_GAP_UTIL, HANG_DEVICE_UTIL
<1>8. HangFires(s, ps) => LooksHung(s, ps) /\ hang # None
  BY DEF HangFires, HangGoesOn
<1>9. hang' # None => LooksHung(s, ps)
  BY <1>1 DEF HangNext, HangGoesOn
<1>10. idle_eligible' \in BOOLEAN
  BY <1>1 DEF IdleEligible, TroughInv
<1>11. working' # None => working' \in Nat /\ working' <= now'
  BY <1>2, <1>3 DEF TroughInv
<1>12. OncePerTrough
  <2> SUFFICES ASSUME "hang" \in told, <<"idle_gap", None>> \in said' PROVE FALSE
    BY DEF OncePerTrough
  <2>1. gap # None /\ ~gap.hang_narrated
    BY ToldOfTroughs DEF GapSaid, When
  <2>2. QED
    BY <2>1 DEF TroughInv
<1>13. CASE gap # None
  <2>1. idle_eligible' <=> Known(s.util) /\ idle_eligible /\ ~Active(s)
    BY <1>1, <1>13 DEF IdleEligible
  <2>2. ActivityIsSustained
    BY <2>1 DEF ActivityIsSustained
  <2>3. CASE Known(s.util) /\ ~Active(s)
    <3>1. gap' = [start |-> gap.start, holders |-> StillHolding(ps),
                  hang_narrated |-> Muted(s, ps)]
      BY <1>1, <1>13, <2>3 DEF GapNext
    <3>2. "hang" \in told' => gap'.hang_narrated
      BY <1>4, <1>13, <3>1 DEF Muted, TroughInv
    <3>3. gap' # None
      <4>1. gap' \in Gap
        BY <1>0, <1>1, <1>13, <2>3, GapTyped
      <4>2. QED
        BY <4>1, StoryAssumption
    <3>4. QED
      BY <1>3, <1>10, <1>11, <1>12, <2>2, <3>2, <3>3 DEF TroughInv
  <2>4. CASE ~(Known(s.util) /\ ~Active(s))
    <3>1. gap' = None /\ ~idle_eligible'
      BY <1>1, <1>13, <2>1, <2>4 DEF GapNext, GapOpens
    <3>2. active_since' # None =>
            active_since' \in Nat /\ working' # None /\ working' \in Nat
              /\ working' <= active_since'
      BY <1>1, <1>2, <1>3, <1>13, <2>4 DEF ActiveSince, TroughInv
    <3>3. QED
      BY <1>3, <1>10, <1>11, <1>12, <2>2, <3>1, <3>2 DEF TroughInv
  <2>5. QED
    BY <2>3, <2>4
<1>14. CASE gap = None
  <2>1. active_since' # None =>
          /\ active_since' \in Nat /\ working' # None /\ working' \in Nat
          /\ working' <= active_since' /\ Active(s)
    BY <1>1, <1>2, <1>3, <1>14 DEF ActiveSince, TroughInv
  <2>2. ActivityIsSustained
    <3> SUFFICES ASSUME ~idle_eligible, idle_eligible'
                 PROVE  working' # None /\ now - working' >= IDLE_ACTIVE_MIN
      BY DEF ActivityIsSustained
    <3>1. Active(s) /\ Known(s.util) /\ now - active_since' >= IDLE_ACTIVE_MIN
      BY <1>1, <1>14 DEF IdleEligible
    <3>2. active_since' # None
      BY <1>1, <1>3, <1>14, <3>1 DEF ActiveSince
    <3>3. IDLE_ACTIVE_MIN \in Nat
      BY StoryAssumption
    <3>4. QED
      BY <1>3, <2>1, <3>1, <3>2, <3>3
  <2>3. CASE GapOpens(s)
    <3>1. Known(s.util) /\ s.util < IDLE_GAP_UTIL /\ ~Active(s) /\ idle_eligible
      BY <1>6, <2>3 DEF GapOpens
    <3>2. gap' = [start |-> now,
                  holders |-> {p \in DOMAIN ps : ps[p].mem >= IDLE_HOLDER_MIN},
                  hang_narrated |-> FALSE]
      BY <1>1, <1>14, <2>3 DEF GapNext
    <3>3. gap' # None
      <4>1. gap' \in Gap
        BY <1>0, <1>1, <2>3, GapTyped
      <4>2. QED
        BY <4>1, StoryAssumption
    <3>4. "hang" \notin told'
      BY <1>4, <1>8, <1>14, <3>1 DEF TroughInv
    <3>5. QED
      BY <1>3, <1>10, <1>11, <1>12, <2>2, <3>3, <3>4 DEF TroughInv
  <2>4. CASE ~GapOpens(s)
    <3>1. gap' = None
      BY <1>1, <1>14, <2>4 DEF GapNext
    <3>2. ~Active(s) => (idle_eligible' <=> Known(s.util) /\ idle_eligible)
      BY <1>1, <1>14 DEF IdleEligible
    <3>3. LooksHung(s, ps) => ~idle_eligible /\ ~idle_eligible'
      BY <1>7, <1>14, <2>4, <3>2 DEF GapOpens
    <3>4. "hang" \in told' => ~idle_eligible'
      BY <1>4, <1>8, <1>14, <3>2, <3>3 DEF TroughInv
    <3>5. hang' # None => ~idle_eligible'
      BY <1>9, <3>3
    <3>6. QED
      BY <1>3, <1>10, <1>11, <1>12, <2>1, <2>2, <3>1, <3>4, <3>5 DEF TroughInv
  <2>5. QED
    BY <2>3, <2>4
<1>15. QED
  BY <1>13, <1>14

LEMMA TroughMissed ==
  ASSUME TroughInv, Missed
  PROVE  TroughInv' /\ OncePerTrough /\ ActivityIsSustained
<1>1. /\ UNCHANGED <<active_since, idle_eligible, gap, hang, working, told>>
      /\ now' = now + 1 /\ said' = {}
  BY DEF Missed, inference, history
<1>2. TroughInv'
  BY <1>1 DEF TroughInv
<1>3. ActivityIsSustained
  BY <1>1 DEF ActivityIsSustained
<1>4. OncePerTrough
  BY <1>1 DEF OncePerTrough
<1>5. QED
  BY <1>2, <1>3, <1>4

\* Where every list is seen, an idle gap and a hang tell a trough once, and a
\* gap is told only of a device that had worked (idle_gap_events, hang_events).
THEOREM GapsTellTroughs == Spec2 => GapsAreTroughs
<1> DEFINE Settled == setting \in {"lists", "device", "troughs"}
           Seeing == setting # "lists" => TroughInv
<1>1. Init2 => TypeInv /\ Settled /\ Seeing
  <2>1. Init => TroughInv
    <3>1. Init => /\ now = 1 /\ idle_eligible = FALSE /\ told = {} /\ hang = None
                  /\ active_since = None /\ working = None
      BY DEF Init
    <3>2. 1 \in Nat
      OBVIOUS
    <3> SUFFICES ASSUME Init PROVE TroughInv
      OBVIOUS
    <3>3. /\ now \in Nat /\ idle_eligible \in BOOLEAN /\ "hang" \notin told
          /\ hang = None /\ active_since = None /\ working = None
      BY <3>1, <3>2
    <3>4. QED
      BY <3>3 DEF TroughInv
  <2>2. QED
    BY <2>1, TypeInit DEF Init2
<1>2. ASSUME TypeInv, Settled, Seeing, [Next2]_<<vars, setting>>
      PROVE  /\ TypeInv' /\ Settled' /\ Seeing'
             /\ [setting # "lists" => OncePerTrough /\ ActivityIsSustained]_<<vars, setting>>
  <2>1. CASE UNCHANGED <<vars, setting>>
    <3>1. TypeInv'
      BY <1>2, <2>1, TypeStep
    <3>2. UNCHANGED <<now, idle_eligible, told, gap, hang, active_since, working, setting>>
      BY <2>1 DEF vars, inference, history
    <3>3. QED
      BY <1>2, <2>1, <3>1, <3>2 DEF TroughInv
  <2>2. ASSUME NEW s \in Samples[setting], NEW ps \in Lists[setting], Observe(s, ps),
               setting' = setting
        PROVE  /\ TypeInv' /\ Seeing'
               /\ setting # "lists" => OncePerTrough /\ ActivityIsSustained
    <3>1. s \in Sample /\ ps \in ProcessList
      BY <1>2 DEF Samples, Lists
    <3>2. QED
      BY <1>2, <2>2, <3>1, TypeObserved, TroughObserved
  <2>3. ASSUME setting = "lists", NEW s \in Samples[setting], ObserveBlind(s),
               setting' = setting
        PROVE  TypeInv' /\ Seeing'
    <3>1. s \in Sample
      BY <2>3 DEF Samples
    <3>2. QED
      BY <1>2, <2>3, <3>1, TypeStep DEF Next
  <2>4. CASE Missed /\ setting' = setting
    BY <1>2, <2>4, TypeStep, TroughMissed DEF Next
  <2>5. QED
    BY <1>2, <2>1, <2>2, <2>3, <2>4 DEF Next2
<1>3. QED
  BY <1>1, <1>2, PTL DEF Spec2, GapsAreTroughs
=============================================================================
