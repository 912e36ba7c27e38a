--------------------------- MODULE ConsoleProofs ---------------------------
(***************************************************************************)
(* Theorems about the terminal application beside its collection thread,   *)
(* for every zoom ladder, strip width, story pane, retention, clock step   *)
(* and database it may open: what the overview and replay show, and where  *)
(* a key leads.                                                            *)
(***************************************************************************)
EXTENDS Console, TLAPS, WellFoundedInduction, FiniteSetTheorems

-----------------------------------------------------------------------------
(* Numbers, sets of numbers and sequences *)

\* The numeric part of the assumptions on the constants.
LEMMA Sizes ==
  /\ OneMin \in Nat /\ OneMin > 0
  /\ HalfWindow \in Nat /\ Lookback \in Nat /\ Retain \in Nat
  /\ Cols \in Nat /\ Cols > 0
  /\ StoryRows \in Nat /\ StoryRows > 0
  /\ FeedCap \in Nat /\ FeedCap > 0
  /\ MaxNow \in Nat /\ MaxCursor \in Nat /\ MaxEvents \in Nat
  /\ DefaultZoom \in DOMAIN Rungs
  /\ Rungs \in Seq([span : Nat, tier : Tiers])
  /\ Steps \subseteq Nat /\ Scrubs \subseteq Nat /\ Jumps \subseteq Nat /\ Told \subseteq Nat
BY ConsoleAssumption

\* No number, reading or hint is None.
LEMMA NoneIsApart ==
  /\ None \notin Nat /\ None \notin BOOLEAN /\ None # {}
  /\ None \notin {"no_persistence", "unreadable"}
  /\ None \notin Seq(EventType) /\ None \notin Window /\ None \notin Replay
BY ConsoleAssumption

\* A tier's width is positive.
LEMMA WidthIs == \A tier \in Tiers : WidthOf(tier) \in Nat /\ WidthOf(tier) > 0
BY Sizes DEF WidthOf, TEN_SEC

\* A saturating difference is a number below its first term.
LEMMA SatSubIs ==
  ASSUME NEW a \in Nat, NEW b \in Nat
  PROVE  /\ SatSub(a, b) \in Nat /\ SatSub(a, b) <= a
         /\ a <= SatSub(a, b) + b
         /\ a >= b => SatSub(a, b) = a - b
BY DEF SatSub

\* Division with remainder.
LEMMA DivMod ==
  ASSUME NEW n \in Nat, NEW w \in Nat, w > 0
  PROVE  /\ n % w \in 0..(w - 1) /\ n \div w \in Nat
         /\ n = (n \div w) * w + (n % w)
OBVIOUS

\* The key of a moment is the start of its bucket.
LEMMA KeyIs ==
  ASSUME NEW ts \in Nat, NEW w \in Nat, w > 0
  PROVE  KeyOf(ts, w) \in Nat /\ KeyOf(ts, w) <= ts /\ ts < KeyOf(ts, w) + w
<1> DEFINE q == (ts \div w) * w
<1>1. ts % w \in 0..(w - 1) /\ ts \div w \in Nat /\ ts = q + (ts % w)
  BY DivMod
<1>2. q \in Nat
  BY <1>1
<1>3. KeyOf(ts, w) = q
  <2> HIDE DEF q
  <2> QED BY <1>1, <1>2 DEF KeyOf
<1> HIDE DEF q
<1> QED BY <1>1, <1>2, <1>3

LEMMA TenIsAligned == \A ts \in Nat : KeyOf(ts, TEN_SEC) % TEN_SEC = 0
BY DEF KeyOf, TEN_SEC

\* A clamp lands between its bounds, and leaves alone what is there already.
LEMMA ClampIs ==
  ASSUME NEW x \in Nat, NEW lo \in Nat, NEW hi \in Nat, lo <= hi
  PROVE  /\ Clamp(x, lo, hi) \in Nat
         /\ lo <= Clamp(x, lo, hi) /\ Clamp(x, lo, hi) <= hi
         /\ lo <= x /\ x <= hi => Clamp(x, lo, hi) = x
BY DEF Clamp, Lesser, Greater

\* A nonempty set of numbers has a least one, and MinOf is it.
LEMMA MinIs ==
  ASSUME NEW S \in SUBSET Nat, S # {}
  PROVE  MinOf(S) \in S /\ \A y \in S : MinOf(S) <= y
<1>1. IsWellFoundedOn(OpToRel(<, Nat), Nat)
  BY NatLessThanWellFounded
<1>2. PICK x \in S : \A y \in S : ~ <<y, x>> \in OpToRel(<, Nat)
  BY <1>1, WFMin
<1>3. \A y, z \in Nat : y < z => <<y, z>> \in OpToRel(<, Nat)
  BY DEF OpToRel
<1>4. \A y \in S : x <= y
  <2>1. TAKE y \in S
  <2>2. x \in Nat /\ y \in Nat /\ ~ (y < x)
    BY <1>2, <1>3
  <2> QED BY <2>2
<1> QED BY <1>4 DEF MinOf

\* A set of numbers under a bound, with its greatest element.
Under(S, b) == \A x \in S : x <= b
LEMMA MaxIs ==
  ASSUME NEW S \in SUBSET Nat, S # {}, NEW b \in Nat, Under(S, b)
  PROVE  MaxOf(S) \in S /\ \A y \in S : y <= MaxOf(S)
<1> DEFINE T == {b - x : x \in S}
<1>1. \A x \in S : x \in Nat /\ b - x \in Nat
  BY DEF Under
<1>2. T \in SUBSET Nat /\ T # {}
  BY <1>1
<1>3. MinOf(T) \in T /\ \A y \in T : MinOf(T) <= y
  <2> HIDE DEF T
  <2> QED BY <1>2, MinIs
<1>4. PICK m \in S : MinOf(T) = b - m
  BY <1>3
<1>5. \A y \in S : y <= m
  <2>1. TAKE y \in S
  <2>2. b - y \in T /\ b - m <= b - y
    BY <1>3, <1>4
  <2> QED BY <1>1, <2>2
<1> QED BY <1>5 DEF MaxOf

\* A finite set of numbers has a bound.
LEMMA FiniteIsBounded ==
  ASSUME NEW S \in SUBSET Nat, IsFiniteSet(S)
  PROVE  \E b \in Nat : Under(S, b)
<1> DEFINE Loose == {T \in SUBSET S : ~ \E b \in Nat : Under(T, b)}
<1>1. SUFFICES ASSUME Loose # {}
               PROVE  FALSE
  OBVIOUS
<1>2. FiniteSubsetsOf(S) = SUBSET S
  BY FS_FiniteSubsetsOfFinite
<1>3. IsWellFoundedOn(StrictSubsetOrdering(S), SUBSET S)
  BY <1>2, FS_StrictSubsetOrderingWellFounded
<1>4. \E T \in Loose : \A U \in Loose : ~ <<U, T>> \in StrictSubsetOrdering(S)
  <2>1. Loose \subseteq SUBSET S
    OBVIOUS
  <2> HIDE DEF Loose
  <2> QED BY <1>1, <1>3, <2>1, WFMin
<1>5. PICK T \in Loose : \A U \in Loose : ~ <<U, T>> \in StrictSubsetOrdering(S)
  BY <1>4
<1>6. PICK x \in T : TRUE
  <2>1. Under({}, 0)
    BY DEF Under
  <2> QED BY <2>1
<1>7. <<T \ {x}, T>> \in StrictSubsetOrdering(S)
  BY <1>6 DEF StrictSubsetOrdering
<1>8. PICK b \in Nat : Under(T \ {x}, b)
  BY <1>5, <1>7
<1>9. x \in Nat /\ T \subseteq Nat
  BY <1>6
<1>10. PICK c \in Nat : x <= c /\ b <= c
  <2>1. CASE x <= b
    BY <2>1
  <2>2. CASE b <= x
    BY <1>9, <2>2
  <2> QED BY <1>9, <2>1, <2>2
<1>11. Under(T, c)
  <2>1. SUFFICES ASSUME NEW y \in T
                 PROVE  y <= c
    BY DEF Under
  <2>2. CASE y = x
    BY <1>10, <2>2
  <2>3. CASE y # x
    <3>1. y <= b /\ y \in Nat
      BY <1>8, <1>9, <2>3 DEF Under
    <3> QED BY <1>10, <3>1
  <2> QED BY <2>2, <2>3
<1> QED BY <1>11

\* The elements of a concatenation and of a stretch of a sequence.
LEMMA ConcatIs ==
  ASSUME NEW S, NEW s \in Seq(S), NEW t \in Seq(S)
  PROVE  /\ s \o t \in Seq(S) /\ Len(s \o t) = Len(s) + Len(t)
         /\ \A i \in 1..(Len(s) + Len(t)) :
              (s \o t)[i] = IF i <= Len(s) THEN s[i] ELSE t[i - Len(s)]
OBVIOUS

LEMMA StretchIs ==
  ASSUME NEW S, NEW s \in Seq(S), NEW a \in 1..Len(s), NEW b \in 1..Len(s), a <= b
  PROVE  /\ SubSeq(s, a, b) \in Seq(S) /\ Len(SubSeq(s, a, b)) = b + 1 - a
         /\ \A i \in 1..(b + 1 - a) : SubSeq(s, a, b)[i] = s[a - 1 + i]
OBVIOUS

-----------------------------------------------------------------------------
(* What the thread keeps on disk and in Shared *)

Filling == [key : Maybe(Nat), throttle : Nat, observed : Nat, saw : SUBSET Seen]

ThreadTypes ==
  /\ now \in Nat /\ tick_seq \in Nat
  /\ acc \in [Tiers -> Filling]
  /\ rows \subseteq Rollup
  /\ log \in Seq(EventType) /\ feed \in Seq(EventType)
  /\ frame \in Seq(EventType) \union {None}
  /\ viewer \in BOOLEAN /\ path \in Paths

\* Nothing on disk is later than the clock of a live session, which fills the
\* buckets of now or before.
InTime ==
  /\ \E b \in Nat : Under(Buckets, b)
  /\ ~viewer => /\ \A r \in rows : r.bucket <= now
                /\ \A i \in DOMAIN log : log[i].ts <= now
                /\ Len(log) <= MaxEvents
  /\ \A tier \in Tiers : acc[tier].key # None => acc[tier].key <= now

\* A bucket of the 10s tier starts on a multiple of ten.
Aligned ==
  /\ \A r \in rows : r.tier = "10s" => r.bucket % TEN_SEC = 0
  /\ acc["10s"].key # None => acc["10s"].key % TEN_SEC = 0

\* What is on disk is of a tick that was folded, or of the one about to be.
BornBy(t) == t <= tick_seq + 1 /\ (frame = None => t <= tick_seq)
OfItsTick ==
  /\ \A r \in rows : BornBy(r.born)
  /\ \A i \in DOMAIN log : BornBy(log[i].born)

\* An event in memory, or on its way there, is on disk if it was stored.
Logged(events) ==
  \A i \in DOMAIN events : events[i].held = "disk" => \E j \in DOMAIN log : log[j] = events[i]
Mirrored ==
  /\ Len(feed) <= FeedCap /\ Logged(feed)
  /\ frame # None => Logged(frame)
  /\ viewer => frame = None

ReadingsTell == ThrottleReadsTrue /\ \A tier \in Tiers : ReadsTrue(acc[tier])

ThreadInv ==
  /\ ThreadTypes /\ Ordered(log) /\ InTime /\ Aligned
  /\ OfItsTick /\ Mirrored /\ ReadingsTell

LEMMA ThreadStart == Init => ThreadInv
<1> SUFFICES ASSUME Init
             PROVE  ThreadInv
  OBVIOUS
<1>1. PICK start \in Starts :
        /\ viewer = start.viewer /\ path = start.path
        /\ rows = start.rows /\ log = start.log /\ now = start.now
  BY DEF Init
<1>2. Begins(start)
  BY ConsoleAssumption
<1>3. /\ start \in Start /\ Ordered(start.log) /\ IsFiniteSet(start.rows)
      /\ \A r \in start.rows : ReadsTrue(r) /\ r.bucket % WidthOf(r.tier) = 0
      /\ ~start.viewer =>
           /\ \A r \in start.rows : r.bucket <= start.now
           /\ \A i \in DOMAIN start.log : start.log[i].ts <= start.now
           /\ Len(start.log) <= MaxEvents
  BY <1>2 DEF Begins
<1>4. /\ viewer \in BOOLEAN /\ path \in Paths /\ now \in Nat
      /\ rows \subseteq Rollup /\ log \in Seq(EventType)
      /\ \A r \in rows : r.born = 0
      /\ \A i \in DOMAIN log : log[i].born = 0
  <2>1. log \in Seq([ts : Nat, n : Nat, born : {0}, held : {"disk"}])
    BY <1>1, <1>3 DEF Start
  <2>2. /\ log \in Seq(EventType)
        /\ \A i \in DOMAIN log : log[i].born = 0
    <3> DEFINE E == [ts : Nat, n : Nat, born : {0}, held : {"disk"}]
    <3>1. E \subseteq EventType /\ \A e \in E : e.born = 0
      BY DEF EventType
    <3> HIDE DEF E
    <3>2. log \in Seq(E) /\ DOMAIN log = 1..Len(log) /\ Len(log) \in Nat
      BY <2>1 DEF E
    <3>3. \A i \in 1..Len(log) : log[i] \in E
      BY <3>2
    <3>4. log \in [1..Len(log) -> EventType]
      BY <3>1, <3>2, <3>3
    <3> QED BY <3>1, <3>2, <3>3, <3>4
  <2>3. rows \subseteq [tier : Tiers, bucket : Nat, throttle : Nat, observed : Nat,
                        saw : SUBSET Seen, born : {0}]
    BY <1>1, <1>3 DEF Start
  <2>4. rows \subseteq Rollup /\ \A r \in rows : r.born = 0
    BY <2>3 DEF Rollup
  <2> QED BY <1>1, <1>3, <2>2, <2>4 DEF Start
<1>5. /\ acc = [tier \in Tiers |-> NoBucket(tier)]
      /\ frame = None /\ feed = <<>> /\ tick_seq = 0
  BY DEF Init
<1>6. ThreadTypes
  <2>1. \A tier \in Tiers : NoBucket(tier) \in Filling
    BY DEF NoBucket, Filling, Maybe
  <2> QED BY <1>4, <1>5, <2>1 DEF ThreadTypes
<1>7. Ordered(log)
  BY <1>1, <1>3
<1>8. InTime
  <2>1. IsFiniteSet(Buckets) /\ Buckets \in SUBSET Nat
    <3>1. IsFiniteSet(rows)
      BY <1>1, <1>3
    <3>2. [r \in rows |-> r.bucket] \in Surjection(rows, Buckets)
      BY DEF Buckets, Surjection
    <3>3. IsFiniteSet(Buckets)
      BY <3>1, <3>2, FS_Surjection
    <3> QED BY <1>4, <3>3 DEF Buckets, Rollup
  <2>2. \E b \in Nat : Under(Buckets, b)
    BY <2>1, FiniteIsBounded
  <2>3. \A tier \in Tiers : acc[tier].key = None
    BY <1>5 DEF NoBucket
  <2> QED BY <1>1, <1>3, <2>2, <2>3 DEF InTime
<1>9. Aligned
  <2>1. acc["10s"].key = None
    BY <1>5 DEF NoBucket, Tiers
  <2> QED BY <1>1, <1>3, <2>1 DEF Aligned, WidthOf
<1>10. OfItsTick
  BY <1>4, <1>5 DEF OfItsTick, BornBy
<1>11. Mirrored
  BY <1>5, Sizes DEF Mirrored, Logged
<1>12. ReadingsTell
  <2>1. \A tier \in Tiers : ReadsTrue(acc[tier])
    <3>1. TAKE tier \in Tiers
    <3>2. acc[tier].throttle = 0 /\ acc[tier].observed = 0 /\ acc[tier].saw = {}
      BY <1>5 DEF NoBucket
    <3> QED BY <3>2 DEF ReadsTrue, bucket_throttling
  <2> QED BY <1>1, <1>3, <2>1 DEF ReadingsTell, ThrottleReadsTrue
<1> QED BY <1>6, <1>7, <1>8, <1>9, <1>10, <1>11, <1>12 DEF ThreadInv

\* What a tick tells is of its time and number.
LEMMA ToldIs ==
  ASSUME ThreadTypes, NEW ts \in Nat, NEW k \in Nat, NEW failed \in Failures
  PROVE  /\ NewEvents(ts, k, failed) \in Seq(EventType) /\ Len(NewEvents(ts, k, failed)) = k
         /\ \A i \in 1..k : /\ NewEvents(ts, k, failed)[i].ts = ts
                            /\ NewEvents(ts, k, failed)[i].born = tick_seq + 1
                            /\ NewEvents(ts, k, failed)[i].held = "disk" => "events" \notin failed
<1>1. tick_seq + 1 \in Nat /\ Len(log) \in Nat
  BY DEF ThreadTypes
<1>2. \A i \in 1..k : Len(log) + i \in Nat
  BY <1>1
<1>3. \A i \in 1..k : Event(ts, Len(log) + i, failed) \in EventType
  BY <1>1, <1>2 DEF Event, EventType
<1>4. NewEvents(ts, k, failed) \in [1..k -> EventType]
  BY <1>3 DEF NewEvents
<1>5. \A i \in 1..k : NewEvents(ts, k, failed)[i] = Event(ts, Len(log) + i, failed)
  BY DEF NewEvents
<1>6. NewEvents(ts, k, failed) \in Seq(EventType) /\ Len(NewEvents(ts, k, failed)) = k
  BY <1>4
<1> QED BY <1>5, <1>6 DEF Event

\* What of it reaches the disk: all, or nothing when the write fails.
Added(ts, k, failed) == IF "events" \in failed THEN <<>> ELSE NewEvents(ts, k, failed)

LEMMA AddedIs ==
  ASSUME ThreadTypes, NEW ts \in Nat, NEW k \in Nat, NEW failed \in Failures
  PROVE  /\ Added(ts, k, failed) \in Seq(EventType)
         /\ Len(Added(ts, k, failed)) \in Nat /\ Len(Added(ts, k, failed)) <= k
         /\ \A i \in 1..Len(Added(ts, k, failed)) :
              /\ Added(ts, k, failed)[i].ts = ts
              /\ Added(ts, k, failed)[i].born = tick_seq + 1
         /\ "events" \in failed => log \o Added(ts, k, failed) = log
         /\ "events" \notin failed => Added(ts, k, failed) = NewEvents(ts, k, failed)
<1> DEFINE told == NewEvents(ts, k, failed)
<1>1. log \in Seq(EventType)
  BY DEF ThreadTypes
<1>2. /\ told \in Seq(EventType) /\ Len(told) = k
      /\ \A i \in 1..k : /\ told[i].ts = ts /\ told[i].born = tick_seq + 1
                         /\ told[i].held = "disk" => "events" \notin failed
  BY ToldIs
<1> HIDE DEF told
<1>3. CASE "events" \notin failed
  <2>1. Added(ts, k, failed) = told
    BY <1>3 DEF Added, told
  <2> QED BY <1>2, <1>3, <2>1 DEF told
<1>4. CASE "events" \in failed
  <2>1. Added(ts, k, failed) = <<>>
    BY <1>4 DEF Added
  <2>2. log = log \o <<>>
    BY <1>1
  <2>3. <<>> \in Seq(EventType) /\ Len(<<>>) = 0 /\ 0 <= k /\ 1..0 = {}
    OBVIOUS
  <2> QED BY <1>2, <1>4, <2>1, <2>2, <2>3 DEF told
<1> QED BY <1>3, <1>4

\* What a row's counters say, apart from how it is written down.
LEMMA TrueReadings ==
  ASSUME NEW a, a.observed \in Nat
  PROVE  ReadsTrue(a) <=> /\ a.throttle > 0 <=> TRUE \in a.saw
                          /\ ~(a.throttle > 0) => (a.observed # 0 <=> FALSE \in a.saw)
<1>1. TRUE # FALSE /\ None # TRUE /\ None # FALSE
  BY NoneIsApart, Zenon
<1>2. CASE a.throttle > 0
  BY <1>1, <1>2, Zenon DEF ReadsTrue, bucket_throttling
<1>3. CASE ~(a.throttle > 0) /\ a.observed = 0
  BY <1>1, <1>3, Zenon DEF ReadsTrue, bucket_throttling
<1>4. CASE ~(a.throttle > 0) /\ a.observed # 0
  BY <1>1, <1>4, Zenon DEF ReadsTrue, bucket_throttling
<1> QED BY <1>2, <1>3, <1>4, Zenon

\* A reading counted keeps the counts true.
LEMMA FoldTells ==
  ASSUME NEW a \in Filling, ReadsTrue(a), NEW th \in Seen
  PROVE  /\ Fold(a, th) \in Filling /\ Fold(a, th).key = a.key
         /\ ReadsTrue(Fold(a, th))
<1> DEFINE f == Fold(a, th)
           t == IF th = TRUE THEN 1 ELSE 0
           o == IF th = None THEN 0 ELSE 1
<1>1. /\ a.throttle \in Nat /\ a.observed \in Nat /\ a.saw \in SUBSET Seen
      /\ a.key \in Maybe(Nat)
  BY DEF Filling
<1>2. f = [a EXCEPT !.throttle = @ + t, !.observed = @ + o, !.saw = @ \union {th}]
  BY Zenon DEF Fold
<1>3. t \in {0, 1} /\ o \in {0, 1}
  BY Zenon
<1>4. (th = TRUE => t = 1) /\ (th # TRUE => t = 0) /\ (th = None => o = 0) /\ (th # None => o = 1)
  BY Zenon
<1> HIDE DEF f, t, o
<1>5. /\ f.key = a.key /\ f.throttle = a.throttle + t
      /\ f.observed = a.observed + o /\ f.saw = a.saw \union {th}
  BY <1>2 DEF Filling
<1>6. f \in Filling
  <2> DEFINE u == a.saw \union {th}
  <2>1. u \in SUBSET Seen
    BY <1>1, Zenon
  <2>2. f = [a EXCEPT !.throttle = @ + t, !.observed = @ + o, !.saw = u]
    BY <1>2, Zenon DEF Filling
  <2> HIDE DEF u
  <2>3. a.throttle + t \in Nat /\ a.observed + o \in Nat
    BY <1>1, <1>3
  <2> QED BY <2>1, <2>2, <2>3 DEF Filling
<1>7. ReadsTrue(f)
  <2>0. None # TRUE /\ None # FALSE /\ TRUE # FALSE
    BY NoneIsApart, Zenon
  <2>1. /\ a.throttle > 0 <=> TRUE \in a.saw
        /\ ~(a.throttle > 0) => (a.observed # 0 <=> FALSE \in a.saw)
    BY <1>1, TrueReadings, Zenon
  <2>2. CASE th = TRUE
    <3>1. f.throttle > 0 /\ f.observed \in Nat
      BY <1>1, <1>3, <1>4, <1>5, <2>2
    <3>2. TRUE \in f.saw
      BY <1>5, <2>2, Zenon
    <3> QED BY <3>1, <3>2, TrueReadings, Zenon
  <2>3. CASE th = FALSE
    <3>1. t = 0 /\ o = 1
      BY <1>4, <2>0, <2>3, Zenon
    <3>2. f.throttle = a.throttle /\ f.observed # 0 /\ f.observed \in Nat
      BY <1>1, <1>5, <3>1
    <3>3. FALSE \in f.saw /\ (TRUE \in f.saw <=> TRUE \in a.saw)
      BY <1>5, <2>0, <2>3, Zenon
    <3> QED BY <2>1, <3>2, <3>3, TrueReadings, Zenon
  <2>4. CASE th = None
    <3>1. t = 0 /\ o = 0
      BY <1>4, <2>0, <2>4, Zenon
    <3>2. f.throttle = a.throttle /\ f.observed = a.observed
      BY <1>1, <1>5, <3>1
    <3>3. (FALSE \in f.saw <=> FALSE \in a.saw) /\ (TRUE \in f.saw <=> TRUE \in a.saw)
      BY <1>5, <2>0, <2>4, Zenon
    <3> QED BY <1>1, <2>1, <3>2, <3>3, TrueReadings, Zenon
  <2> QED BY <2>2, <2>3, <2>4, Zenon DEF Seen
<1> QED BY <1>5, <1>6, <1>7, Zenon DEF f

\* A tick's accumulation is of its own bucket.
LEMMA AccumulateIs ==
  ASSUME ThreadTypes, ReadingsTell, NEW ts \in Nat, NEW th \in Seen
  PROVE  /\ Accumulate(ts, th) \in [Tiers -> Filling]
         /\ \A tier \in Tiers : /\ Accumulate(ts, th)[tier].key = KeyOf(ts, WidthOf(tier))
                                /\ ReadsTrue(Accumulate(ts, th)[tier])
<1>1. ASSUME NEW tier \in Tiers
      PROVE  /\ Accumulate(ts, th)[tier] \in Filling
             /\ Accumulate(ts, th)[tier].key = KeyOf(ts, WidthOf(tier))
             /\ ReadsTrue(Accumulate(ts, th)[tier])
  <2> DEFINE key == KeyOf(ts, WidthOf(tier))
             a == IF acc[tier].key = key THEN acc[tier] ELSE [NoBucket(tier) EXCEPT !.key = key]
  <2>1. key \in Nat
    BY WidthIs, KeyIs
  <2>2. acc[tier] \in Filling /\ ReadsTrue(acc[tier])
    BY DEF ThreadTypes, ReadingsTell
  <2>3. [NoBucket(tier) EXCEPT !.key = key] =
          [key |-> key, throttle |-> 0, observed |-> 0, saw |-> {}]
    BY DEF NoBucket
  <2> HIDE DEF key
  <2>4. [NoBucket(tier) EXCEPT !.key = key] \in Filling
    BY <2>1, <2>3 DEF Filling, Maybe
  <2>5. ReadsTrue([NoBucket(tier) EXCEPT !.key = key])
    <3> DEFINE e == [NoBucket(tier) EXCEPT !.key = key]
    <3>1. e.throttle = 0 /\ e.observed = 0 /\ e.saw = {}
      BY <2>3
    <3> HIDE DEF e
    <3>2. ReadsTrue(e)
      BY <3>1 DEF ReadsTrue, bucket_throttling
    <3> QED BY <3>2 DEF e
  <2>6. a \in Filling /\ ReadsTrue(a) /\ a.key = key
    <3>1. [NoBucket(tier) EXCEPT !.key = key].key = key
      BY <2>3
    <3> QED BY <2>2, <2>4, <2>5, <3>1
  <2>7. Accumulate(ts, th)[tier] = Fold(a, th)
    BY DEF Accumulate, key
  <2> HIDE DEF a
  <2>8. Fold(a, th) \in Filling /\ Fold(a, th).key = a.key /\ ReadsTrue(Fold(a, th))
    BY <2>6, FoldTells
  <2>9. KeyOf(ts, WidthOf(tier)) = key
    BY DEF key
  <2> QED BY <2>6, <2>7, <2>8, <2>9
<1>2. Accumulate(ts, th) = [tier \in Tiers |-> Accumulate(ts, th)[tier]]
  BY DEF Accumulate
<1> QED BY <1>1, <1>2

\* A row that a crossing sends to disk is the finished bucket's.
LEMMA CrossedRows ==
  ASSUME ThreadInv, NEW ts \in Nat, NEW tier \in Crossed(ts)
  PROVE  /\ tier \in Tiers /\ Row(tier, acc[tier]) \in Rollup
         /\ Row(tier, acc[tier]).tier = tier
         /\ Row(tier, acc[tier]).bucket = acc[tier].key
         /\ acc[tier].key \in Nat /\ acc[tier].key <= now
         /\ Row(tier, acc[tier]).born = tick_seq + 1
         /\ ReadsTrue(Row(tier, acc[tier]))
<1> DEFINE a == acc[tier]
<1>1. tier \in Tiers /\ a.key # None
  BY DEF Crossed
<1>2. a \in Filling /\ ReadsTrue(a) /\ (a.key # None => a.key <= now)
  BY <1>1 DEF ThreadInv, ThreadTypes, InTime, ReadingsTell
<1>3. a.key \in Nat /\ a.throttle \in Nat /\ a.observed \in Nat /\ a.saw \in SUBSET Seen
  BY <1>1, <1>2 DEF Filling, Maybe
<1>4. tick_seq + 1 \in Nat
  BY DEF ThreadInv, ThreadTypes
<1> DEFINE r == Row(tier, a)
<1>5. r = [tier |-> tier, bucket |-> a.key, throttle |-> a.throttle,
           observed |-> a.observed, saw |-> a.saw, born |-> tick_seq + 1]
  BY Zenon DEF Row
<1> HIDE DEF a, r
<1>6. r \in Rollup
  BY <1>1, <1>3, <1>4, <1>5 DEF Rollup
<1>7. /\ r.tier = tier /\ r.bucket = a.key /\ r.born = tick_seq + 1
      /\ r.throttle = a.throttle /\ r.observed = a.observed /\ r.saw = a.saw
  BY <1>5
<1>8. ReadsTrue(r)
  BY <1>2, <1>7, Zenon DEF ReadsTrue
<1> QED BY <1>1, <1>2, <1>3, <1>6, <1>7, <1>8, Zenon DEF a, r

\* A tick reaches the disk.
LEMMA PersistKeepsThread ==
  ASSUME ThreadInv, NEW d \in Steps, NEW answers \in BOOLEAN, NEW due \in BOOLEAN,
         NEW th \in Readings[path], NEW k \in Told, NEW failed \in Failures,
         Persist(now + d, answers, th, k, due, failed)
  PROVE  ThreadInv'
<1> DEFINE ts == now + d
           told == NewEvents(ts, k, failed)
           new == Added(ts, k, failed)
           n == Len(new)
           done == IF answers THEN {Row(tier, acc[tier]) : tier \in Crossed(ts) \ failed} ELSE {}
           kept == {r \in rows : due /\ r.tier = "10s" => r.bucket + Retain >= ts}
<1>0. /\ ThreadTypes /\ Ordered(log) /\ InTime /\ Aligned
      /\ OfItsTick /\ Mirrored /\ ReadingsTell
  BY DEF ThreadInv
<1>1. /\ ~viewer /\ frame = None
      /\ ts <= MaxNow /\ Len(log) + k <= MaxEvents
      /\ now' = ts
      /\ acc' = IF answers THEN Accumulate(ts, th) ELSE acc
      /\ rows' = kept \union done
      /\ log' = IF "events" \in failed THEN log ELSE log \o told
      /\ frame' = told
      /\ feed' = feed /\ tick_seq' = tick_seq /\ viewer' = viewer /\ path' = path
  BY DEF Persist, Recorded, fixed
<1>2. ts \in Nat /\ k \in Nat /\ now \in Nat /\ now <= ts /\ tick_seq \in Nat
  BY <1>0, Sizes DEF ThreadTypes
<1>3. th \in Seen
  BY <1>0, ConsoleAssumption DEF ThreadTypes
<1>4. /\ told \in Seq(EventType) /\ Len(told) = k
      /\ new \in Seq(EventType) /\ n = Len(new) /\ n \in Nat /\ n <= k
      /\ \A i \in 1..n : new[i].ts = ts /\ new[i].born = tick_seq + 1
      /\ log' = log \o new
      /\ \A i \in 1..k : told[i].held = "disk" => told = new
  <2>1. /\ told \in Seq(EventType) /\ Len(told) = k
        /\ \A i \in 1..k : told[i].held = "disk" => "events" \notin failed
    <3>1. told \in Seq(EventType) /\ Len(told) = k
      BY <1>0, <1>2, ToldIs
    <3>2. ASSUME NEW i \in 1..k, told[i].held = "disk"
          PROVE  "events" \notin failed
      <4> HIDE DEF ts
      <4> QED BY <1>0, <1>2, <3>2, ToldIs
    <3> QED BY <3>1, <3>2
  <2>2. /\ new \in Seq(EventType) /\ n = Len(new) /\ n \in Nat /\ n <= k
        /\ \A i \in 1..n : new[i].ts = ts /\ new[i].born = tick_seq + 1
        /\ "events" \in failed => log \o new = log
        /\ "events" \notin failed => new = told
    BY <1>0, <1>2, AddedIs
  <2> HIDE DEF told, new, n
  <2> QED BY <1>1, <2>1, <2>2
<1>5. told # None
  BY <1>4, NoneIsApart
<1>6. \A r \in done : /\ r \in Rollup /\ r.bucket <= now /\ r.born = tick_seq + 1
                      /\ ReadsTrue(r)
                      /\ r.tier = "10s" => r.bucket % TEN_SEC = 0
  <2>1. ASSUME NEW tier \in Crossed(ts) \ failed, NEW r, r = Row(tier, acc[tier])
        PROVE  /\ r \in Rollup /\ r.bucket <= now /\ r.born = tick_seq + 1
               /\ ReadsTrue(r)
               /\ r.tier = "10s" => r.bucket % TEN_SEC = 0
    <3>1. /\ tier \in Tiers /\ r \in Rollup /\ r.tier = tier /\ r.bucket = acc[tier].key
          /\ acc[tier].key \in Nat /\ acc[tier].key <= now /\ r.born = tick_seq + 1
          /\ ReadsTrue(r)
      BY <1>2, <2>1, CrossedRows
    <3>2. acc["10s"].key # None => acc["10s"].key % TEN_SEC = 0
      BY <1>0 DEF Aligned
    <3>3. acc[tier].key # None
      BY <3>1, NoneIsApart
    <3> QED BY <3>1, <3>2, <3>3
  <2> QED BY <2>1
<1>7. rows \subseteq Rollup /\ kept \subseteq rows /\ log \in Seq(EventType)
  BY <1>0 DEF ThreadTypes
<1>8. /\ log' \in Seq(EventType) /\ Len(log') = Len(log) + n /\ Len(log) \in Nat
      /\ DOMAIN log' = 1..(Len(log) + n)
      /\ \A i \in 1..Len(log) : log'[i] = log[i]
      /\ \A i \in (Len(log) + 1)..(Len(log) + n) :
           log'[i].ts = ts /\ log'[i].born = tick_seq + 1
      /\ \A i \in 1..n : Len(log) + i \in DOMAIN log' /\ log'[Len(log) + i] = new[i]
  <2> HIDE DEF new, n
  <2>1. PICK m \in Nat : m = Len(log)
    BY <1>7
  <2>2. PICK q \in Seq(EventType) : q = log \o new
    BY <1>4, <1>7, ConcatIs
  <2>3. /\ Len(q) = m + n
        /\ \A i \in 1..(m + n) : q[i] = IF i <= m THEN log[i] ELSE new[i - m]
    BY <1>4, <1>7, <2>1, <2>2, ConcatIs
  <2>4. DOMAIN q = 1..(m + n)
    BY <2>3
  <2>5. \A i \in 1..m : i \in 1..(m + n) /\ i <= m
    BY <1>2, <1>4
  <2>6. \A i \in (m + 1)..(m + n) : i \in 1..(m + n) /\ ~(i <= m) /\ i - m \in 1..n
    BY <1>2, <1>4
  <2>7. \A i \in 1..n : m + i \in 1..(m + n) /\ ~(m + i <= m) /\ (m + i) - m = i
    BY <1>2, <1>4
  <2>8. \A i \in 1..m : q[i] = log[i]
    BY <2>3, <2>5
  <2>9. \A i \in (m + 1)..(m + n) : q[i].ts = ts /\ q[i].born = tick_seq + 1
    BY <1>4, <2>3, <2>6
  <2>10. \A i \in 1..n : m + i \in DOMAIN q /\ q[m + i] = new[i]
    BY <2>3, <2>4, <2>7
  <2>11. log' = q
    BY <1>4, <2>2
  <2> QED BY <2>1, <2>3, <2>4, <2>8, <2>9, <2>10, <2>11
<1> HIDE DEF ts, told, new, n, done, kept
<1>9. ThreadTypes'
  <2>1. acc' \in [Tiers -> Filling]
    BY <1>0, <1>1, <1>2, <1>3, AccumulateIs DEF ThreadTypes
  <2>2. rows' \subseteq Rollup
    BY <1>1, <1>6, <1>7
  <2>3. frame' \in Seq(EventType) \union {None}
    BY <1>1, <1>4
  <2> QED BY <1>0, <1>1, <1>2, <1>8, <2>1, <2>2, <2>3 DEF ThreadTypes
<1>10. \A i \in DOMAIN log : log[i].ts <= now /\ log[i] \in EventType
  BY <1>0, <1>1, <1>7 DEF InTime
<1>11. Ordered(log)'
  <2>1. SUFFICES ASSUME NEW i \in 1..(Len(log) + n), NEW j \in 1..(Len(log) + n), i < j
                 PROVE  log'[i].ts <= log'[j].ts
    BY <1>8 DEF Ordered
  <2>2. CASE j <= Len(log)
    <3>1. i \in 1..Len(log) /\ j \in 1..Len(log)
      BY <1>8, <2>1, <2>2
    <3>2. DOMAIN log = 1..Len(log)
      BY <1>7
    <3> QED BY <1>0, <1>8, <2>1, <3>1, <3>2 DEF Ordered
  <2>3. CASE j > Len(log)
    <3>1. j \in (Len(log) + 1)..(Len(log) + n)
      BY <1>2, <1>4, <1>8, <2>3
    <3>2. log'[j].ts = ts
      BY <1>8, <3>1
    <3>3. CASE i <= Len(log)
      <4>1. i \in 1..Len(log) /\ i \in DOMAIN log
        BY <1>7, <1>8, <3>3
      <4>2. log'[i].ts = log[i].ts /\ log[i].ts <= now /\ log[i].ts \in Nat
        BY <1>8, <1>10, <4>1 DEF EventType
      <4> QED BY <1>2, <3>2, <4>2
    <3>4. CASE i > Len(log)
      <4>1. i \in (Len(log) + 1)..(Len(log) + n)
        BY <1>2, <1>4, <1>8, <3>4
      <4> QED BY <1>2, <1>4, <1>8, <3>2, <4>1
    <3> QED BY <1>8, <3>3, <3>4
  <2> QED BY <1>8, <2>2, <2>3
<1>12. \A i \in DOMAIN log' : log'[i].ts <= ts
  <2>1. SUFFICES ASSUME NEW i \in 1..(Len(log) + n)
                 PROVE  log'[i].ts <= ts
    BY <1>8
  <2>2. CASE i <= Len(log)
    <3>1. i \in 1..Len(log) /\ i \in DOMAIN log
      BY <1>7, <1>8, <2>2
    <3>2. log'[i].ts = log[i].ts /\ log[i].ts <= now /\ log[i].ts \in Nat
      BY <1>8, <1>10, <3>1 DEF EventType
    <3> QED BY <1>2, <3>2
  <2>3. CASE i > Len(log)
    <3>1. i \in (Len(log) + 1)..(Len(log) + n)
      BY <1>2, <1>4, <1>8, <2>3
    <3> QED BY <1>2, <1>4, <1>8, <3>1
  <2> QED BY <1>8, <2>2, <2>3
<1>13. \A r \in rows' : r.bucket <= ts /\ r.bucket \in Nat
  <2>1. \A r \in rows : r.bucket <= now /\ r.bucket \in Nat
    BY <1>0, <1>1, <1>7 DEF InTime, Rollup
  <2>2. \A r \in done : r.bucket <= now /\ r.bucket \in Nat
    BY <1>6 DEF Rollup
  <2> QED BY <1>1, <1>2, <1>7, <2>1, <2>2
<1>14. InTime'
  <2>1. Under(Buckets', ts)
    BY <1>13 DEF Under, Buckets
  <2>2. Len(log') <= MaxEvents
    BY <1>1, <1>2, <1>4, <1>8, Sizes
  <2>3. ASSUME NEW tier \in Tiers
        PROVE  acc'[tier].key # None => acc'[tier].key <= ts
    <3>1. CASE answers
      <4>1. acc'[tier].key = KeyOf(ts, WidthOf(tier))
        BY <1>0, <1>1, <1>2, <1>3, <3>1, AccumulateIs
      <4> QED BY <1>2, <4>1, WidthIs, KeyIs
    <3>2. CASE ~answers
      <4>1. acc' = acc
        BY <1>1, <3>2
      <4>2. acc[tier].key # None => acc[tier].key <= now /\ acc[tier].key \in Nat
        BY <1>0 DEF InTime, ThreadTypes, Filling, Maybe
      <4> QED BY <1>2, <4>1, <4>2
    <3> QED BY <3>1, <3>2
  <2> QED BY <1>1, <1>2, <1>12, <1>13, <2>1, <2>2, <2>3 DEF InTime, Under
<1>15. Aligned'
  <2>1. \A r \in rows' : r.tier = "10s" => r.bucket % TEN_SEC = 0
    BY <1>0, <1>1, <1>6, <1>7 DEF Aligned
  <2>2. acc'["10s"].key # None => acc'["10s"].key % TEN_SEC = 0
    <3>1. CASE answers
      <4>1. "10s" \in Tiers /\ WidthOf("10s") = TEN_SEC
        BY DEF Tiers, WidthOf
      <4>2. acc'["10s"].key = KeyOf(ts, TEN_SEC)
        BY <1>0, <1>1, <1>2, <1>3, <3>1, <4>1, AccumulateIs
      <4> QED BY <1>2, <4>2, TenIsAligned
    <3>2. CASE ~answers
      BY <1>0, <1>1, <3>2 DEF Aligned
    <3> QED BY <3>1, <3>2
  <2> QED BY <2>1, <2>2 DEF Aligned
<1>16. OfItsTick'
  <2>1. \A r \in rows : r.born <= tick_seq + 1
    BY <1>0 DEF OfItsTick, BornBy
  <2>2. \A r \in rows' : r.born <= tick_seq + 1
    BY <1>1, <1>2, <1>6, <1>7, <2>1
  <2>3. ASSUME NEW i \in 1..(Len(log) + n)
        PROVE  log'[i].born <= tick_seq + 1
    <3>1. CASE i <= Len(log)
      <4>1. i \in 1..Len(log) /\ i \in DOMAIN log
        BY <1>7, <1>8, <3>1
      <4> QED BY <1>0, <1>8, <4>1 DEF OfItsTick, BornBy
    <3>2. CASE i > Len(log)
      <4>1. i \in (Len(log) + 1)..(Len(log) + n)
        BY <1>2, <1>4, <1>8, <3>2
      <4> QED BY <1>2, <1>4, <1>8, <4>1
    <3> QED BY <1>8, <3>1, <3>2
  <2> QED BY <1>1, <1>5, <1>8, <2>2, <2>3 DEF OfItsTick, BornBy
<1>17. Mirrored'
  <2>1. ASSUME NEW i \in DOMAIN feed
        PROVE  feed[i].held = "disk" => \E j \in DOMAIN log' : log'[j] = feed[i]
    <3>0. SUFFICES ASSUME feed[i].held = "disk"
                   PROVE  \E j \in DOMAIN log' : log'[j] = feed[i]
      OBVIOUS
    <3>1. PICK j \in DOMAIN log : log[j] = feed[i]
      BY <1>0, <2>1, <3>0 DEF Mirrored, Logged
    <3>2. j \in 1..Len(log) /\ j \in 1..(Len(log) + n)
      BY <1>2, <1>4, <1>7, <1>8
    <3> QED BY <1>8, <3>1, <3>2
  <2>2. ASSUME NEW i \in DOMAIN told
        PROVE  told[i].held = "disk" => \E j \in DOMAIN log' : log'[j] = told[i]
    <3>1. i \in 1..k
      BY <1>4, <2>2
    <3>2. told[i].held = "disk" => told = new /\ i \in 1..n
      BY <1>4, <2>2, <3>1
    <3> QED BY <1>8, <3>2
  <2> QED BY <1>0, <1>1, <2>1, <2>2 DEF Mirrored, Logged
<1>18. ReadingsTell'
  <2>1. \A tier \in Tiers : ReadsTrue(acc'[tier])
    BY <1>0, <1>1, <1>2, <1>3, AccumulateIs DEF ReadingsTell
  <2>2. \A r \in rows' : ReadsTrue(r)
    BY <1>0, <1>1, <1>6, <1>7 DEF ReadingsTell, ThrottleReadsTrue
  <2> QED BY <2>1, <2>2, Zenon DEF ReadingsTell, ThrottleReadsTrue, ReadsTrue
<1> QED BY <1>9, <1>11, <1>14, <1>15, <1>16, <1>17, <1>18 DEF ThreadInv

\* What is kept of the feed was in it.
LEMMA CappedIs ==
  ASSUME NEW s \in Seq(EventType)
  PROVE  /\ Capped(s) \in Seq(EventType) /\ Len(Capped(s)) <= FeedCap
         /\ \A i \in DOMAIN Capped(s) : \E j \in DOMAIN s : Capped(s)[i] = s[j]
<1>1. Len(s) \in Nat /\ FeedCap \in Nat /\ FeedCap > 0 /\ DOMAIN s = 1..Len(s)
  BY Sizes
<1>2. CASE Len(s) <= FeedCap
  BY <1>1, <1>2 DEF Capped
<1>3. CASE Len(s) > FeedCap
  <2> DEFINE a == Len(s) - FeedCap + 1
             u == SubSeq(s, a, Len(s))
  <2>1. a \in 1..Len(s) /\ Len(s) \in 1..Len(s) /\ a <= Len(s) /\ Len(s) + 1 - a = FeedCap
    BY <1>1, <1>3
  <2>2. Capped(s) = u
    BY <1>1, <1>3 DEF Capped
  <2> HIDE DEF a
  <2>3. /\ u \in Seq(EventType) /\ Len(u) = Len(s) + 1 - a
        /\ \A i \in 1..(Len(s) + 1 - a) : u[i] = s[a - 1 + i]
    BY <2>1, StretchIs
  <2> HIDE DEF u
  <2>4. \A i \in 1..FeedCap : a - 1 + i \in 1..Len(s)
    BY <1>1, <2>1
  <2>5. DOMAIN u = 1..FeedCap
    BY <2>1, <2>3
  <2>6. Len(u) = FeedCap /\ \A i \in 1..FeedCap : u[i] = s[a - 1 + i]
    BY <2>1, <2>3
  <2>7. \A i \in 1..FeedCap : \E j \in DOMAIN s : u[i] = s[j]
    BY <1>1, <2>4, <2>6
  <2>8. Len(u) <= FeedCap
    BY <1>1, <2>6
  <2> QED BY <2>2, <2>3, <2>5, <2>7, <2>8
<1> QED BY <1>1, <1>2, <1>3

\* A frame reaches Shared.
LEMMA FoldKeepsThread ==
  ASSUME ThreadInv, FoldFrame
  PROVE  ThreadInv'
<1>0. /\ ThreadTypes /\ Ordered(log) /\ InTime /\ Aligned
      /\ OfItsTick /\ Mirrored /\ ReadingsTell
  BY DEF ThreadInv
<1>1. /\ frame # None /\ feed' = Capped(feed \o frame)
      /\ tick_seq' = tick_seq + 1 /\ frame' = None
      /\ now' = now /\ acc' = acc /\ rows' = rows /\ log' = log
      /\ viewer' = viewer /\ path' = path
  BY DEF FoldFrame, fixed
<1>2. tick_seq \in Nat /\ feed \in Seq(EventType) /\ frame \in Seq(EventType)
  BY <1>0, <1>1 DEF ThreadTypes
<1>3. PICK s \in Seq(EventType) : s = feed \o frame
  BY <1>2, ConcatIs
<1>4. \A i \in DOMAIN s : s[i].held = "disk" => \E j \in DOMAIN log : log[j] = s[i]
  <2>1. SUFFICES ASSUME NEW i \in DOMAIN s, s[i].held = "disk"
                 PROVE  \E j \in DOMAIN log : log[j] = s[i]
    OBVIOUS
  <2>2. /\ Len(s) = Len(feed) + Len(frame) /\ Len(feed) \in Nat /\ Len(frame) \in Nat
        /\ DOMAIN s = 1..(Len(feed) + Len(frame))
        /\ s[i] = IF i <= Len(feed) THEN feed[i] ELSE frame[i - Len(feed)]
    BY <1>2, <1>3, <2>1, ConcatIs
  <2>3. CASE i <= Len(feed)
    <3>1. i \in DOMAIN feed
      BY <1>2, <2>2, <2>3
    <3> QED BY <1>0, <2>1, <2>2, <2>3, <3>1 DEF Mirrored, Logged
  <2>4. CASE i > Len(feed)
    <3>1. i - Len(feed) \in DOMAIN frame /\ ~(i <= Len(feed))
      BY <1>2, <2>2, <2>4
    <3> QED BY <1>0, <1>1, <2>1, <2>2, <3>1 DEF Mirrored, Logged
  <2> QED BY <2>2, <2>3, <2>4
<1>5. /\ feed' \in Seq(EventType) /\ Len(feed') <= FeedCap
      /\ \A i \in DOMAIN feed' : \E j \in DOMAIN s : feed'[i] = s[j]
  BY <1>1, <1>3, CappedIs
<1>6. ThreadTypes'
  BY <1>0, <1>1, <1>2, <1>5 DEF ThreadTypes
<1>7. Ordered(log)'
  BY <1>0, <1>1 DEF Ordered
<1>8. InTime'
  BY <1>0, <1>1 DEF InTime, Buckets
<1>9. Aligned'
  BY <1>0, <1>1 DEF Aligned
<1>10. OfItsTick'
  <2>1. \A r \in rows : r.born \in Nat /\ r.born <= tick_seq + 1
    BY <1>0 DEF ThreadTypes, Rollup, OfItsTick, BornBy
  <2>2. \A i \in DOMAIN log : log[i].born \in Nat /\ log[i].born <= tick_seq + 1
    <3>1. \A i \in DOMAIN log : log[i] \in EventType
      BY <1>0 DEF ThreadTypes
    <3>2. \A i \in DOMAIN log : log[i].born \in Nat
      BY <3>1 DEF EventType
    <3> QED BY <1>0, <3>2 DEF OfItsTick, BornBy
  <2>3. \A t \in Nat : t <= tick_seq + 1 => t <= (tick_seq + 1) + 1
    BY <1>2
  <2> QED BY <1>1, <2>1, <2>2, <2>3 DEF OfItsTick, BornBy
<1>11. Mirrored'
  BY <1>1, <1>4, <1>5 DEF Mirrored, Logged
<1>12. ReadingsTell'
  BY <1>0, <1>1, Zenon DEF ReadingsTell, ThrottleReadsTrue, ReadsTrue
<1> QED BY <1>6, <1>7, <1>8, <1>9, <1>10, <1>11, <1>12 DEF ThreadInv

LEMMA ThreadUntouched ==
  ASSUME ThreadInv, UNCHANGED <<thread, fixed>>
  PROVE  ThreadInv'
<1>1. /\ now' = now /\ acc' = acc /\ rows' = rows /\ log' = log /\ frame' = frame
      /\ feed' = feed /\ tick_seq' = tick_seq /\ viewer' = viewer /\ path' = path
  BY DEF thread, fixed
<1>2. ThreadTypes' /\ Ordered(log)' /\ InTime' /\ Aligned'
  BY <1>1 DEF ThreadInv, ThreadTypes, Ordered, InTime, Aligned, Buckets
<1>3. OfItsTick' /\ Mirrored'
  BY <1>1 DEF ThreadInv, OfItsTick, BornBy, Mirrored, Logged
<1>4. ReadingsTell'
  BY <1>1, Zenon DEF ThreadInv, ReadingsTell, ThrottleReadsTrue, ReadsTrue
<1> QED BY <1>2, <1>3, <1>4 DEF ThreadInv

\* The user interface only reads what the thread keeps.
LEMMA InterfaceReads ==
  ASSUME Loop \/ Key
  PROVE  UNCHANGED <<thread, fixed>>
<1>1. CASE Loop
  BY <1>1 DEF Loop, Tick, ReadSeq, ReadRows, ReadWindow, ReadReplay, Draw, Idle, fixed, thread
<1>2. CASE Key
  BY <1>2 DEF Key
<1> QED BY <1>1, <1>2

LEMMA ThreadStep == ThreadInv /\ [Next]_vars => ThreadInv'
<1> SUFFICES ASSUME ThreadInv, [Next]_vars
             PROVE  ThreadInv'
  OBVIOUS
<1>1. CASE Thread
  BY <1>1, PersistKeepsThread, FoldKeepsThread DEF Thread
<1>2. CASE Loop \/ Key
  BY <1>2, InterfaceReads, ThreadUntouched
<1>3. CASE UNCHANGED vars
  BY <1>3, ThreadUntouched DEF vars
<1> QED BY <1>1, <1>2, <1>3 DEF Next

-----------------------------------------------------------------------------
(* What a query finds *)

\* The ends of the recorded range.
LEMMA RangeIs ==
  ASSUME ThreadInv, rows # {}
  PROVE  /\ earliest_bucket_ms = MinOf(Buckets) /\ latest_bucket_ms = MaxOf(Buckets)
         /\ MinOf(Buckets) \in Nat /\ MaxOf(Buckets) \in Nat
         /\ MinOf(Buckets) \in Buckets /\ MaxOf(Buckets) \in Buckets
         /\ \A r \in rows : MinOf(Buckets) <= r.bucket /\ r.bucket <= MaxOf(Buckets)
         /\ MinOf(Buckets) <= MaxOf(Buckets)
<1>1. Buckets \in SUBSET Nat /\ Buckets # {}
  BY DEF ThreadInv, ThreadTypes, Rollup, Buckets
<1>2. PICK b \in Nat : Under(Buckets, b)
  BY DEF ThreadInv, InTime
<1>3. MinOf(Buckets) \in Buckets /\ \A y \in Buckets : MinOf(Buckets) <= y
  BY <1>1, MinIs
<1>4. MaxOf(Buckets) \in Buckets /\ \A y \in Buckets : y <= MaxOf(Buckets)
  BY <1>1, <1>2, MaxIs
<1>5. \A r \in rows : r.bucket \in Buckets
  BY DEF Buckets
<1>6. earliest_bucket_ms = MinOf(Buckets) /\ latest_bucket_ms = MaxOf(Buckets)
  BY DEF earliest_bucket_ms, latest_bucket_ms
<1> QED BY <1>1, <1>3, <1>4, <1>5, <1>6

\* The times of the log have a bound: its last one.
Times == {log[i].ts : i \in DOMAIN log}
LEMMA TimesAre ==
  ASSUME ThreadInv
  PROVE  /\ Times \in SUBSET Nat /\ \E b \in Nat : Under(Times, b)
         /\ log # <<>> <=> Times # {}
<1>1. log \in Seq(EventType) /\ Ordered(log)
  BY DEF ThreadInv, ThreadTypes
<1>2. DOMAIN log = 1..Len(log) /\ Len(log) \in Nat /\ \A i \in DOMAIN log : log[i].ts \in Nat
  <2>1. \A i \in DOMAIN log : log[i] \in EventType
    BY <1>1
  <2> QED BY <1>1, <2>1 DEF EventType
<1>3. CASE Len(log) = 0
  <2>1. log = <<>> /\ Times = {}
    BY <1>1, <1>2, <1>3 DEF Times
  <2>2. Under({}, 0)
    BY DEF Under
  <2> QED BY <2>1, <2>2
<1>4. CASE Len(log) # 0
  <2>1. Len(log) \in DOMAIN log
    BY <1>2, <1>4
  <2>2. \A i \in DOMAIN log : log[i].ts <= log[Len(log)].ts
    <3>1. TAKE i \in DOMAIN log
    <3>2. CASE i = Len(log)
      BY <1>2, <3>2
    <3>3. CASE i < Len(log)
      BY <1>1, <2>1, <3>3 DEF Ordered
    <3> QED BY <1>2, <3>2, <3>3
  <2>3. Under(Times, log[Len(log)].ts) /\ log[Len(log)].ts \in Nat
    BY <1>2, <2>1, <2>2 DEF Under, Times
  <2>4. Times # {} /\ log # <<>>
    BY <1>4, <2>1 DEF Times
  <2>5. Times \in SUBSET Nat
    BY <1>2 DEF Times
  <2> QED BY <2>3, <2>4, <2>5
<1> QED BY <1>3, <1>4

\* The newest event is the last moment of the log.
LEMMA NewestEventIs ==
  ASSUME ThreadInv, log # <<>>
  PROVE  latest_event_ms = MaxOf(Times) /\ MaxOf(Times) \in Nat
<1>1. MaxOf(Times) \in Times /\ Times \in SUBSET Nat
  BY TimesAre, MaxIs
<1>2. latest_event_ms = MaxOf(Times)
  BY DEF latest_event_ms, Times
<1> QED BY <1>1, <1>2

\* The end of recorded coverage is past every bucket and event.
LEMMA EndIs ==
  ASSUME ThreadInv
  PROVE  /\ recorded_end # None => recorded_end \in Nat
         /\ recorded_end = None => rows = {} /\ log = <<>>
         /\ recorded_end # None =>
              /\ \A r \in rows : r.bucket + TEN_SEC <= recorded_end
              /\ \A i \in DOMAIN log : log[i].ts <= recorded_end
<1> DEFINE last == {b + TEN_SEC : b \in {x \in Buckets : x = latest_bucket_ms}}
           ends == last \union Times
<1>1. recorded_end = IF ends = {} THEN None ELSE MaxOf(ends)
  BY DEF recorded_end, Times
<1>2. \A r \in rows : r.bucket \in Nat
  BY DEF ThreadInv, ThreadTypes, Rollup
<1>3. rows = {} => last = {}
  BY DEF Buckets
<1>4. rows # {} => last = {MaxOf(Buckets) + TEN_SEC} /\ MaxOf(Buckets) \in Nat
  BY RangeIs
<1>5. last \in SUBSET Nat /\ \E b \in Nat : Under(last, b)
  <2>1. CASE rows = {}
    <3>1. Under({}, 0)
      BY DEF Under
    <3> QED BY <1>3, <2>1, <3>1
  <2>2. CASE rows # {}
    <3>1. PICK m \in Nat : last = {m + TEN_SEC}
      BY <1>4, <2>2
    <3>2. m + TEN_SEC \in Nat
      BY DEF TEN_SEC
    <3>3. Under({m + TEN_SEC}, m + TEN_SEC)
      BY <3>2 DEF Under
    <3> QED BY <3>1, <3>2, <3>3
  <2> QED BY <2>1, <2>2
<1> HIDE DEF last
<1>6. Times \in SUBSET Nat /\ \E b \in Nat : Under(Times, b)
  BY TimesAre
<1>7. ends \in SUBSET Nat /\ \E b \in Nat : Under(ends, b)
  <2>1. PICK b \in Nat : Under(last, b)
    BY <1>5
  <2>2. PICK c \in Nat : Under(Times, c)
    BY <1>6
  <2>3. b + c \in Nat
    OBVIOUS
  <2>4. \A x \in ends : x <= b + c
    <3>1. TAKE x \in ends
    <3>2. CASE x \in last
      BY <1>5, <2>1, <3>2 DEF Under
    <3>3. CASE x \in Times
      BY <1>6, <2>2, <3>3 DEF Under
    <3> QED BY <3>2, <3>3
  <2> QED BY <1>5, <1>6, <2>3, <2>4 DEF Under
<1> HIDE DEF ends
<1>8. ends # {} => MaxOf(ends) \in Nat /\ \A x \in ends : x <= MaxOf(ends)
  BY <1>7, MaxIs
<1>9. recorded_end # None => ends # {} /\ recorded_end = MaxOf(ends)
  BY <1>1
<1>10. ends # {} => recorded_end # None
  BY <1>1, <1>8, NoneIsApart
<1>11. \A i \in DOMAIN log : log[i].ts \in ends
  BY DEF ends, Times
<1>12. ASSUME NEW r \in rows
       PROVE  MaxOf(Buckets) + TEN_SEC \in ends /\ r.bucket + TEN_SEC <= MaxOf(Buckets) + TEN_SEC
  <2>1. r.bucket <= MaxOf(Buckets) /\ MaxOf(Buckets) \in Nat /\ rows # {}
    BY <1>12, RangeIs
  <2> QED BY <1>2, <1>4, <2>1 DEF ends, TEN_SEC
<1>13. recorded_end = None => rows = {} /\ log = <<>>
  <2>1. SUFFICES ASSUME ends = {}
                 PROVE  rows = {} /\ log = <<>>
    BY <1>10
  <2>2. Times = {}
    BY <2>1 DEF ends
  <2> QED BY <1>12, <2>1, <2>2, TimesAre
<1>14. ASSUME recorded_end # None, NEW r \in rows
       PROVE  r.bucket + TEN_SEC <= recorded_end
  <2>1. /\ MaxOf(Buckets) + TEN_SEC <= MaxOf(ends) /\ MaxOf(ends) \in Nat
        /\ r.bucket + TEN_SEC <= MaxOf(Buckets) + TEN_SEC
    BY <1>8, <1>9, <1>12, <1>14
  <2>2. MaxOf(Buckets) \in Nat
    BY <1>4, <1>14
  <2> QED BY <1>2, <1>9, <1>14, <2>1, <2>2 DEF TEN_SEC
<1> QED BY <1>8, <1>9, <1>11, <1>13, <1>14

\* The events of a window: all of them and no other.
Inside(events, from, to) ==
  \A j \in DOMAIN events : from <= events[j].ts /\ events[j].ts <= to
LEMMA EventsBetweenAre ==
  ASSUME ThreadInv, NEW from \in Nat, NEW to \in Nat
  PROVE  /\ events_between(from, to) \in Seq(EventType)
         /\ Inside(events_between(from, to), from, to)
         /\ \A i \in DOMAIN log : from <= log[i].ts /\ log[i].ts <= to
              => \E j \in DOMAIN events_between(from, to) :
                   events_between(from, to)[j] = log[i]
<1>1. log \in Seq(EventType) /\ Ordered(log)
  BY DEF ThreadInv, ThreadTypes
<1> DEFINE within == {i \in DOMAIN log : from <= log[i].ts /\ log[i].ts <= to}
           evs == events_between(from, to)
<1>2. evs = IF within = {} THEN <<>> ELSE SubSeq(log, MinOf(within), MaxOf(within))
  BY DEF events_between
<1>3. DOMAIN log = 1..Len(log) /\ Len(log) \in Nat
  BY <1>1
<1>4. \A i \in within : i \in 1..Len(log) /\ from <= log[i].ts /\ log[i].ts <= to
  BY <1>3
<1>5. \A i \in DOMAIN log : from <= log[i].ts /\ log[i].ts <= to => i \in within
  OBVIOUS
<1>6. \A i \in DOMAIN log : log[i].ts \in Nat
  <2>1. \A i \in DOMAIN log : log[i] \in EventType
    BY <1>1
  <2> QED BY <2>1 DEF EventType
<1> HIDE DEF within, evs
<1>7. CASE within = {}
  <2>1. evs = <<>>
    BY <1>2, <1>7
  <2>2. evs \in Seq(EventType) /\ Inside(evs, from, to)
    BY <2>1 DEF Inside
  <2> QED BY <1>5, <1>7, <2>2 DEF evs
<1>8. CASE within # {}
  <2>1. within \in SUBSET Nat /\ Under(within, Len(log))
    BY <1>3, <1>4 DEF Under
  <2>2. PICK a \in within : a = MinOf(within) /\ \A y \in within : a <= y
    BY <1>8, <2>1, MinIs
  <2>3. PICK b \in within : b = MaxOf(within) /\ \A y \in within : y <= b
    BY <1>3, <1>8, <2>1, MaxIs
  <2>4. a \in 1..Len(log) /\ b \in 1..Len(log) /\ a <= b
    BY <1>4, <2>2, <2>3
  <2>5. PICK s \in Seq(EventType) : s = SubSeq(log, a, b)
    BY <1>1, <2>4, StretchIs
  <2>6. /\ Len(s) = b + 1 - a
        /\ \A j \in 1..(b + 1 - a) : s[j] = log[a - 1 + j]
    BY <1>1, <2>4, <2>5, StretchIs
  <2>7. evs = s
    BY <1>2, <1>8, <2>2, <2>3, <2>5
  <2>8. DOMAIN s = 1..(b + 1 - a)
    BY <2>6
  <2>9. Inside(s, from, to)
    <3>1. SUFFICES ASSUME NEW j \in 1..(b + 1 - a)
                   PROVE  from <= s[j].ts /\ s[j].ts <= to
      BY <2>8 DEF Inside
    <3> DEFINE i == a - 1 + j
    <3>2. i \in 1..Len(log) /\ a <= i /\ i <= b
      BY <1>3, <2>4
    <3>3. s[j] = log[i]
      BY <2>6
    <3> HIDE DEF i
    <3>4. i \in DOMAIN log /\ a \in DOMAIN log /\ b \in DOMAIN log
      BY <1>3, <2>4, <3>2
    <3>5. log[a].ts <= log[i].ts
      <4>1. CASE a = i
        BY <1>6, <3>4, <4>1
      <4>2. CASE a < i
        BY <1>1, <3>4, <4>2 DEF Ordered
      <4> QED BY <2>4, <3>2, <4>1, <4>2
    <3>6. log[i].ts <= log[b].ts
      <4>1. CASE i = b
        BY <1>6, <3>4, <4>1
      <4>2. CASE i < b
        BY <1>1, <3>4, <4>2 DEF Ordered
      <4> QED BY <2>4, <3>2, <4>1, <4>2
    <3>7. from <= log[a].ts /\ log[b].ts <= to
      BY <1>4, <2>2, <2>3
    <3>8. log[a].ts \in Nat /\ log[b].ts \in Nat /\ log[i].ts \in Nat
      BY <1>6, <3>4
    <3> QED BY <3>3, <3>5, <3>6, <3>7, <3>8
  <2>10. ASSUME NEW i \in DOMAIN log, from <= log[i].ts, log[i].ts <= to
         PROVE  \E j \in DOMAIN s : s[j] = log[i]
    <3>1. i \in within /\ a <= i /\ i <= b /\ i \in 1..Len(log)
      BY <1>3, <1>5, <2>2, <2>3, <2>10
    <3>2. i + 1 - a \in 1..(b + 1 - a) /\ a - 1 + (i + 1 - a) = i
      BY <1>3, <2>4, <3>1
    <3> QED BY <2>6, <2>8, <3>2
  <2> QED BY <2>7, <2>9, <2>10 DEF evs
<1> QED BY <1>7, <1>8

\* A refresh's window: its edges are in order, and it ends where it should.
TimelineQuery == [op : {"timeline"}, cur : Maybe(Nat), then : {"pass", "draw"},
                  from : Nat, to : Nat, clamped : BOOLEAN, tier : Tiers,
                  seq : Maybe(Nat), samples : SUBSET Rollup]
Ends(t) == IF viewer THEN recorded_end # None => t = recorded_end ELSE t <= now
LEMMA WindowForIs ==
  ASSUME ThreadInv, NEW z \in DOMAIN Rungs, NEW cur \in Maybe(Nat), NEW then \in {"pass", "draw"}
  PROVE  LET w == WindowFor(Rungs[z], cur, then)
         IN  /\ w \in TimelineQuery /\ w.from <= w.to /\ Ends(w.to)
             /\ w.cur = cur /\ w.then = then
             /\ ~viewer => w.to = now
<1> DEFINE rung == Rungs[z]
           to == IF viewer /\ recorded_end # None THEN recorded_end ELSE now
           start == SatSub(to, rung.span)
           early == earliest_bucket_ms
           clamped == early # None /\ early > start
           edge == IF clamped THEN early ELSE start
           from == KeyOf(edge, WidthOf(rung.tier))
           w == WindowFor(rung, cur, then)
<1>1. rung.span \in Nat /\ rung.tier \in Tiers
  <2>1. rung \in [span : Nat, tier : Tiers]
    <3> DEFINE R == [span : Nat, tier : Tiers]
    <3>1. Rungs \in Seq(R)
      BY Sizes
    <3> HIDE DEF R
    <3>2. Rungs[z] \in R
      BY <3>1
    <3> QED BY <3>2 DEF R
  <2> QED BY <2>1
<1>2. w = [op |-> "timeline", cur |-> cur, then |-> then, from |-> from, to |-> to,
           clamped |-> clamped, tier |-> rung.tier, seq |-> None, samples |-> {}]
  BY Zenon DEF WindowFor
<1>3. now \in Nat /\ (recorded_end # None => recorded_end \in Nat)
  BY EndIs DEF ThreadInv, ThreadTypes
<1>4. to \in Nat
  BY <1>3
<1>5. Ends(to) /\ (~viewer => to = now)
  BY <1>3 DEF Ends
<1>6. early # None => early \in Nat /\ early <= to
  <2>1. SUFFICES ASSUME rows # {}
                 PROVE  early \in Nat /\ early <= to
    BY DEF earliest_bucket_ms
  <2>2. PICK r \in rows : r.bucket = early /\ early \in Nat
    BY <2>1, RangeIs DEF Buckets
  <2>3. CASE viewer
    <3>1. recorded_end # None /\ to = recorded_end
      BY <2>1, <2>3, EndIs
    <3>2. r.bucket + TEN_SEC <= recorded_end /\ recorded_end \in Nat
      BY <3>1, EndIs
    <3> QED BY <2>2, <3>1, <3>2 DEF TEN_SEC
  <2>4. CASE ~viewer
    BY <2>2, <2>4, <1>5 DEF ThreadInv, InTime
  <2> QED BY <2>3, <2>4
<1> HIDE DEF to, early
<1>7. start \in Nat /\ start <= to
  BY <1>1, <1>4, SatSubIs
<1> HIDE DEF start
<1>8. edge \in Nat /\ edge <= to /\ clamped \in BOOLEAN
  BY <1>6, <1>7
<1> HIDE DEF edge, clamped
<1>9. from \in Nat /\ from <= to
  <2>1. WidthOf(rung.tier) \in Nat /\ WidthOf(rung.tier) > 0
    BY <1>1, WidthIs
  <2>2. from \in Nat /\ from <= edge
    BY <1>8, <2>1, KeyIs
  <2> HIDE DEF from
  <2> QED BY <1>4, <1>8, <2>2
<1> HIDE DEF from, w, rung
<1>10. w \in TimelineQuery
  BY <1>1, <1>2, <1>4, <1>8, <1>9 DEF TimelineQuery, Maybe
<1>11. w.from = from /\ w.to = to /\ w.cur = cur /\ w.then = then
  BY <1>2
<1> QED BY <1>5, <1>9, <1>10, <1>11 DEF w, rung

\* What a window at the newest process bucket finds.
LEMMA ProcessesAre ==
  ASSUME ThreadInv, NEW at \in Nat
  PROVE  /\ processes_at(at) \in Maybe(Nat)
         /\ processes_at(at) # None => processes_at(at) <= at
<1> DEFINE k == KeyOf(at, TEN_SEC)
           lo == SatSub(k, Lookback)
           near == {r.bucket : r \in RowsBetween("10s", lo, k)}
<1>1. k \in Nat /\ k <= at
  BY KeyIs DEF TEN_SEC
<1>2. near \in SUBSET Nat
  BY DEF RowsBetween, ThreadInv, ThreadTypes, Rollup
<1>3. Under(near, k)
  BY DEF RowsBetween, Under
<1>4. processes_at(at) = IF near = {} THEN None ELSE MaxOf(near)
  BY Zenon DEF processes_at
<1> HIDE DEF near, k
<1>5. near # {} => MaxOf(near) \in near /\ MaxOf(near) <= k
  BY <1>1, <1>2, <1>3, MaxIs DEF Under
<1>6. near # {} => MaxOf(near) \in Nat /\ MaxOf(near) <= at
  <2>1. SUFFICES ASSUME near # {}
                 PROVE  MaxOf(near) \in Nat /\ MaxOf(near) <= at
    OBVIOUS
  <2>2. PICK m \in Nat : m = MaxOf(near)
    BY <1>2, <1>5, <2>1
  <2> QED BY <1>1, <1>5, <2>1, <2>2
<1>7. CASE near = {}
  BY <1>4, <1>7 DEF Maybe
<1>8. CASE near # {}
  <2>1. processes_at(at) = MaxOf(near)
    BY <1>4, <1>8
  <2> QED BY <1>6, <1>8, <2>1 DEF Maybe
<1> QED BY <1>7, <1>8

\* The place of an event of a moment, where there is one.
LEMMA PositionIs ==
  ASSUME NEW s \in Seq(EventType), NEW ts \in Nat
  PROVE  /\ PositionOf(s, ts) \in Maybe(Nat)
         /\ (\E i \in DOMAIN s : s[i].ts = ts) => PositionOf(s, ts) # None
<1> DEFINE at == {i \in DOMAIN s : s[i].ts = ts}
<1>1. PositionOf(s, ts) = IF at = {} THEN None ELSE MinOf(at) - 1
  BY DEF PositionOf
<1>2. at \in SUBSET Nat /\ \A i \in at : i >= 1
  OBVIOUS
<1>3. (\E i \in DOMAIN s : s[i].ts = ts) <=> at # {}
  OBVIOUS
<1> HIDE DEF at
<1>4. at # {} => MinOf(at) \in at
  BY <1>2, MinIs
<1>5. at # {} => MinOf(at) - 1 \in Nat
  <2>1. SUFFICES ASSUME at # {}
                 PROVE  MinOf(at) - 1 \in Nat
    OBVIOUS
  <2>2. PICK m \in at : m = MinOf(at)
    BY <1>4, <2>1
  <2>3. m \in Nat /\ m >= 1
    BY <1>2
  <2>4. m - 1 \in Nat
    BY <2>3
  <2> QED BY <2>2, <2>4
<1> QED BY <1>1, <1>3, <1>5, NoneIsApart DEF Maybe

-----------------------------------------------------------------------------
(* What the loop keeps *)

ReplayQuery == [op : {"replay"}, cur : Nat, follow : {Keep, Drop} \union {To(ts) : ts \in Nat}]

UiTypes ==
  /\ pc \in {"pass", "draw", "poll", "lock", "rows", "events", "seek", "done"}
  /\ mode \in {"live", "replay", "timeline"}
  /\ sel \in Maybe(Nat) /\ zoom \in DOMAIN Rungs
  /\ hint \in Maybe({"no_persistence", "unreadable"})
  /\ cursor \in Nat /\ tcur \in Nat /\ built \in Nat
  /\ twin \in Maybe(Window) /\ rwin \in Maybe(Replay)

\* Rows and events within a window, and all of those a tick put on disk.
WithinRows(samples, tier, from, to) ==
  \A r \in samples : r.tier = tier /\ from <= r.bucket /\ r.bucket <= to
RowsUpTo(samples, tier, from, to, tick) ==
  \A r \in RowsBetween(tier, from, to) : r.born <= tick => r \in samples
EventsUpTo(events, from, to, tick) ==
  \A i \in DOMAIN log : log[i].born <= tick /\ from <= log[i].ts /\ log[i].ts <= to
    => \E j \in DOMAIN events : events[j] = log[i]
OnTens(samples) == \A r \in samples : r.tier = "10s" => r.bucket % TEN_SEC = 0

\* A refresh under way: where it began, where it ends, what it has read.
RefreshInv ==
  /\ Refreshing =>
       /\ mode = "timeline" /\ job \in TimelineQuery /\ job.from <= job.to /\ Ends(job.to)
       /\ job.then = "draw" => twin # None /\ twin.to <= job.to /\ job.cur = RideAlong
  /\ pc \in {"rows", "events"} => job.seq \in Nat /\ job.seq <= tick_seq
  /\ pc = "events" => /\ RowsUpTo(job.samples, job.tier, job.from, job.to, job.seq)
                      /\ WithinRows(job.samples, job.tier, job.from, job.to)

\* The overview on screen: its cursor is inside and it holds its tick.
OverviewInv ==
  /\ mode = "timeline" /\ ~Refreshing => twin # None
  /\ twin # None =>
       /\ twin.from <= twin.to /\ twin.from <= tcur /\ tcur <= twin.to
       /\ Ends(twin.to) /\ built <= tick_seq
       /\ RowsUpTo(twin.samples, twin.tier, twin.from, twin.to, built)
       /\ WithinRows(twin.samples, twin.tier, twin.from, twin.to)
       /\ EventsUpTo(twin.events, twin.from, twin.to, built)
       /\ Inside(twin.events, twin.from, twin.to)

\* Replay, and what a file's replay leaves behind under the overview.
ReplayInv ==
  /\ pc = "seek" => mode = "replay" /\ job \in ReplayQuery /\ job.follow \in {Keep, Drop, To(cursor)}
  /\ (mode = "replay" \/ viewer) /\ pc # "seek" =>
       /\ rwin # None
       /\ rwin.from = SatSub(cursor, HalfWindow) /\ rwin.to = cursor + HalfWindow
       /\ rwin.procs # None => rwin.procs <= cursor
       /\ WithinRows(rwin.samples, "10s", rwin.from, rwin.to) /\ OnTens(rwin.samples)

\* What was drawn last, until the next key.
ScreenInv ==
  pc = "poll" =>
    /\ shown.back = Back /\ shown.seq \in Nat /\ shown.seq <= tick_seq
    /\ mode # "live" \/ tick_seq = shown.seq => shown.event = Selected

UiInv == UiTypes /\ RefreshInv /\ OverviewInv /\ ReplayInv /\ ScreenInv
ConsoleInv == ThreadInv /\ UiInv

LEMMA UiStart == Init => UiInv
<1> SUFFICES ASSUME Init
             PROVE  UiInv
  OBVIOUS
<1>0. ThreadInv
  BY ThreadStart
<1>1. /\ sel = None /\ hint = None /\ tcur = 0 /\ zoom = DefaultZoom
      /\ twin = None /\ built = 0 /\ rwin = None
      /\ cursor = IF ~viewer THEN 0
                  ELSE IF latest_event_ms # None THEN latest_event_ms
                  ELSE IF latest_bucket_ms # None THEN latest_bucket_ms ELSE now
      /\ job = IF viewer THEN Seek(cursor, IF log # <<>> THEN To(latest_event_ms) ELSE Drop)
               ELSE None
      /\ mode = IF viewer THEN "replay" ELSE "live"
      /\ pc = IF viewer THEN "seek" ELSE "pass"
  BY DEF Init
<1>2. /\ latest_bucket_ms # None => latest_bucket_ms \in Nat
      /\ log # <<>> => latest_event_ms \in Nat
      /\ log = <<>> => latest_event_ms = None
      /\ now \in Nat
  <2>1. rows # {} => latest_bucket_ms \in Nat
    BY <1>0, RangeIs
  <2>2. log # <<>> => latest_event_ms \in Nat
    BY <1>0, NewestEventIs
  <2> QED BY <1>0, <2>1, <2>2 DEF latest_bucket_ms, latest_event_ms, ThreadInv, ThreadTypes
<1>3. cursor \in Nat
  BY <1>1, <1>2
<1>4. UiTypes
  BY <1>1, <1>3, Sizes DEF UiTypes, Maybe
<1>5. RefreshInv
  BY <1>1 DEF RefreshInv, Refreshing
<1>6. OverviewInv
  BY <1>1 DEF OverviewInv
<1>7. ReplayInv
  <2>1. CASE ~viewer
    BY <1>1, <2>1 DEF ReplayInv
  <2>2. CASE viewer
    <3>1. mode = "replay" /\ pc = "seek"
      BY <1>1, <2>2
    <3> DEFINE f == IF log # <<>> THEN To(latest_event_ms) ELSE Drop
    <3>2. job = [op |-> "replay", cur |-> cursor, follow |-> f]
      BY <1>1, <2>2 DEF Seek
    <3>3. f \in {Keep, Drop, To(cursor)}
      <4>1. CASE log = <<>>
        BY <4>1
      <4>2. CASE log # <<>>
        <5>1. cursor = latest_event_ms
          BY <1>1, <1>2, <2>2, <4>2, NoneIsApart
        <5> QED BY <4>2, <5>1
      <4> QED BY <4>1, <4>2
    <3> HIDE DEF f
    <3>4. f \in {Keep, Drop} \union {To(ts) : ts \in Nat}
      BY <1>3, <3>3
    <3>5. job \in ReplayQuery /\ job.follow = f
      BY <1>3, <3>2, <3>4 DEF ReplayQuery
    <3> QED BY <3>1, <3>3, <3>5 DEF ReplayInv
  <2> QED BY <2>1, <2>2
<1>8. ScreenInv
  BY <1>1 DEF ScreenInv
<1> QED BY <1>4, <1>5, <1>6, <1>7, <1>8 DEF UiInv

\* What a tick adds to the disk is of the next tick number.
LEMMA PersistWrites ==
  ASSUME ThreadInv, NEW d \in Steps, NEW answers \in BOOLEAN, NEW due \in BOOLEAN,
         NEW th, NEW k \in Told, NEW failed \in Failures,
         Persist(now + d, answers, th, k, due, failed)
  PROVE  /\ \A r \in rows' : r \in rows \/ r.born = tick_seq + 1
         /\ \A i \in DOMAIN log' :
              (i \in DOMAIN log /\ log'[i] = log[i]) \/ log'[i].born = tick_seq + 1
         /\ now' \in Nat /\ now <= now' /\ ~viewer /\ tick_seq' = tick_seq
         /\ viewer' = viewer /\ path' = path /\ feed' = feed /\ UNCHANGED ui
<1> DEFINE ts == now + d
           told == NewEvents(ts, k, failed)
           new == Added(ts, k, failed)
           n == Len(new)
           done == IF answers THEN {Row(tier, acc[tier]) : tier \in Crossed(ts) \ failed} ELSE {}
           kept == {r \in rows : due /\ r.tier = "10s" => r.bucket + Retain >= ts}
<1>1. /\ ~viewer /\ now' = ts /\ rows' = kept \union done
      /\ log' = IF "events" \in failed THEN log ELSE log \o told
      /\ feed' = feed /\ tick_seq' = tick_seq /\ viewer' = viewer /\ path' = path
      /\ UNCHANGED ui
  BY DEF Persist, Recorded, fixed
<1>2. ts \in Nat /\ now <= ts /\ k \in Nat
  BY Sizes DEF ThreadInv, ThreadTypes
<1>3. \A r \in kept : r \in rows
  OBVIOUS
<1>4. \A r \in done : r.born = tick_seq + 1
  BY <1>2, CrossedRows
<1>5. /\ new \in Seq(EventType) /\ n = Len(new) /\ n \in Nat /\ log' = log \o new
      /\ \A i \in 1..n : new[i].born = tick_seq + 1
  <2>1. /\ new \in Seq(EventType) /\ n = Len(new) /\ n \in Nat
        /\ \A i \in 1..n : new[i].born = tick_seq + 1
        /\ "events" \in failed => log \o new = log
        /\ "events" \notin failed => new = told
    BY <1>2, AddedIs DEF ThreadInv
  <2> HIDE DEF told, new, n
  <2> QED BY <1>1, <2>1
<1>6. log \in Seq(EventType) /\ Len(log) \in Nat /\ DOMAIN log = 1..Len(log)
  BY DEF ThreadInv, ThreadTypes
<1> HIDE DEF told, new, n, done, kept, ts
<1>7. ASSUME NEW i \in DOMAIN log'
      PROVE  (i \in DOMAIN log /\ log'[i] = log[i]) \/ log'[i].born = tick_seq + 1
  <2>1. PICK q \in Seq(EventType) : q = log \o new
    BY <1>5, <1>6, ConcatIs
  <2>2. /\ Len(q) = Len(log) + n
        /\ \A j \in 1..(Len(log) + n) :
             q[j] = IF j <= Len(log) THEN log[j] ELSE new[j - Len(log)]
    BY <1>5, <1>6, <2>1, ConcatIs
  <2>3. log' = q
    BY <1>5, <2>1
  <2>4. i \in 1..(Len(log) + n)
    BY <1>7, <2>2, <2>3
  <2>5. CASE i <= Len(log)
    <3>1. i \in DOMAIN log
      BY <1>6, <2>4, <2>5
    <3> QED BY <2>2, <2>3, <2>4, <2>5, <3>1
  <2>6. CASE i > Len(log)
    <3>1. i - Len(log) \in 1..n /\ ~(i <= Len(log))
      BY <1>5, <1>6, <2>4, <2>6
    <3> QED BY <1>5, <2>2, <2>3, <2>4, <3>1
  <2> QED BY <1>6, <2>4, <2>5, <2>6
<1> QED BY <1>1, <1>2, <1>3, <1>4, <1>7

\* What the selection is of.
LEMMA SelectedIsKept ==
  ASSUME mode' = mode, sel' = sel, rwin' = rwin, mode = "live" => feed' = feed
  PROVE  Selected' = Selected
<1>1. Feed' = Feed
  BY DEF Feed
<1> QED BY <1>1 DEF Selected

\* The loop's places hold through a tick of the thread.
LEMMA ThreadKeepsUi ==
  ASSUME ConsoleInv, Thread
  PROVE  UiInv'
<1>0. ThreadInv /\ UiTypes /\ RefreshInv /\ OverviewInv /\ ReplayInv /\ ScreenInv
  BY DEF ConsoleInv, UiInv
<1>1. /\ tick_seq \in Nat /\ now \in Nat /\ frame \in Seq(EventType) \union {None}
      /\ viewer \in BOOLEAN
  BY <1>0 DEF ThreadInv, ThreadTypes
<1>2. /\ ~viewer /\ viewer' = viewer /\ path' = path /\ UNCHANGED ui
      /\ now' \in Nat /\ now <= now'
      /\ tick_seq' \in Nat /\ tick_seq <= tick_seq'
      /\ feed' = feed \/ tick_seq' = tick_seq + 1
      /\ \A r \in rows' : r \in rows \/ r.born = tick_seq + 1
      /\ \A i \in DOMAIN log' :
           (i \in DOMAIN log /\ log'[i] = log[i]) \/ log'[i].born = tick_seq + 1
  <2>1. CASE \E d \in Steps, answers, due \in BOOLEAN, th \in Readings[path], k \in Told,
                failed \in Failures :
               Persist(now + d, answers, th, k, due, failed)
    <3>1. PICK d \in Steps, answers \in BOOLEAN, due \in BOOLEAN, th \in Readings[path],
               k \in Told, failed \in Failures : Persist(now + d, answers, th, k, due, failed)
      BY <2>1
    <3>2. /\ \A r \in rows' : r \in rows \/ r.born = tick_seq + 1
          /\ \A i \in DOMAIN log' :
               (i \in DOMAIN log /\ log'[i] = log[i]) \/ log'[i].born = tick_seq + 1
          /\ now' \in Nat /\ now <= now' /\ ~viewer /\ tick_seq' = tick_seq
          /\ viewer' = viewer /\ path' = path /\ feed' = feed /\ UNCHANGED ui
      BY <1>0, <3>1, PersistWrites
    <3> QED BY <1>1, <3>2
  <2>2. CASE FoldFrame
    <3>1. /\ frame # None /\ tick_seq' = tick_seq + 1 /\ now' = now
          /\ rows' = rows /\ log' = log /\ viewer' = viewer /\ path' = path /\ UNCHANGED ui
      BY <2>2 DEF FoldFrame, fixed
    <3>2. ~viewer
      BY <1>0, <3>1 DEF ThreadInv, Mirrored
    <3> QED BY <1>1, <3>1, <3>2
  <2> QED BY <2>1, <2>2 DEF Thread
<1>3. /\ pc' = pc /\ mode' = mode /\ cursor' = cursor /\ sel' = sel /\ hint' = hint
      /\ tcur' = tcur /\ zoom' = zoom /\ twin' = twin /\ built' = built /\ rwin' = rwin
      /\ job' = job /\ shown' = shown
  BY <1>2 DEF ui
<1>4. UiTypes'
  BY <1>0, <1>3 DEF UiTypes
<1>5. \A t \in Nat : Ends(t) => Ends(t)'
  <2>1. \A t \in Nat : t <= now => t <= now'
    BY <1>1, <1>2
  <2> QED BY <1>2, <2>1 DEF Ends
<1>6. ASSUME NEW samples, NEW tier, NEW from, NEW to, NEW tick \in Nat, tick <= tick_seq,
             RowsUpTo(samples, tier, from, to, tick)
      PROVE  RowsUpTo(samples, tier, from, to, tick)'
  <2>1. SUFFICES ASSUME NEW r \in rows', r.tier = tier, from <= r.bucket, r.bucket <= to,
                        r.born <= tick
                 PROVE  r \in samples
    BY DEF RowsUpTo, RowsBetween
  <2>2. r.born # tick_seq + 1
    BY <1>1, <1>6, <2>1
  <2>3. r \in rows
    BY <1>2, <2>2
  <2> QED BY <1>6, <2>1, <2>3 DEF RowsUpTo, RowsBetween
<1>7. ASSUME NEW events, NEW from, NEW to, NEW tick \in Nat, tick <= tick_seq,
             EventsUpTo(events, from, to, tick)
      PROVE  EventsUpTo(events, from, to, tick)'
  <2>1. SUFFICES ASSUME NEW i \in DOMAIN log', log'[i].born <= tick,
                        from <= log'[i].ts, log'[i].ts <= to
                 PROVE  \E j \in DOMAIN events : events[j] = log'[i]
    BY DEF EventsUpTo
  <2>2. log'[i].born # tick_seq + 1
    BY <1>1, <1>7, <2>1
  <2>3. i \in DOMAIN log /\ log'[i] = log[i]
    BY <1>2, <2>2
  <2> QED BY <1>7, <2>1, <2>3 DEF EventsUpTo
<1>8. RefreshInv'
  <2>1. ASSUME Refreshing
        PROVE  Ends(job.to)'
    <3>1. job.to \in Nat /\ Ends(job.to)
      BY <1>0, <2>1 DEF RefreshInv, TimelineQuery
    <3>2. job.to <= now
      BY <1>2, <3>1 DEF Ends
    <3> QED BY <1>1, <1>2, <1>3, <3>1, <3>2 DEF Ends
  <2>2. RideAlong' = RideAlong /\ (Refreshing' <=> Refreshing)
    BY <1>3 DEF RideAlong, Refreshing
  <2>3. ASSUME pc \in {"rows", "events"}
        PROVE  job.seq \in Nat /\ job.seq <= tick_seq'
    <3>1. job.seq \in Nat /\ job.seq <= tick_seq
      BY <1>0, <2>3 DEF RefreshInv
    <3> QED BY <1>1, <1>2, <3>1
  <2>4. ASSUME pc = "events"
        PROVE  /\ RowsUpTo(job.samples, job.tier, job.from, job.to, job.seq)'
               /\ WithinRows(job.samples, job.tier, job.from, job.to)
    <3>1. /\ job.seq \in Nat /\ job.seq <= tick_seq
          /\ RowsUpTo(job.samples, job.tier, job.from, job.to, job.seq)
          /\ WithinRows(job.samples, job.tier, job.from, job.to)
      BY <1>0, <2>4 DEF RefreshInv
    <3>2. PICK sm, ti, fr, t, sq : /\ sm = job.samples /\ ti = job.tier /\ fr = job.from
                                   /\ t = job.to /\ sq = job.seq
      BY Zenon
    <3>3. RowsUpTo(sm, ti, fr, t, sq)'
      BY <1>6, <3>1, <3>2
    <3> QED BY <1>3, <3>1, <3>2, <3>3 DEF RowsUpTo, RowsBetween
  <2> QED BY <1>0, <1>3, <2>1, <2>2, <2>3, <2>4 DEF RefreshInv, WithinRows
<1>9. OverviewInv'
  <2>1. SUFFICES ASSUME twin # None
                 PROVE  /\ Ends(twin.to)' /\ built <= tick_seq'
                        /\ RowsUpTo(twin.samples, twin.tier, twin.from, twin.to, built)'
                        /\ EventsUpTo(twin.events, twin.from, twin.to, built)'
    BY <1>0, <1>3 DEF OverviewInv, Refreshing, WithinRows, Inside
  <2>2. twin \in Window /\ built \in Nat
    BY <1>0, <2>1 DEF UiTypes, Maybe
  <2>3. /\ Ends(twin.to) /\ built <= tick_seq
        /\ RowsUpTo(twin.samples, twin.tier, twin.from, twin.to, built)
        /\ EventsUpTo(twin.events, twin.from, twin.to, built)
    BY <1>0, <2>1 DEF OverviewInv
  <2>4. PICK w, b : w = twin /\ b = built
    BY Zenon
  <2>5. RowsUpTo(w.samples, w.tier, w.from, w.to, b)' /\ EventsUpTo(w.events, w.from, w.to, b)'
    BY <1>6, <1>7, <2>2, <2>3, <2>4
  <2>6. w.to \in Nat /\ Ends(w.to)
    BY <2>2, <2>3, <2>4 DEF Window
  <2>7. w.to <= now
    BY <1>2, <2>6 DEF Ends
  <2>8. Ends(twin.to)'
    BY <1>1, <1>2, <1>3, <2>4, <2>6, <2>7 DEF Ends
  <2> QED BY <1>1, <1>2, <1>3, <2>2, <2>3, <2>4, <2>5, <2>8 DEF RowsUpTo, RowsBetween, EventsUpTo
<1>10. ReplayInv'
  BY <1>0, <1>2, <1>3 DEF ReplayInv, WithinRows, OnTens
<1>11. ScreenInv'
  <2>1. SUFFICES ASSUME pc = "poll"
                 PROVE  /\ shown.back = Back' /\ shown.seq \in Nat /\ shown.seq <= tick_seq'
                        /\ mode # "live" \/ tick_seq' = shown.seq => shown.event = Selected'
    BY <1>3 DEF ScreenInv
  <2>2. /\ shown.back = Back /\ shown.seq \in Nat /\ shown.seq <= tick_seq
        /\ mode # "live" \/ tick_seq = shown.seq => shown.event = Selected
    BY <1>0, <2>1 DEF ScreenInv
  <2>3. Back' = Back
    BY <1>2, <1>3 DEF Back
  <2>4. CASE mode = "live" /\ feed' # feed
    <3>1. tick_seq' = tick_seq + 1
      BY <1>2, <2>4
    <3> QED BY <1>1, <2>2, <2>3, <2>4, <3>1
  <2>5. CASE mode # "live" \/ feed' = feed
    <3>1. Selected' = Selected
      BY <1>3, <2>5, SelectedIsKept
    <3>2. shown.seq <= tick_seq'
      BY <1>1, <1>2, <2>2
    <3>3. mode = "live" /\ tick_seq' = shown.seq => tick_seq = shown.seq
      BY <1>1, <1>2, <2>2
    <3> QED BY <2>2, <2>3, <3>1, <3>2, <3>3
  <2> QED BY <2>4, <2>5
<1> QED BY <1>4, <1>8, <1>9, <1>10, <1>11 DEF UiInv

\* While the thread stands still nothing about the recording changes.
LEMMA RecordingHeld ==
  ASSUME UNCHANGED <<thread, fixed>>
  PROVE  /\ now' = now /\ rows' = rows /\ log' = log /\ feed' = feed /\ tick_seq' = tick_seq
         /\ viewer' = viewer /\ path' = path
         /\ \A t : Ends(t)' <=> Ends(t)
<1>1. /\ now' = now /\ rows' = rows /\ log' = log /\ feed' = feed /\ tick_seq' = tick_seq
      /\ viewer' = viewer /\ path' = path
  BY DEF thread, fixed
<1>2. recorded_end' = recorded_end
  BY <1>1 DEF recorded_end, Buckets, latest_bucket_ms
<1> QED BY <1>1, <1>2 DEF Ends

\* The overview on screen is left alone, or forgotten.
LEMMA OverviewHeld ==
  ASSUME ConsoleInv, UNCHANGED <<thread, fixed>>,
         \/ twin' = twin /\ tcur' = tcur /\ built' = built
         \/ twin' = None,
         mode' = "timeline" /\ ~Refreshing' => twin' # None
  PROVE  OverviewInv'
<1>1. CASE twin' = None
  BY <1>1 DEF OverviewInv
<1>2. CASE twin' # None
  <2>1. twin' = twin /\ tcur' = tcur /\ built' = built /\ twin # None
    BY <1>2
  <2>2. OverviewInv
    BY DEF ConsoleInv, UiInv
  <2>3. RowsUpTo(twin.samples, twin.tier, twin.from, twin.to, built)'
          <=> RowsUpTo(twin.samples, twin.tier, twin.from, twin.to, built)
    BY <2>1, RecordingHeld DEF RowsUpTo, RowsBetween
  <2>4. EventsUpTo(twin.events, twin.from, twin.to, built)'
          <=> EventsUpTo(twin.events, twin.from, twin.to, built)
    BY <2>1, RecordingHeld DEF EventsUpTo
  <2> QED BY <1>2, <2>1, <2>2, <2>3, <2>4, RecordingHeld DEF OverviewInv, WithinRows, Inside
<1> QED BY <1>1, <1>2

\* Replay is left alone, or left.
LEMMA ReplayHeld ==
  ASSUME ConsoleInv, UNCHANGED <<thread, fixed>>, pc' # "seek",
         \/ ~(mode' = "replay" \/ viewer)
         \/ /\ rwin' = rwin /\ cursor' = cursor
            /\ (mode = "replay" \/ viewer) /\ pc # "seek"
  PROVE  ReplayInv'
BY RecordingHeld DEF ConsoleInv, UiInv, ReplayInv, WithinRows, OnTens

\* A refresh begins.
LEMMA RefreshBegins ==
  ASSUME ConsoleInv, UNCHANGED <<thread, fixed>>,
         NEW z \in DOMAIN Rungs, NEW cur \in Maybe(Nat), NEW then \in {"pass", "draw"},
         BeginRefresh(z, cur, then), mode' = "timeline", twin' = twin, tcur' = tcur,
         then = "draw" => ~viewer /\ twin # None /\ cur = RideAlong
  PROVE  RefreshInv' /\ Refreshing' /\ pc' = "lock"
<1> DEFINE w == WindowFor(Rungs[z], cur, then)
<1>1. job' = w /\ pc' = "lock"
  BY DEF BeginRefresh
<1>2. /\ w \in TimelineQuery /\ w.from <= w.to /\ Ends(w.to)
      /\ w.cur = cur /\ w.then = then /\ (~viewer => w.to = now)
  BY WindowForIs DEF ConsoleInv
<1> HIDE DEF w
<1>3. Refreshing'
  BY <1>1 DEF Refreshing
<1>4. then = "draw" => twin # None /\ twin.to <= w.to /\ w.cur = RideAlong
  <2>1. SUFFICES ASSUME then = "draw"
                 PROVE  twin.to <= w.to
    BY <1>2
  <2>2. Ends(twin.to) /\ ~viewer /\ w.to = now
    BY <1>2, <2>1 DEF ConsoleInv, UiInv, OverviewInv
  <2> QED BY <2>2 DEF Ends
<1>5. RideAlong' = RideAlong
  BY DEF RideAlong
<1> QED BY <1>1, <1>2, <1>3, <1>4, <1>5, RecordingHeld DEF RefreshInv

\* A seek begins.
LEMMA SeekBegins ==
  ASSUME ConsoleInv, NEW c \in Nat, NEW follow \in {Keep, Drop, To(c)},
         BeginSeek(c, follow), mode' = "replay"
  PROVE  ReplayInv' /\ RefreshInv' /\ cursor' \in Nat /\ pc' = "seek"
<1>1. cursor' = c /\ pc' = "seek"
      /\ job' = [op |-> "replay", cur |-> c, follow |-> follow]
  BY DEF BeginSeek, Seek
<1>2. follow \in {Keep, Drop} \union {To(ts) : ts \in Nat}
  OBVIOUS
<1>3. job' \in ReplayQuery /\ job'.follow = follow
  BY <1>1, <1>2 DEF ReplayQuery
<1>4. To(cursor)' = To(c)
  BY <1>1 DEF To
<1>5. Keep' = Keep /\ Drop' = Drop
  BY DEF Keep, Drop
<1>6. ReplayInv'
  BY <1>1, <1>3, <1>4, <1>5 DEF ReplayInv, ReplayQuery
<1> QED BY <1>1, <1>6 DEF RefreshInv, Refreshing

\* The draws, queries and idle polls of the loop.
LEMMA LoopKeepsUi ==
  ASSUME ConsoleInv, Loop
  PROVE  UiInv'
<1>0. /\ ThreadInv /\ UiTypes /\ RefreshInv /\ OverviewInv /\ ReplayInv /\ ScreenInv
      /\ UNCHANGED <<thread, fixed>>
  BY InterfaceReads DEF ConsoleInv, UiInv
<1>1. CASE Tick
  <2>1. /\ pc = "pass" /\ mode = "timeline" /\ ~viewer /\ BeginRefresh(zoom, RideAlong, "draw")
        /\ mode' = mode /\ cursor' = cursor /\ sel' = sel /\ hint' = hint /\ tcur' = tcur
        /\ zoom' = zoom /\ twin' = twin /\ built' = built /\ rwin' = rwin
    BY <1>1 DEF Tick, Stale
  <2>2. twin # None /\ zoom \in DOMAIN Rungs
    BY <1>0, <2>1 DEF OverviewInv, Refreshing, UiTypes
  <2>3. RideAlong \in Maybe(Nat)
    BY <1>0 DEF UiTypes, RideAlong, Maybe
  <2>4. RefreshInv' /\ Refreshing' /\ pc' = "lock"
    BY <1>0, <2>1, <2>2, <2>3, RefreshBegins
  <2>5. UiTypes'
    BY <1>0, <2>1, <2>4 DEF UiTypes
  <2>6. OverviewInv'
    BY <1>0, <2>1, <2>2, OverviewHeld
  <2>7. ReplayInv'
    BY <1>0, <2>1, <2>4, ReplayHeld
  <2> QED BY <2>4, <2>5, <2>6, <2>7 DEF UiInv, ScreenInv
<1>2. CASE ReadSeq
  <2>1. /\ pc = "lock" /\ pc' = "rows" /\ job' = [job EXCEPT !.seq = tick_seq]
        /\ mode' = mode /\ cursor' = cursor /\ sel' = sel /\ hint' = hint /\ tcur' = tcur
        /\ zoom' = zoom /\ twin' = twin /\ built' = built /\ rwin' = rwin
    BY <1>2 DEF ReadSeq
  <2>2. UiTypes' /\ Refreshing /\ Refreshing'
    BY <1>0, <2>1 DEF UiTypes, Refreshing
  <2>3. job \in TimelineQuery /\ mode = "timeline" /\ tick_seq \in Nat
    BY <1>0, <2>2 DEF RefreshInv, ThreadInv, ThreadTypes
  <2>4. /\ job' \in TimelineQuery /\ job'.from = job.from /\ job'.to = job.to
        /\ job'.cur = job.cur /\ job'.then = job.then /\ job'.seq = tick_seq
    BY <2>1, <2>3 DEF TimelineQuery, Maybe
  <2>5. RideAlong' = RideAlong /\ (Ends(job.to)' <=> Ends(job.to))
    BY <1>0, <2>1, <2>4, RecordingHeld DEF RideAlong, Ends
  <2>6. RefreshInv'
    BY <1>0, <2>1, <2>2, <2>3, <2>4, <2>5, RecordingHeld DEF RefreshInv
  <2>7. OverviewInv'
    BY <1>0, <2>1, <2>2, OverviewHeld
  <2>8. ReplayInv'
    BY <1>0, <2>1, <2>3, ReplayHeld
  <2> QED BY <2>1, <2>2, <2>6, <2>7, <2>8 DEF UiInv, ScreenInv
<1>3. CASE ReadRows
  <2>1. /\ pc = "rows" /\ pc' = "events"
        /\ job' = [job EXCEPT !.samples = RowsBetween(job.tier, job.from, job.to)]
        /\ mode' = mode /\ cursor' = cursor /\ sel' = sel /\ hint' = hint /\ tcur' = tcur
        /\ zoom' = zoom /\ twin' = twin /\ built' = built /\ rwin' = rwin
    BY <1>3 DEF ReadRows
  <2>2. UiTypes' /\ Refreshing /\ Refreshing'
    BY <1>0, <2>1 DEF UiTypes, Refreshing
  <2>3. job \in TimelineQuery /\ mode = "timeline" /\ job.seq \in Nat /\ job.seq <= tick_seq
    BY <1>0, <2>1, <2>2 DEF RefreshInv
  <2>4. RowsBetween(job.tier, job.from, job.to) \in SUBSET Rollup
    BY <1>0 DEF RowsBetween, ThreadInv, ThreadTypes
  <2>5. /\ job' \in TimelineQuery /\ job'.from = job.from /\ job'.to = job.to
        /\ job'.cur = job.cur /\ job'.then = job.then /\ job'.seq = job.seq
        /\ job'.tier = job.tier
        /\ job'.samples = RowsBetween(job.tier, job.from, job.to)
    BY <2>1, <2>3, <2>4 DEF TimelineQuery
  <2>6. RideAlong' = RideAlong /\ (Ends(job.to)' <=> Ends(job.to))
    BY <1>0, <2>1, <2>5, RecordingHeld DEF RideAlong, Ends
  <2>7. RowsUpTo(job.samples, job.tier, job.from, job.to, job.seq)'
    BY <1>0, <2>5, RecordingHeld DEF RowsUpTo, RowsBetween
  <2>8. WithinRows(job.samples, job.tier, job.from, job.to)'
    BY <2>5 DEF WithinRows, RowsBetween
  <2>9. RefreshInv'
    BY <1>0, <2>1, <2>2, <2>3, <2>5, <2>6, <2>7, <2>8, RecordingHeld DEF RefreshInv
  <2>10. OverviewInv'
    BY <1>0, <2>1, <2>2, OverviewHeld
  <2>11. ReplayInv'
    BY <1>0, <2>1, <2>3, ReplayHeld
  <2> QED BY <2>1, <2>2, <2>9, <2>10, <2>11 DEF UiInv, ScreenInv
<1>4. CASE ReadWindow
  <2> DEFINE evs == events_between(job.from, job.to)
             at == IF job.cur = None THEN job.to ELSE job.cur
  <2>1. /\ pc = "events" /\ pc' = job.then
        /\ twin' = [from |-> job.from, to |-> job.to, tier |-> job.tier, clamped |-> job.clamped,
                    samples |-> job.samples, events |-> evs]
        /\ tcur' = Clamp(at, job.from, job.to)
        /\ built' = job.seq
        /\ mode' = mode /\ cursor' = cursor /\ sel' = sel /\ hint' = hint
        /\ zoom' = zoom /\ rwin' = rwin
    BY <1>4 DEF ReadWindow, BuiltSeq, CursorIn
  <2>2. /\ mode = "timeline" /\ job \in TimelineQuery /\ job.from <= job.to /\ Ends(job.to)
        /\ job.seq \in Nat /\ job.seq <= tick_seq
        /\ RowsUpTo(job.samples, job.tier, job.from, job.to, job.seq)
        /\ WithinRows(job.samples, job.tier, job.from, job.to)
    BY <1>0, <2>1 DEF RefreshInv, Refreshing
  <2>3. /\ job.from \in Nat /\ job.to \in Nat /\ job.tier \in Tiers /\ job.clamped \in BOOLEAN
        /\ job.samples \in SUBSET Rollup /\ job.cur \in Maybe(Nat) /\ job.then \in {"pass", "draw"}
    BY <2>2 DEF TimelineQuery
  <2>4. /\ evs \in Seq(EventType) /\ Inside(evs, job.from, job.to)
        /\ \A i \in DOMAIN log : job.from <= log[i].ts /\ log[i].ts <= job.to
             => \E j \in DOMAIN evs : evs[j] = log[i]
    BY <1>0, <2>3, EventsBetweenAre
  <2>5. at \in Nat
    BY <2>3 DEF Maybe
  <2> HIDE DEF evs, at
  <2>6. tcur' \in Nat /\ job.from <= tcur' /\ tcur' <= job.to
    BY <2>1, <2>2, <2>3, <2>5, ClampIs
  <2>7. twin' \in Window
    BY <2>1, <2>3, <2>4 DEF Window
  <2>8. /\ twin'.from = job.from /\ twin'.to = job.to /\ twin'.tier = job.tier
        /\ twin'.samples = job.samples /\ twin'.events = evs
    BY <2>1
  <2>9. twin' # None
    BY <2>7, NoneIsApart
  <2>10. UiTypes'
    BY <1>0, <2>1, <2>2, <2>3, <2>6, <2>7 DEF UiTypes, Maybe
  <2>11. RefreshInv'
    BY <2>1, <2>3 DEF RefreshInv, Refreshing
  <2>12. OverviewInv'
    <3>1. Ends(twin.to)'
      BY <1>0, <2>2, <2>8, RecordingHeld DEF Ends
    <3>2. RowsUpTo(twin.samples, twin.tier, twin.from, twin.to, built)'
      BY <1>0, <2>1, <2>2, <2>8, RecordingHeld DEF RowsUpTo, RowsBetween
    <3>3. WithinRows(twin.samples, twin.tier, twin.from, twin.to)'
      BY <2>2, <2>8 DEF WithinRows
    <3>4. EventsUpTo(twin.events, twin.from, twin.to, built)'
      BY <1>0, <2>4, <2>8, RecordingHeld DEF EventsUpTo
    <3>5. Inside(twin.events, twin.from, twin.to)'
      BY <2>4, <2>8 DEF Inside
    <3>6. built' <= tick_seq'
      BY <1>0, <2>1, <2>2, RecordingHeld
    <3> QED BY <2>2, <2>6, <2>8, <2>9, <3>1, <3>2, <3>3, <3>4, <3>5, <3>6 DEF OverviewInv
  <2>13. ReplayInv'
    BY <1>0, <2>1, <2>2, <2>3, ReplayHeld
  <2>14. pc' # "poll"
    BY <2>1, <2>3
  <2> QED BY <2>10, <2>11, <2>12, <2>13, <2>14 DEF UiInv, ScreenInv
<1>5. CASE ReadReplay
  <2> DEFINE from == SatSub(cursor, HalfWindow)
             to == cursor + HalfWindow
             evs == events_between(from, to)
             smp == RowsBetween("10s", from, to)
  <2>1. /\ pc = "seek" /\ pc' = "pass" /\ job' = None
        /\ rwin' = [from |-> from, to |-> to, samples |-> smp,
                    procs |-> processes_at(cursor), events |-> evs]
        /\ \/ sel' = sel
           \/ sel' = None
           \/ \E ts \in Follows : sel' = PositionOf(evs, ts)
        /\ mode' = mode /\ cursor' = cursor /\ hint' = hint /\ tcur' = tcur
        /\ zoom' = zoom /\ twin' = twin /\ built' = built
    BY <1>5 DEF ReadReplay
  <2>2. cursor \in Nat /\ mode = "replay" /\ job.follow \in {Keep, Drop, To(cursor)}
    BY <1>0, <2>1 DEF UiTypes, ReplayInv
  <2>3. from \in Nat /\ to \in Nat
    <3>1. HalfWindow \in Nat
      BY Sizes
    <3> QED BY <2>2, <3>1, SatSubIs
  <2>4. evs \in Seq(EventType)
    <3> HIDE DEF from, to
    <3> QED BY <1>0, <2>3, EventsBetweenAre
  <2>5. smp \in SUBSET Rollup /\ WithinRows(smp, "10s", from, to) /\ OnTens(smp)
    BY <1>0 DEF RowsBetween, WithinRows, OnTens, ThreadInv, ThreadTypes, Aligned
  <2>6. /\ processes_at(cursor) \in Maybe(Nat)
        /\ processes_at(cursor) # None => processes_at(cursor) <= cursor
    BY <1>0, <2>2, ProcessesAre
  <2> HIDE DEF from, to, evs, smp
  <2>7. rwin' \in Replay
    BY <2>1, <2>3, <2>4, <2>5, <2>6 DEF Replay, Maybe
  <2>8. /\ rwin' # None /\ rwin'.from = from /\ rwin'.to = to /\ rwin'.samples = smp
        /\ rwin'.procs = processes_at(cursor)
    BY <2>1, <2>7, NoneIsApart
  <2>9. sel' \in Maybe(Nat)
    <3>1. Follows \subseteq {cursor}
      BY <2>2 DEF Follows, Keep, Drop, To
    <3>2. \A ts \in Follows : PositionOf(evs, ts) \in Maybe(Nat)
      BY <2>2, <2>4, <3>1, PositionIs
    <3> QED BY <1>0, <2>1, <3>2 DEF UiTypes, Maybe
  <2>10. UiTypes'
    BY <1>0, <2>1, <2>7, <2>9 DEF UiTypes, Maybe
  <2>11. ReplayInv'
    BY <1>0, <2>1, <2>2, <2>5, <2>6, <2>8 DEF ReplayInv, WithinRows, OnTens, from, to
  <2>12. OverviewInv'
    BY <1>0, <2>1, <2>2, OverviewHeld
  <2> QED BY <2>1, <2>10, <2>11, <2>12 DEF UiInv, RefreshInv, Refreshing, ScreenInv
<1>6. CASE Draw
  <2>1. /\ pc \in {"pass", "draw"} /\ pc' = "poll"
        /\ shown' = [event |-> Selected, back |-> Back, seq |-> tick_seq]
        /\ mode' = mode /\ cursor' = cursor /\ sel' = sel /\ hint' = hint /\ tcur' = tcur
        /\ zoom' = zoom /\ twin' = twin /\ built' = built /\ rwin' = rwin /\ job' = job
    BY <1>6 DEF Draw
  <2>2. UiTypes'
    BY <1>0, <2>1 DEF UiTypes
  <2>3. OverviewInv'
    <3>1. mode' = "timeline" /\ ~Refreshing' => twin' # None
      BY <1>0, <2>1 DEF OverviewInv, Refreshing
    <3> QED BY <1>0, <2>1, <3>1, OverviewHeld
  <2>4. ReplayInv'
    BY <1>0, <2>1, ReplayHeld
  <2>5. ScreenInv'
    <3>1. Selected' = Selected
      BY <1>0, <2>1, RecordingHeld, SelectedIsKept
    <3>2. Back' = Back
      BY <1>0, <2>1, RecordingHeld DEF Back
    <3>3. tick_seq' = tick_seq /\ tick_seq \in Nat
      BY <1>0, RecordingHeld DEF ThreadInv, ThreadTypes
    <3>4. shown'.event = Selected /\ shown'.back = Back /\ shown'.seq = tick_seq
      BY <2>1
    <3> QED BY <3>1, <3>2, <3>3, <3>4 DEF ScreenInv
  <2> QED BY <2>1, <2>2, <2>3, <2>4, <2>5 DEF UiInv, RefreshInv, Refreshing
<1>7. CASE Idle
  <2>1. /\ pc = "poll" /\ pc' = "pass"
        /\ mode' = mode /\ cursor' = cursor /\ sel' = sel /\ hint' = hint /\ tcur' = tcur
        /\ zoom' = zoom /\ twin' = twin /\ built' = built /\ rwin' = rwin /\ job' = job
    BY <1>7 DEF Idle
  <2>2. UiTypes'
    BY <1>0, <2>1 DEF UiTypes
  <2>3. OverviewInv'
    <3>1. mode' = "timeline" /\ ~Refreshing' => twin' # None
      BY <1>0, <2>1 DEF OverviewInv, Refreshing
    <3> QED BY <1>0, <2>1, <3>1, OverviewHeld
  <2>4. ReplayInv'
    BY <1>0, <2>1, ReplayHeld
  <2> QED BY <2>1, <2>2, <2>3, <2>4 DEF UiInv, RefreshInv, Refreshing, ScreenInv
<1> QED BY <1>1, <1>2, <1>3, <1>4, <1>5, <1>6, <1>7 DEF Loop

\* A key that does nothing but name its hint.
LEMMA DeadKeyKeepsUi ==
  ASSUME ConsoleInv, pc = "poll", UNCHANGED <<thread, fixed>>, DeadKey
  PROVE  UiInv'
<1>0. UiTypes /\ OverviewInv /\ ReplayInv
  BY DEF ConsoleInv, UiInv
<1>1. /\ hint' = Blocked /\ pc' = "pass"
      /\ mode' = mode /\ cursor' = cursor /\ sel' = sel /\ tcur' = tcur
      /\ zoom' = zoom /\ twin' = twin /\ built' = built /\ rwin' = rwin /\ job' = job
  BY DEF DeadKey
<1>2. UiTypes'
  BY <1>0, <1>1 DEF UiTypes, Blocked, Maybe
<1>3. OverviewInv'
  <2>1. mode' = "timeline" /\ ~Refreshing' => twin' # None
    BY <1>0, <1>1 DEF OverviewInv, Refreshing
  <2> QED BY <1>1, <2>1, OverviewHeld
<1>4. ReplayInv'
  BY <1>0, <1>1, ReplayHeld
<1> QED BY <1>1, <1>2, <1>3, <1>4 DEF UiInv, RefreshInv, Refreshing, ScreenInv

\* A replay entered, at a moment or at the newest bucket.
LEMMA EnterReplayKeepsUi ==
  ASSUME ConsoleInv, pc = "poll", UNCHANGED <<thread, fixed>>,
         NEW c \in Maybe(Nat), enter_replay(c)
  PROVE  UiInv'
<1>0. ThreadInv /\ UiTypes
  BY DEF ConsoleInv, UiInv
<1>1. CASE DeadKey
  BY <1>1, DeadKeyKeepsUi
<1>2. CASE ~DeadKey
  <2> DEFINE to == IF c # None THEN c
                   ELSE IF latest_bucket_ms # None THEN latest_bucket_ms ELSE now
             follow == IF c # None THEN To(c) ELSE Drop
  <2>1. /\ mode' = "replay" /\ hint' = None /\ sel' = None /\ BeginSeek(to, follow)
        /\ twin' = None /\ built' = 0 /\ tcur' = 0 /\ zoom' = zoom /\ rwin' = rwin
    BY <1>2 DEF enter_replay, LeaveTimeline
  <2>2. to \in Nat
    <3>1. rows # {} => latest_bucket_ms \in Nat
      BY <1>0, RangeIs
    <3>2. latest_bucket_ms # None => rows # {}
      BY DEF latest_bucket_ms
    <3> QED BY <1>0, <3>1, <3>2 DEF ThreadInv, ThreadTypes, Maybe
  <2>3. follow \in {Keep, Drop, To(to)}
    OBVIOUS
  <2> HIDE DEF to, follow
  <2>4. ReplayInv' /\ RefreshInv' /\ cursor' \in Nat /\ pc' = "seek"
    BY <2>1, <2>2, <2>3, SeekBegins
  <2>5. UiTypes'
    BY <1>0, <2>1, <2>4 DEF UiTypes, Maybe
  <2>6. OverviewInv'
    BY <2>1, OverviewHeld
  <2> QED BY <2>4, <2>5, <2>6 DEF UiInv, ScreenInv
<1> QED BY <1>1, <1>2

\* The overview entered, from replay at its cursor.
LEMMA EnterTimelineKeepsUi ==
  ASSUME ConsoleInv, pc = "poll", UNCHANGED <<thread, fixed>>,
         mode \in {"live", "replay"}, enter_timeline
  PROVE  UiInv'
<1>0. ThreadInv /\ UiTypes /\ ReplayInv
  BY DEF ConsoleInv, UiInv
<1>1. CASE DeadKey
  BY <1>1, DeadKeyKeepsUi
<1>2. CASE ~DeadKey
  <2> DEFINE cur == IF mode = "replay" THEN cursor ELSE None
  <2>1. /\ mode' = "timeline" /\ hint' = None /\ sel' = None
        /\ BeginRefresh(zoom, cur, "pass")
        /\ IF viewer THEN cursor' = cursor /\ rwin' = rwin ELSE rwin' = None /\ cursor' = 0
        /\ tcur' = tcur /\ zoom' = zoom /\ twin' = twin /\ built' = built
    BY <1>2 DEF enter_timeline, LeaveReplay
  <2>2. cur \in Maybe(Nat) /\ zoom \in DOMAIN Rungs
    BY <1>0 DEF UiTypes, Maybe
  <2> HIDE DEF cur
  <2>3. RefreshInv' /\ Refreshing' /\ pc' = "lock"
    BY <2>1, <2>2, RefreshBegins
  <2>4. UiTypes'
    BY <1>0, <2>1, <2>3 DEF UiTypes, Maybe
  <2>5. OverviewInv'
    BY <2>1, <2>3, OverviewHeld
  <2>6. ReplayInv'
    BY <1>0, <2>1, <2>3, ReplayHeld
  <2> QED BY <2>3, <2>4, <2>5, <2>6 DEF UiInv, ScreenInv
<1> QED BY <1>1, <1>2

\* The event of the selected row is one of the feed's.
LEMMA FeedIs ==
  ASSUME ConsoleInv
  PROVE  Feed \in Seq(EventType)
<1>1. feed \in Seq(EventType) /\ rwin \in Maybe(Replay)
  BY DEF ConsoleInv, ThreadInv, ThreadTypes, UiInv, UiTypes
<1>2. rwin # None => rwin.events \in Seq(EventType)
  BY <1>1 DEF Maybe, Replay
<1>3. <<>> \in Seq(EventType)
  OBVIOUS
<1> QED BY <1>1, <1>2, <1>3 DEF Feed

LEMMA SelectedIs ==
  ASSUME ConsoleInv, Selected # None
  PROVE  /\ Selected \in EventType /\ Selected.ts \in Nat
         /\ sel \in Nat /\ sel < Len(Feed)
         /\ mode = "live" => FeedAt(sel) = Selected
<1>1. Feed \in Seq(EventType) /\ sel \in Maybe(Nat)
  BY FeedIs DEF ConsoleInv, UiInv, UiTypes
<1>2. sel \in Nat /\ ~(sel >= Len(Feed)) /\ Len(Feed) \in Nat
  BY <1>1 DEF Selected, Maybe
<1>3. Selected = IF mode = "live" THEN Feed[Len(Feed) - sel] ELSE Feed[sel + 1]
  BY <1>2 DEF Selected
<1>4. Len(Feed) - sel \in 1..Len(Feed) /\ sel + 1 \in 1..Len(Feed)
  BY <1>2
<1>5. Feed[Len(Feed) - sel] \in EventType /\ Feed[sel + 1] \in EventType
  BY <1>1, <1>4
<1>6. Selected \in EventType
  BY <1>3, <1>5
<1> QED BY <1>2, <1>3, <1>6 DEF EventType, FeedAt

\* A key that stays in its view, and moves nothing but the selection or the
\* overview's cursor.
LEMMA StayingKeepsUi ==
  ASSUME ConsoleInv, pc = "poll", UNCHANGED <<thread, fixed>>, pc' \in {"pass", "done"},
         mode' = mode, cursor' = cursor, hint' = hint, zoom' = zoom, twin' = twin,
         built' = built, rwin' = rwin, sel' \in Maybe(Nat),
         tcur' \in Nat, tcur' = tcur \/ (twin.from <= tcur' /\ tcur' <= twin.to)
  PROVE  UiInv'
<1>0. UiTypes /\ OverviewInv /\ ReplayInv
  BY DEF ConsoleInv, UiInv
<1>1. UiTypes'
  BY <1>0 DEF UiTypes
<1>2. OverviewInv'
  <2>1. mode' = "timeline" /\ ~Refreshing' => twin' # None
    BY <1>0 DEF OverviewInv, Refreshing
  <2>2. CASE tcur' = tcur
    BY <2>1, <2>2, OverviewHeld
  <2>3. CASE twin.from <= tcur' /\ tcur' <= twin.to
    <3>1. RowsUpTo(twin.samples, twin.tier, twin.from, twin.to, built)'
            <=> RowsUpTo(twin.samples, twin.tier, twin.from, twin.to, built)
      BY RecordingHeld DEF RowsUpTo, RowsBetween
    <3>2. EventsUpTo(twin.events, twin.from, twin.to, built)'
            <=> EventsUpTo(twin.events, twin.from, twin.to, built)
      BY RecordingHeld DEF EventsUpTo
    <3> QED BY <1>0, <2>1, <2>3, <3>1, <3>2, RecordingHeld
            DEF OverviewInv, WithinRows, Inside
  <2> QED BY <2>2, <2>3
<1>3. ReplayInv'
  BY <1>0, ReplayHeld
<1> QED BY <1>1, <1>2, <1>3 DEF UiInv, RefreshInv, Refreshing, ScreenInv

LEMMA EscapeKeepsUi ==
  ASSUME ConsoleInv, pc = "poll", UNCHANGED <<thread, fixed>>, Escape
  PROVE  UiInv'
<1>0. UiTypes /\ OverviewInv /\ ReplayInv
  BY DEF ConsoleInv, UiInv
<1>1. hint' = hint /\ zoom' = zoom /\ job' = job /\ shown' = shown
  BY DEF Escape
<1>2. CASE /\ mode = "live" /\ pc' = "done"
           /\ UNCHANGED <<mode, sel, cursor, rwin, twin, built, tcur>>
  <2>1. sel' \in Maybe(Nat) /\ tcur' \in Nat /\ tcur' = tcur /\ pc' \in {"pass", "done"}
    BY <1>0, <1>2 DEF UiTypes
  <2> QED BY <1>1, <1>2, <2>1, StayingKeepsUi
<1>3. CASE /\ mode = "replay" /\ pc' = "pass"
           /\ IF viewer THEN UNCHANGED <<mode, sel, cursor, rwin>>
              ELSE mode' = "live" /\ sel' = None /\ LeaveReplay
           /\ UNCHANGED <<twin, built, tcur>>
  <2>1. CASE viewer
    <3>1. sel' \in Maybe(Nat) /\ tcur' \in Nat /\ tcur' = tcur /\ pc' \in {"pass", "done"}
      BY <1>0, <1>3, <2>1 DEF UiTypes
    <3> QED BY <1>1, <1>3, <2>1, <3>1, StayingKeepsUi
  <2>2. CASE ~viewer
    <3>1. /\ mode' = "live" /\ sel' = None /\ rwin' = None /\ cursor' = 0
          /\ twin' = twin /\ built' = built /\ tcur' = tcur /\ pc' = "pass"
      BY <1>3, <2>2 DEF LeaveReplay
    <3>2. UiTypes'
      BY <1>0, <1>1, <3>1 DEF UiTypes, Maybe
    <3>3. OverviewInv'
      BY <3>1, OverviewHeld
    <3>4. ReplayInv'
      BY <2>2, <3>1, ReplayHeld
    <3> QED BY <3>1, <3>2, <3>3, <3>4 DEF UiInv, RefreshInv, Refreshing, ScreenInv
  <2> QED BY <2>1, <2>2
<1>4. CASE /\ mode = "timeline" /\ pc' = "pass"
           /\ mode' = IF viewer THEN "replay" ELSE "live"
           /\ LeaveTimeline
           /\ UNCHANGED <<sel, cursor, rwin>>
  <2>1. /\ pc' = "pass" /\ mode' = (IF viewer THEN "replay" ELSE "live")
        /\ twin' = None /\ built' = 0 /\ tcur' = 0
        /\ sel' = sel /\ cursor' = cursor /\ rwin' = rwin
    BY <1>4 DEF LeaveTimeline
  <2>2. UiTypes'
    BY <1>0, <1>1, <2>1 DEF UiTypes, Maybe
  <2>3. OverviewInv'
    BY <2>1, OverviewHeld
  <2>4. ReplayInv'
    BY <1>0, <2>1, ReplayHeld
  <2> QED BY <2>1, <2>2, <2>3, <2>4 DEF UiInv, RefreshInv, Refreshing, ScreenInv
<1> QED BY <1>2, <1>3, <1>4 DEF Escape

\* A seek within replay.
LEMMA ReplaySeekKeepsUi ==
  ASSUME ConsoleInv, pc = "poll", UNCHANGED <<thread, fixed>>, mode = "replay",
         NEW c \in Nat, NEW follow \in {Keep, Drop, To(c)}, BeginSeek(c, follow),
         UNCHANGED <<mode, sel, hint, tcur, zoom, twin, built, rwin, shown>>
  PROVE  UiInv'
<1>0. UiTypes
  BY DEF ConsoleInv, UiInv
<1>1. ReplayInv' /\ RefreshInv' /\ cursor' \in Nat /\ pc' = "seek"
  BY SeekBegins
<1>2. UiTypes'
  BY <1>0, <1>1 DEF UiTypes
<1>3. OverviewInv'
  BY OverviewHeld
<1> QED BY <1>1, <1>2, <1>3 DEF UiInv, ScreenInv

LEMMA KeyKeepsUi ==
  ASSUME ConsoleInv, Key
  PROVE  UiInv'
<1>0. /\ pc = "poll" /\ handle_key /\ UNCHANGED <<thread, fixed>>
      /\ ThreadInv /\ UiTypes /\ OverviewInv /\ ReplayInv
  BY DEF Key, ConsoleInv, UiInv
<1>1. CASE pc' = "done" /\ UNCHANGED <<mode, cursor, sel, hint, tcur, zoom, twin, built,
                                       rwin, job, shown>>
  <2>1. sel' \in Maybe(Nat) /\ tcur' \in Nat /\ tcur' = tcur /\ pc' \in {"pass", "done"}
    BY <1>0, <1>1 DEF UiTypes
  <2> QED BY <1>0, <1>1, <2>1, StayingKeepsUi
<1>2. CASE Escape
  BY <1>0, <1>2, EscapeKeepsUi
<1>3. CASE OpenReplay
  <2>1. None \in Maybe(Nat) /\ enter_replay(None)
    BY <1>3 DEF OpenReplay, Maybe
  <2> QED BY <1>0, <2>1, EnterReplayKeepsUi
<1>4. CASE OpenTimeline
  BY <1>0, <1>4, EnterTimelineKeepsUi DEF OpenTimeline
<1>5. CASE OpenEvent
  <2>1. mode = "live" /\ Selected # None /\ enter_replay(FeedAt(sel).ts)
    BY <1>5 DEF OpenEvent
  <2>2. FeedAt(sel).ts \in Maybe(Nat)
    BY <2>1, SelectedIs DEF Maybe
  <2> QED BY <1>0, <2>1, <2>2, EnterReplayKeepsUi
<1>6. CASE \E d \in {0, 1} : move_story_selection(d)
  <2>1. PICK d \in {0, 1} : move_story_selection(d)
    BY <1>6
  <2>2. /\ pc' = "pass"
        /\ sel' = IF Len(Feed) = 0 THEN None
                  ELSE IF sel = None THEN 0
                  ELSE Lesser(IF d > 0 THEN sel + 1 ELSE SatSub(sel, 1), Len(Feed) - 1)
        /\ UNCHANGED <<mode, cursor, hint, tcur, zoom, twin, built, rwin, job, shown>>
    BY <2>1 DEF move_story_selection
  <2>3. sel' \in Maybe(Nat)
    <3>1. Len(Feed) \in Nat /\ sel \in Maybe(Nat)
      BY <1>0, FeedIs DEF UiTypes
    <3>2. ASSUME Len(Feed) # 0, sel # None
          PROVE  Lesser(IF d > 0 THEN sel + 1 ELSE SatSub(sel, 1), Len(Feed) - 1) \in Nat
      <4>1. sel \in Nat /\ Len(Feed) - 1 \in Nat
        BY <3>1, <3>2 DEF Maybe
      <4>2. SatSub(sel, 1) \in Nat
        <5>1. 1 \in Nat /\ sel \in Nat
          BY <4>1
        <5> QED BY <5>1, SatSubIs
      <4>3. sel + 1 \in Nat
        BY <4>1
      <4> QED BY <4>1, <4>2, <4>3 DEF Lesser
    <3> QED BY <2>2, <3>2 DEF Maybe
  <2>4. tcur' \in Nat /\ tcur' = tcur /\ pc' \in {"pass", "done"}
    BY <1>0, <2>2 DEF UiTypes
  <2> QED BY <1>0, <2>2, <2>3, <2>4, StayingKeepsUi
<1>7. CASE \E d \in Scrubs, back \in BOOLEAN : scrub(d, back)
  <2>1. PICK d \in Scrubs, back \in BOOLEAN : scrub(d, back)
    BY <1>7
  <2> DEFINE target == IF back THEN SatSub(cursor, d) ELSE cursor + d
             c == IF rows = {} THEN target
                  ELSE Clamp(target, earliest_bucket_ms, latest_bucket_ms)
  <2>2. /\ mode = "replay" /\ BeginSeek(c, Keep)
        /\ UNCHANGED <<mode, sel, hint, tcur, zoom, twin, built, rwin, shown>>
    BY <2>1 DEF scrub
  <2>3. target \in Nat
    <3>1. d \in Nat /\ cursor \in Nat
      BY <1>0, Sizes DEF UiTypes
    <3>2. SatSub(cursor, d) \in Nat
      BY <3>1, SatSubIs
    <3>3. cursor + d \in Nat
      BY <3>1
    <3> QED BY <3>2, <3>3
  <2> HIDE DEF target
  <2>4. c \in Nat
    BY <1>0, <2>3, RangeIs, ClampIs
  <2> HIDE DEF c
  <2> QED BY <1>0, <2>2, <2>4, ReplaySeekKeepsUi
<1>8. CASE ToEnd(earliest_bucket_ms) \/ ToEnd(latest_bucket_ms)
  <2>1. PICK c : c \in {earliest_bucket_ms, latest_bucket_ms} /\ ToEnd(c)
    BY <1>8
  <2>2. /\ mode = "replay" /\ rows # {} /\ BeginSeek(c, Keep)
        /\ UNCHANGED <<mode, sel, hint, tcur, zoom, twin, built, rwin, shown>>
    BY <2>1 DEF ToEnd
  <2>3. c \in Nat
    BY <1>0, <2>1, <2>2, RangeIs
  <2> QED BY <1>0, <2>2, <2>3, ReplaySeekKeepsUi
<1>9. CASE JumpToEvent
  <2>1. /\ mode = "replay" /\ Selected # None /\ BeginSeek(Selected.ts, To(Selected.ts))
        /\ UNCHANGED <<mode, sel, hint, tcur, zoom, twin, built, rwin, shown>>
    BY <1>9 DEF JumpToEvent
  <2>2. Selected.ts \in Nat
    BY <2>1, SelectedIs
  <2> QED BY <1>0, <2>1, <2>2, ReplaySeekKeepsUi
<1>10. CASE \E wider \in BOOLEAN : timeline_rezoom(wider)
  <2>1. PICK wider \in BOOLEAN : timeline_rezoom(wider)
    BY <1>10
  <2> DEFINE z == IF wider THEN Lesser(zoom + 1, Len(Rungs)) ELSE Greater(zoom - 1, 1)
  <2>2. /\ mode = "timeline" /\ zoom' = z /\ BeginRefresh(z, tcur, "pass")
        /\ UNCHANGED <<mode, cursor, sel, hint, tcur, twin, built, rwin, shown>>
    BY <2>1 DEF timeline_rezoom
  <2>3. z \in DOMAIN Rungs
    <3>1. DOMAIN Rungs = 1..Len(Rungs) /\ Len(Rungs) \in Nat /\ zoom \in DOMAIN Rungs
      <4>1. Rungs \in Seq([span : Nat, tier : Tiers])
        BY Sizes
      <4> QED BY <1>0, <4>1 DEF UiTypes
    <3> QED BY <3>1 DEF Lesser, Greater
  <2> HIDE DEF z
  <2>4. tcur \in Maybe(Nat)
    BY <1>0 DEF UiTypes, Maybe
  <2>5. RefreshInv' /\ Refreshing' /\ pc' = "lock"
    BY <1>0, <2>2, <2>3, <2>4, RefreshBegins
  <2>6. UiTypes'
    BY <1>0, <2>2, <2>3, <2>5 DEF UiTypes
  <2>7. OverviewInv'
    BY <1>0, <2>2, <2>5, OverviewHeld
  <2>8. ReplayInv'
    BY <1>0, <2>2, <2>5, ReplayHeld
  <2> QED BY <2>5, <2>6, <2>7, <2>8 DEF UiInv, ScreenInv
<1>11. CASE \/ mode = "timeline" /\ \E cols \in Jumps, back \in BOOLEAN : timeline_step(cols, back)
            \/ mode = "timeline" /\ MoveCursor(twin.from)
            \/ mode = "timeline" /\ MoveCursor(twin.to)
  <2>1. twin \in Window /\ twin.from <= twin.to /\ mode = "timeline"
    BY <1>0, <1>11 DEF OverviewInv, Refreshing, UiTypes, Maybe
  <2>2. twin.from \in Nat /\ twin.to \in Nat /\ tcur \in Nat
    BY <1>0, <2>1 DEF Window, UiTypes
  <2>3. PICK c \in Nat : MoveCursor(c) /\ twin.from <= c /\ c <= twin.to
    <3>1. CASE \E cols \in Jumps, back \in BOOLEAN : timeline_step(cols, back)
      <4>1. PICK cols \in Jumps, back \in BOOLEAN : timeline_step(cols, back)
        BY <3>1
      <4> DEFINE span == SpanOf(twin.from, twin.to)
                 wide == Greater(span \div Cols, 1)
                 delta == cols * wide
                 x == IF back THEN SatSub(tcur, delta) ELSE tcur + delta
      <4>2. span \in Nat
        <5>1. SatSub(twin.to, twin.from) \in Nat
          BY <2>2, SatSubIs
        <5> QED BY <5>1 DEF SpanOf, Greater
      <4> HIDE DEF span
      <4>3. wide \in Nat
        <5>1. span \div Cols \in Nat
          BY <4>2, Sizes, DivMod
        <5> QED BY <5>1 DEF Greater
      <4> HIDE DEF wide
      <4>4. delta \in Nat
        <5>1. cols \in Nat
          BY Sizes
        <5> QED BY <4>3, <5>1
      <4> HIDE DEF delta
      <4>5. x \in Nat
        <5>1. SatSub(tcur, delta) \in Nat
          BY <2>2, <4>4, SatSubIs
        <5> QED BY <2>2, <4>4, <5>1
      <4>6. MoveCursor(Clamp(x, twin.from, twin.to))
        BY <4>1 DEF timeline_step, CursorIn, x, delta, wide, span
      <4> HIDE DEF x
      <4>7. /\ Clamp(x, twin.from, twin.to) \in Nat
            /\ twin.from <= Clamp(x, twin.from, twin.to)
            /\ Clamp(x, twin.from, twin.to) <= twin.to
        BY <2>1, <2>2, <4>5, ClampIs
      <4> QED BY <4>6, <4>7
    <3>2. CASE MoveCursor(twin.from)
      BY <2>1, <2>2, <3>2
    <3>3. CASE MoveCursor(twin.to)
      BY <2>1, <2>2, <3>3
    <3> QED BY <1>11, <3>1, <3>2, <3>3
  <2>4. /\ tcur' = c /\ pc' = "pass"
        /\ UNCHANGED <<mode, cursor, sel, hint, zoom, twin, built, rwin, job, shown>>
    BY <2>3 DEF MoveCursor
  <2> QED BY <1>0, <2>3, <2>4, StayingKeepsUi DEF UiTypes
<1>12. CASE DrillDown
  <2>1. tcur \in Maybe(Nat) /\ enter_replay(tcur)
    BY <1>0, <1>12 DEF DrillDown, UiTypes, Maybe
  <2> QED BY <1>0, <2>1, EnterReplayKeepsUi
<1> QED BY <1>0, <1>1, <1>2, <1>3, <1>4, <1>5, <1>6, <1>7, <1>8, <1>9, <1>10, <1>11, <1>12
        DEF handle_key

\* Whatever the thread does and whichever key is pressed.
LEMMA ConsoleStart == Init => ConsoleInv
BY ThreadStart, UiStart DEF ConsoleInv

LEMMA ConsoleStep == ConsoleInv /\ [Next]_vars => ConsoleInv'
<1> SUFFICES ASSUME ConsoleInv, [Next]_vars
             PROVE  ConsoleInv'
  OBVIOUS
<1>1. ThreadInv'
  BY ThreadStep DEF ConsoleInv
<1>2. UiInv'
  <2>1. CASE Thread
    BY <2>1, ThreadKeepsUi
  <2>2. CASE Loop
    BY <2>2, LoopKeepsUi
  <2>3. CASE Key
    BY <2>3, KeyKeepsUi
  <2>4. CASE UNCHANGED vars
    <3>1. /\ UNCHANGED <<thread, fixed>>
          /\ pc' = pc /\ mode' = mode /\ cursor' = cursor /\ sel' = sel /\ hint' = hint
          /\ tcur' = tcur /\ zoom' = zoom /\ twin' = twin /\ built' = built /\ rwin' = rwin
          /\ job' = job /\ shown' = shown
      BY <2>4 DEF vars, ui
    <3>2. UiTypes' /\ ReplayInv'
      BY <3>1, RecordingHeld DEF ConsoleInv, UiInv, UiTypes, ReplayInv, WithinRows, OnTens
    <3>3. OverviewInv'
      <4>1. mode' = "timeline" /\ ~Refreshing' => twin' # None
        BY <3>1 DEF ConsoleInv, UiInv, OverviewInv, Refreshing
      <4> QED BY <3>1, <4>1, OverviewHeld
    <3>4. RefreshInv'
      BY <3>1, RecordingHeld
         DEF ConsoleInv, UiInv, RefreshInv, Refreshing, RideAlong, RowsUpTo, RowsBetween, WithinRows,
             Ends, recorded_end, Buckets, latest_bucket_ms
    <3>5. ScreenInv'
      <4>1. Selected' = Selected
        BY <3>1, RecordingHeld, SelectedIsKept
      <4> QED BY <3>1, <4>1, RecordingHeld DEF ConsoleInv, UiInv, ScreenInv, Back
    <3> QED BY <3>2, <3>3, <3>4, <3>5 DEF UiInv
  <2> QED BY <2>1, <2>2, <2>3, <2>4 DEF Next
<1> QED BY <1>1, <1>2 DEF ConsoleInv

\* TypeOK: thread, recording and interface keep their types, the feed its cap
\* and the log its bound, whatever is pressed and however a tick falls.
THEOREM ConsoleTypes == Spec => []TypeOK
<1>1. ConsoleInv => TypeOK
  BY DEF ConsoleInv, ThreadInv, ThreadTypes, InTime, Mirrored, UiInv, UiTypes, TypeOK
<1> QED BY <1>1, ConsoleStart, ConsoleStep, PTL DEF Spec

-----------------------------------------------------------------------------
(* Where the user is looking *)

\* The steps that leave the loop where it was decide nothing.
LEMMA LoopStays ==
  ASSUME Thread
  PROVE  pc' = pc /\ mode' = mode
<1>1. CASE FoldFrame
  BY <1>1 DEF FoldFrame, ui
<1>2. CASE \E d \in Steps, answers, due \in BOOLEAN, th \in Readings[path], k \in Told,
              failed \in Failures :
             Persist(now + d, answers, th, k, due, failed)
  BY <1>2 DEF Persist, ui
<1> QED BY <1>1, <1>2 DEF Thread

\* Each key leaves the poll for a pass, a query or the end.
LEMMA KeysLead ==
  ASSUME ConsoleInv, Key
  PROVE  /\ pc = "poll"
         /\ pc' = "seek" /\ job'.follow \notin {Keep, Drop} /\ mode # "timeline" =>
              Selected # None /\ cursor' = Selected.ts
         /\ mode' # mode /\ pc' = "pass" => mode' = Back /\ (viewer => mode' # "live")
<1>0. pc = "poll" /\ handle_key
  BY DEF Key
<1>1. CASE pc' = "done" /\ UNCHANGED <<mode, cursor, sel, hint, tcur, zoom, twin, built,
                                       rwin, job, shown>>
  BY <1>0, <1>1
<1>2. CASE Escape
  <2>1. pc' \in {"pass", "done"} /\ (mode' # mode => mode' = Back /\ (viewer => mode' # "live"))
    BY <1>2 DEF Escape, Back
  <2> QED BY <1>0, <2>1
<1>3. ASSUME NEW c \in Maybe(Nat), enter_replay(c),
             mode = "timeline" \/ c = None \/ (Selected # None /\ c = Selected.ts)
      PROVE  /\ pc' = "seek" /\ job'.follow \notin {Keep, Drop} /\ mode # "timeline" =>
                  Selected # None /\ cursor' = Selected.ts
             /\ mode' # mode /\ pc' = "pass" => mode' = Back /\ (viewer => mode' # "live")
  <2>1. CASE DeadKey
    BY <2>1 DEF DeadKey
  <2>2. CASE ~DeadKey
    <3> DEFINE to == IF c # None THEN c
                     ELSE IF latest_bucket_ms # None THEN latest_bucket_ms ELSE now
               follow == IF c # None THEN To(c) ELSE Drop
    <3>1. BeginSeek(to, follow)
      BY <1>3, <2>2 DEF enter_replay
    <3>2. pc' = "seek" /\ cursor' = to /\ job' = [op |-> "replay", cur |-> to, follow |-> follow]
      BY <3>1 DEF BeginSeek, Seek
    <3>3. job'.follow = follow
      BY <3>2
    <3>4. c = None => job'.follow \in {Keep, Drop}
      BY <3>3
    <3>5. c # None => cursor' = c
      BY <3>2
    <3> QED BY <1>3, <3>2, <3>4, <3>5
  <2> QED BY <2>1, <2>2
<1>4. CASE OpenReplay
  BY <1>0, <1>3, <1>4 DEF OpenReplay, Maybe
<1>5. CASE OpenTimeline
  BY <1>0, <1>5 DEF OpenTimeline, enter_timeline, DeadKey, BeginRefresh
<1>6. CASE OpenEvent
  <2>1. mode = "live" /\ Selected # None /\ enter_replay(FeedAt(sel).ts)
    BY <1>6 DEF OpenEvent
  <2>2. FeedAt(sel) = Selected /\ Selected.ts \in Nat
    BY <2>1, SelectedIs
  <2> QED BY <1>0, <1>3, <2>1, <2>2 DEF Maybe
<1>7. CASE \E d \in {0, 1} : move_story_selection(d)
  BY <1>0, <1>7 DEF move_story_selection
<1>8. ASSUME NEW c, NEW follow, BeginSeek(c, follow), mode' = mode,
             follow \in {Keep, Drop} \/ (Selected # None /\ c = Selected.ts)
      PROVE  /\ pc' = "seek" /\ job'.follow \notin {Keep, Drop} /\ mode # "timeline" =>
                  Selected # None /\ cursor' = Selected.ts
             /\ mode' # mode /\ pc' = "pass" => mode' = Back /\ (viewer => mode' # "live")
  <2>1. cursor' = c /\ job' = [op |-> "replay", cur |-> c, follow |-> follow]
    BY <1>8 DEF BeginSeek, Seek
  <2>2. job'.follow = follow
    BY <2>1
  <2> QED BY <1>8, <2>1, <2>2
<1>9. CASE \E d \in Scrubs, back \in BOOLEAN : scrub(d, back)
  <2>1. PICK d \in Scrubs, back \in BOOLEAN : scrub(d, back)
    BY <1>9
  <2>2. PICK c : BeginSeek(c, Keep) /\ mode' = mode
    BY <2>1, Zenon DEF scrub
  <2> QED BY <1>0, <1>8, <2>2
<1>10. CASE ToEnd(earliest_bucket_ms) \/ ToEnd(latest_bucket_ms)
  <2>1. PICK c : BeginSeek(c, Keep) /\ mode' = mode
    BY <1>10, Zenon DEF ToEnd
  <2> QED BY <1>0, <1>8, <2>1
<1>11. CASE JumpToEvent
  <2>1. Selected # None /\ BeginSeek(Selected.ts, To(Selected.ts)) /\ mode' = mode
    BY <1>11 DEF JumpToEvent
  <2> QED BY <1>0, <1>8, <2>1
<1>12. CASE \E wider \in BOOLEAN : timeline_rezoom(wider)
  BY <1>0, <1>12 DEF timeline_rezoom, BeginRefresh
<1>13. CASE \/ mode = "timeline" /\ \E cols \in Jumps, back \in BOOLEAN : timeline_step(cols, back)
            \/ mode = "timeline" /\ MoveCursor(twin.from)
            \/ mode = "timeline" /\ MoveCursor(twin.to)
  BY <1>0, <1>13 DEF timeline_step, MoveCursor
<1>14. CASE DrillDown
  <2>1. mode = "timeline" /\ enter_replay(tcur) /\ tcur \in Maybe(Nat)
    BY <1>14 DEF DrillDown, ConsoleInv, UiInv, UiTypes, Maybe
  <2> QED BY <1>0, <1>3, <2>1
<1> QED BY <1>0, <1>1, <1>2, <1>4, <1>5, <1>6, <1>7, <1>9, <1>10, <1>11, <1>12, <1>13, <1>14
        DEF handle_key

LEMMA EdgeStep == ConsoleInv /\ [Next]_vars => EdgeRides
<1> SUFFICES ASSUME ConsoleInv, [Next]_vars, pc = "events", pc' = "draw"
             PROVE  IF tcur = twin.to THEN tcur' = twin'.to
                    ELSE twin'.from <= tcur => tcur' = tcur
  BY DEF EdgeRides
<1>1. ReadWindow
  BY LoopStays DEF Next, Loop, Tick, ReadSeq, ReadRows, ReadReplay, Draw, Idle, Key, vars, ui
<1>2. /\ tcur' = Clamp(IF job.cur = None THEN job.to ELSE job.cur, job.from, job.to)
      /\ twin' = [from |-> job.from, to |-> job.to, tier |-> job.tier, clamped |-> job.clamped,
                  samples |-> job.samples, events |-> events_between(job.from, job.to)]
      /\ job.then = "draw"
  BY <1>1 DEF ReadWindow, CursorIn
<1>3. twin'.from = job.from /\ twin'.to = job.to
  BY <1>2
<1>4. /\ job \in TimelineQuery /\ job.from <= job.to
      /\ twin # None /\ twin.to <= job.to /\ job.cur = RideAlong
  BY <1>2 DEF ConsoleInv, UiInv, RefreshInv, Refreshing
<1>5. job.from \in Nat /\ job.to \in Nat
  BY <1>4 DEF TimelineQuery
<1>6. twin \in Window /\ tcur \in Nat /\ tcur <= twin.to
  BY <1>4 DEF ConsoleInv, UiInv, UiTypes, OverviewInv, Maybe
<1>7. twin.to \in Nat
  BY <1>6 DEF Window
<1>8. CASE tcur = twin.to
  <2>1. job.cur = None
    BY <1>4, <1>7, <1>8 DEF RideAlong
  <2> QED BY <1>2, <1>3, <1>4, <1>5, <1>8, <2>1, ClampIs
<1>9. CASE tcur # twin.to
  <2>1. tcur < twin.to
    BY <1>6, <1>7, <1>9
  <2>2. job.cur = tcur /\ tcur # None
    BY <1>4, <1>6, <2>1, NoneIsApart DEF RideAlong
  <2>3. tcur <= job.to
    BY <1>4, <1>5, <1>6, <1>7
  <2>4. tcur' = Clamp(tcur, job.from, job.to)
    BY <1>2, <2>2
  <2>5. job.from <= tcur => Clamp(tcur, job.from, job.to) = tcur
    BY <1>4, <1>5, <1>6, <2>3, ClampIs
  <2> QED BY <1>3, <1>9, <2>4, <2>5
<1> QED BY <1>8, <1>9

LEMMA EnterStep == ConsoleInv /\ [Next]_vars => EnterOpensWhatIsShown
<1> SUFFICES ASSUME ConsoleInv, [Next]_vars, pc = "poll", pc' = "seek",
                    job'.follow \notin {Keep, Drop}, mode # "timeline",
                    mode = "live" => tick_seq = shown.seq
             PROVE  shown.event # None /\ cursor' = shown.event.ts
  BY DEF EnterOpensWhatIsShown, EntersAnEvent
<1>1. Key
  BY LoopStays DEF Next, Loop, Tick, ReadSeq, ReadRows, ReadWindow, ReadReplay, Draw, Idle, vars, ui
<1>2. shown.event = Selected
  BY DEF ConsoleInv, UiInv, ScreenInv
<1> QED BY <1>1, <1>2, KeysLead

LEMMA FindStep == ConsoleInv /\ [Next]_vars => LiveEventIsFound
<1> SUFFICES ASSUME ConsoleInv, [Next]_vars, pc = "seek", pc' = "pass",
                    NEW i \in DOMAIN feed, feed[i].held = "disk", feed[i].ts \in Follows
             PROVE  sel' # None
  BY DEF LiveEventIsFound
<1>1. ReadReplay
  BY LoopStays DEF Next, Loop, Tick, ReadSeq, ReadRows, ReadWindow, Draw, Idle, Key, vars, ui
<1>2. /\ cursor \in Nat /\ ThreadInv /\ job.follow \in {Keep, Drop, To(cursor)}
  BY DEF ConsoleInv, UiInv, UiTypes, ReplayInv
<1>3. job.follow # Keep /\ job.follow = {cursor} /\ feed[i].ts = cursor /\ Follows = {cursor}
  BY <1>2 DEF Follows, Keep, Drop, To
<1> DEFINE from == SatSub(cursor, HalfWindow)
           to == cursor + HalfWindow
           evs == events_between(from, to)
<1>4. sel' = PositionOf(evs, cursor)
  <2>1. job.follow # Drop
    BY <1>3 DEF Drop
  <2> QED BY <1>1, <1>3, <2>1 DEF ReadReplay
<1>5. from \in Nat /\ to \in Nat /\ from <= cursor /\ cursor <= to
  <2>1. HalfWindow \in Nat
    BY Sizes
  <2> QED BY <1>2, <2>1, SatSubIs
<1>6. PICK j \in DOMAIN log : log[j].ts = cursor
  BY <1>2, <1>3 DEF ThreadInv, Mirrored, Logged
<1> HIDE DEF from, to
<1>7. evs \in Seq(EventType) /\ \E m \in DOMAIN evs : evs[m] = log[j]
  BY <1>2, <1>5, <1>6, EventsBetweenAre
<1> QED BY <1>2, <1>4, <1>6, <1>7, PositionIs

LEMMA BackStep == ConsoleInv /\ [Next]_vars => EscapeGoesBack
<1> SUFFICES ASSUME ConsoleInv, [Next]_vars, pc = "poll", mode' # mode, pc' = "pass"
             PROVE  shown.back = mode' /\ (viewer => mode' # "live")
  BY DEF EscapeGoesBack
<1>1. Key
  BY LoopStays DEF Next, Loop, Tick, ReadSeq, ReadRows, ReadWindow, ReadReplay, Draw, Idle, vars, ui
<1>2. shown.back = Back
  BY DEF ConsoleInv, UiInv, ScreenInv
<1> QED BY <1>1, <1>2, KeysLead

\* LookingIsHeld: a refresh leaves the overview's cursor at its moment or on
\* the edge, Enter opens the highlighted event and finds it in the recording -
\* unless its write failed, and whatever other writes did -, Esc goes where the
\* footer said, in a file never to a live view.
THEOREM LookingStaysHeld == Spec => LookingIsHeld
<1>1. ConsoleInv /\ [Next]_vars
        => [EdgeRides /\ EnterOpensWhatIsShown /\ LiveEventIsFound /\ EscapeGoesBack]_vars
  BY EdgeStep, EnterStep, FindStep, BackStep
<1> QED BY <1>1, ConsoleStart, ConsoleStep, PTL DEF Spec, LookingIsHeld

-----------------------------------------------------------------------------
(* The window on screen *)

\* A pane that skips rows to reach one shows it.
LEMMA PaneShows ==
  ASSUME NEW row \in Nat
  PROVE  LET top == Skip(row, StoryRows) IN top <= row /\ row < top + StoryRows
<1>1. StoryRows \in Nat /\ StoryRows > 0
  BY Sizes
<1>2. SatSub(StoryRows, 1) = StoryRows - 1
  BY <1>1 DEF SatSub
<1>3. Skip(row, StoryRows) = IF row >= StoryRows - 1 THEN row - (StoryRows - 1) ELSE 0
  BY <1>2 DEF Skip, SatSub
<1> QED BY <1>1, <1>3

\* The selected event of a story pane is in it, in replay the cursor's row else.
LEMMA SelectionShows == ConsoleInv => SelectionIsVisible
<1> SUFFICES ASSUME ConsoleInv, Settled, mode # "timeline",
                    NEW row \in IF Selected # None THEN {RowOf(sel)}
                                ELSE IF mode = "replay" /\ sel = None THEN {Marker} ELSE {}
             PROVE  PaneTop <= row /\ row < PaneTop + StoryRows
  BY DEF SelectionIsVisible
<1>1. mode \in {"live", "replay"}
  BY DEF ConsoleInv, UiInv, UiTypes
<1>2. Marker \in Nat
  <2>1. Feed \in Seq(EventType)
    BY FeedIs
  <2> DEFINE S == {i \in DOMAIN Feed : Feed[i].ts <= cursor}
  <2>2. S \in SUBSET Nat /\ Len(Feed) \in Nat /\ \A i \in S : i <= Len(Feed)
    BY <2>1
  <2>3. Marker = Cardinality(S)
    BY DEF Marker, marker_at
  <2> HIDE DEF S
  <2>4. IsFiniteSet(S)
    BY <2>2, FS_BoundedSetOfNaturals
  <2> QED BY <2>3, <2>4, FS_CardinalityType
<1>3. CASE Selected # None
  <2>1. sel \in Nat /\ sel # None /\ row = RowOf(sel)
    BY <1>3, SelectedIs, NoneIsApart
  <2>2. CASE mode = "live"
    <3>1. row = sel /\ PaneTop = Skip(sel, StoryRows)
      BY <2>1, <2>2 DEF RowOf, PaneTop
    <3> QED BY <2>1, <3>1, PaneShows
  <2>3. CASE mode = "replay"
    <3>1. row = ReplayRow(sel, Marker) /\ PaneTop = Skip(ReplayRow(sel, Marker), StoryRows)
      BY <2>1, <2>3 DEF RowOf, PaneTop, ReplayFocus
    <3>2. row \in Nat
      BY <1>2, <2>1, <3>1 DEF ReplayRow
    <3> QED BY <3>1, <3>2, PaneShows
  <2> QED BY <1>1, <2>2, <2>3
<1>4. CASE Selected = None
  <2>1. mode = "replay" /\ sel = None /\ row = Marker
    BY <1>4
  <2>2. PaneTop = Skip(Marker, StoryRows)
    BY <2>1 DEF PaneTop, ReplayFocus
  <2> QED BY <1>2, <2>1, <2>2, PaneShows
<1> QED BY <1>3, <1>4

\* The overview holds what was on disk when it read its tick, its cursor is
\* inside, and a file's overview reaches the end of the recording.
LEMMA OverviewShows == ConsoleInv => WindowHoldsItsTick /\ CursorInWindow /\ ViewerShowsItsEnd
<1> SUFFICES ASSUME ConsoleInv
             PROVE  WindowHoldsItsTick /\ CursorInWindow /\ ViewerShowsItsEnd
  OBVIOUS
<1>0. ThreadInv /\ OverviewInv
  BY DEF ConsoleInv, UiInv
<1>1. WindowHoldsItsTick
  <2>1. SUFFICES ASSUME mode = "timeline", ~Refreshing
                 PROVE  /\ \A r \in RowsBetween(twin.tier, twin.from, twin.to) :
                             r.born <= built => r \in twin.samples
                        /\ \A i \in DOMAIN log :
                             log[i].born <= built /\ twin.from <= log[i].ts /\ log[i].ts <= twin.to
                             => \E j \in DOMAIN twin.events : twin.events[j] = log[i]
    BY DEF WindowHoldsItsTick
  <2>2. /\ RowsUpTo(twin.samples, twin.tier, twin.from, twin.to, built)
        /\ EventsUpTo(twin.events, twin.from, twin.to, built)
    BY <1>0, <2>1 DEF OverviewInv
  <2> QED BY <2>2 DEF RowsUpTo, EventsUpTo
<1>2. CursorInWindow
  BY <1>0 DEF CursorInWindow, Overview, OverviewInv
<1>3. ViewerShowsItsEnd
  <2>1. SUFFICES ASSUME viewer, twin # None
                 PROVE  /\ \A r \in rows : r.tier = "10s" => r.bucket + TEN_SEC <= twin.to
                        /\ \A i \in DOMAIN log : log[i].ts <= twin.to
    BY DEF ViewerShowsItsEnd, Overview
  <2>2. recorded_end # None => twin.to = recorded_end
    BY <1>0, <2>1 DEF OverviewInv, Ends
  <2>3. CASE recorded_end # None
    BY <1>0, <2>2, <2>3, EndIs
  <2>4. CASE recorded_end = None
    BY <1>0, <2>4, EndIs
  <2> QED BY <2>3, <2>4
<1> QED BY <1>1, <1>2, <1>3

\* WindowIsCurrent: what is on screen holds its tick, its cursor, the selected
\* event and, in a file, the end of the recording, for every zoom ladder, pane
\* and interleaving of query and tick.
THEOREM WindowStaysCurrent == Spec => []WindowIsCurrent
<1>1. ConsoleInv => WindowIsCurrent
  BY SelectionShows, OverviewShows DEF WindowIsCurrent
<1> QED BY <1>1, ConsoleStart, ConsoleStep, PTL DEF Spec

-----------------------------------------------------------------------------
(* The trace of the replay charts *)

\* How many of a set's numbers are not above one of them.
RankIn(K, k) == Cardinality({x \in K : x <= k})

\* Ranks grow with the number, and every rank up to the set's size is taken.
LEMMA RanksAre ==
  ASSUME NEW K \in SUBSET Nat, NEW b \in Nat, Under(K, b)
  PROVE  /\ IsFiniteSet(K) /\ Cardinality(K) \in Nat
         /\ \A k \in K : RankIn(K, k) \in 1..Cardinality(K)
         /\ \A k, l \in K : k < l => RankIn(K, k) < RankIn(K, l)
         /\ \A i \in 1..Cardinality(K) : \E k \in K : RankIn(K, k) = i
<1> DEFINE n == Cardinality(K)
           Below(k) == {x \in K : x <= k}
<1>1. IsFiniteSet(K)
  BY FS_BoundedSetOfNaturals DEF Under
<1>2. n \in Nat
  BY <1>1, FS_CardinalityType
<1>3. \A k \in K : /\ IsFiniteSet(Below(k)) /\ RankIn(K, k) = Cardinality(Below(k))
                   /\ Cardinality(Below(k)) \in Nat /\ Cardinality(Below(k)) <= n
  <2>1. TAKE k \in K
  <2>2. Below(k) \in SUBSET K
    OBVIOUS
  <2>3. IsFiniteSet(Below(k)) /\ Cardinality(Below(k)) <= n
    BY <1>1, <2>2, FS_Subset
  <2> QED BY <2>3, FS_CardinalityType DEF RankIn
<1>4. \A k \in K : RankIn(K, k) \in 1..n
  <2>1. TAKE k \in K
  <2>2. k \in Below(k)
    OBVIOUS
  <2>3. Cardinality(Below(k)) # 0
    <3> HIDE DEF Below
    <3> QED BY <1>3, <2>2, FS_EmptySet
  <2> QED BY <1>2, <1>3, <2>3
<1>5. \A k, l \in K : k < l => RankIn(K, k) < RankIn(K, l)
  <2>1. SUFFICES ASSUME NEW k \in K, NEW l \in K, k < l
                 PROVE  RankIn(K, k) < RankIn(K, l)
    OBVIOUS
  <2>2. Below(k) \in SUBSET Below(l) /\ l \in Below(l) /\ l \notin Below(k)
    <3>1. \A x \in K : x \in Nat
      OBVIOUS
    <3>2. \A x \in K : x <= k => x <= l
      BY <2>1, <3>1
    <3>3. l <= l /\ ~(l <= k)
      BY <2>1, <3>1
    <3> QED BY <3>2, <3>3
  <2>3. Cardinality(Below(k)) <= Cardinality(Below(l))
        /\ Cardinality(Below(k)) # Cardinality(Below(l))
    <3> HIDE DEF Below
    <3> QED BY <1>3, <2>2, FS_Subset
  <2> QED BY <1>3, <2>3
<1>6. \A i \in 1..n : \E k \in K : RankIn(K, k) = i
  <2> DEFINE f == [k \in K |-> RankIn(K, k)]
  <2>1. \A k, l \in K : RankIn(K, k) = RankIn(K, l) => k = l
    <3>1. SUFFICES ASSUME NEW k \in K, NEW l \in K, RankIn(K, k) = RankIn(K, l)
                   PROVE  k = l
      BY Zenon
    <3>2. RankIn(K, k) \in Nat /\ RankIn(K, l) \in Nat
      BY <1>3
    <3>3. CASE k < l
      BY <1>5, <3>1, <3>2, <3>3
    <3>4. CASE l < k
      BY <1>5, <3>1, <3>2, <3>4
    <3>5. k \in Nat /\ l \in Nat
      OBVIOUS
    <3> QED BY <3>1, <3>3, <3>4, <3>5
  <2>2. f \in Injection(K, 1..n)
    BY <1>4, <2>1 DEF Injection, IsInjective
  <2>3. IsFiniteSet(1..n) /\ Cardinality(1..n) = n
    BY <1>2, FS_Interval
  <2>4. f \in Surjection(K, 1..n)
    BY <2>2, <2>3, FS_Injection
  <2> QED BY <2>4 DEF Surjection
<1> QED BY <1>1, <1>2, <1>4, <1>5, <1>6

\* The points of a chart are the recorded buckets, each once, in time order.
LEMMA PointsAre ==
  ASSUME NEW samples \in SUBSET Rollup, NEW b \in Nat, \A r \in samples : r.bucket <= b
  PROVE  LET pts == Points(samples)
             n   == Cardinality({r.bucket : r \in samples})
         IN  /\ n \in Nat /\ pts \in [1..n -> Nat]
             /\ \A i \in 1..n : \E r \in samples : pts[i] = r.bucket
             /\ \A r \in samples : \E i \in 1..n : pts[i] = r.bucket
             /\ \A i, j \in 1..n : i < j => pts[i] < pts[j]
<1> DEFINE K == {r.bucket : r \in samples}
           n == Cardinality(K)
           pts == Points(samples)
<1>1. K \in SUBSET Nat /\ Under(K, b)
  BY DEF Rollup, Under
<1>2. pts = [i \in 1..n |-> CHOOSE k \in K : RankIn(K, k) = i]
  BY Zenon DEF Points, RankIn
<1>3. /\ \A k \in K : \E r \in samples : k = r.bucket
      /\ \A r \in samples : r.bucket \in K
  OBVIOUS
<1> HIDE DEF K, pts
<1>4. /\ n \in Nat
      /\ \A k \in K : RankIn(K, k) \in 1..n
      /\ \A k, l \in K : k < l => RankIn(K, k) < RankIn(K, l)
      /\ \A i \in 1..n : \E k \in K : RankIn(K, k) = i
  BY <1>1, RanksAre
<1>5. \A i \in 1..n : pts[i] \in K /\ RankIn(K, pts[i]) = i
  BY <1>2, <1>4
<1>6. pts \in [1..n -> Nat]
  BY <1>1, <1>2, <1>5
<1>7. \A i, j \in 1..n : i < j => pts[i] < pts[j]
  <2>1. SUFFICES ASSUME NEW i \in 1..n, NEW j \in 1..n, i < j
                 PROVE  pts[i] < pts[j]
    OBVIOUS
  <2>2. pts[i] \in K /\ pts[j] \in K /\ pts[i] \in Nat /\ pts[j] \in Nat
    BY <1>5, <1>6
  <2>3. ~(pts[j] < pts[i]) /\ pts[i] # pts[j]
    <3>1. RankIn(K, pts[i]) = i /\ RankIn(K, pts[j]) = j
      BY <1>5
    <3> QED BY <1>4, <2>1, <2>2, <3>1
  <2> QED BY <2>2, <2>3
<1>8. \A r \in samples : \E i \in 1..n : pts[i] = r.bucket
  <2>1. SUFFICES ASSUME NEW k \in K
                 PROVE  \E i \in 1..n : pts[i] = k
    BY <1>3
  <2> DEFINE i == RankIn(K, k)
  <2>2. i \in 1..n
    BY <1>4
  <2>3. pts[i] \in K /\ RankIn(K, pts[i]) = i
    BY <1>5, <2>2
  <2>4. pts[i] \in Nat /\ k \in Nat
    BY <1>1, <2>3
  <2>5. ~(pts[i] < k) /\ ~(k < pts[i])
    <3>1. i \in Nat
      BY <2>2
    <3> QED BY <1>4, <2>3, <3>1
  <2> QED BY <2>2, <2>4, <2>5
<1> QED BY <1>3, <1>4, <1>5, <1>6, <1>7, <1>8 DEF K, pts

\* A bucket of the 10s tier is drawn from its start to its end, whatever the
\* points beside it: buckets as close as the bridge allows touch.
LEMMA RunsAre ==
  ASSUME NEW samples \in SUBSET Rollup, NEW b \in Nat,
         \A r \in samples : r.bucket <= b /\ r.bucket % TEN_SEC = 0
  PROVE  LET runs == step_segments(Points(samples), TEN_SEC)
         IN  /\ \A h \in runs : \E r \in samples :
                  h.from = r.bucket /\ h.to = r.bucket + TEN_SEC
             /\ \A r \in samples : \E h \in runs :
                  h.from = r.bucket /\ h.to = r.bucket + TEN_SEC
<1> DEFINE pts == Points(samples)
           n == Cardinality({r.bucket : r \in samples})
           End(i) == IF i < Len(pts) /\ ~StartsSegment(pts, i + 1)
                     THEN pts[i + 1] ELSE pts[i] + TEN_SEC
           runs == step_segments(pts, TEN_SEC)
<1>1. /\ n \in Nat /\ pts \in [1..n -> Nat]
      /\ \A i \in 1..n : \E r \in samples : pts[i] = r.bucket
      /\ \A r \in samples : \E i \in 1..n : pts[i] = r.bucket
      /\ \A i, j \in 1..n : i < j => pts[i] < pts[j]
  BY PointsAre
<1> HIDE DEF pts, n
<1>2. DOMAIN pts = 1..n /\ Len(pts) = n
  BY <1>1
<1>3. \A i \in 1..n : pts[i] \in Nat /\ pts[i] % TEN_SEC = 0
  BY <1>1
<1>4. \A i \in 1..n : End(i) = pts[i] + TEN_SEC
  <2>1. TAKE i \in 1..n
  <2>2. CASE i < n /\ ~StartsSegment(pts, i + 1)
    <3>1. i + 1 \in 1..n /\ i < i + 1 /\ i + 1 # 1 /\ (i + 1) - 1 = i
      BY <1>1, <2>2
    <3>2. ~(pts[i + 1] > pts[i] + GAP_BRIDGE_S)
      BY <2>2, <3>1 DEF StartsSegment
    <3>3. PICK x \in Nat, y \in Nat : x = pts[i] /\ y = pts[i + 1]
      BY <1>3, <3>1
    <3>4. x < y /\ x % 10 = 0 /\ y % 10 = 0 /\ ~(y > x + 15)
      BY <1>1, <1>3, <3>1, <3>2, <3>3 DEF TEN_SEC, GAP_BRIDGE_S
    <3>5. y = x + 10
      BY <3>4
    <3>6. End(i) = pts[i + 1]
      BY <1>2, <2>2
    <3> QED BY <3>3, <3>5, <3>6 DEF TEN_SEC
  <2>3. CASE ~(i < n /\ ~StartsSegment(pts, i + 1))
    BY <1>2, <2>3
  <2> QED BY <2>2, <2>3
<1>5. runs = {[from |-> pts[i], to |-> End(i)] : i \in 1..n}
  BY <1>2 DEF step_segments
<1> HIDE DEF runs, End
<1>6. \A h \in runs : \E r \in samples : h.from = r.bucket /\ h.to = r.bucket + TEN_SEC
  <2>1. TAKE h \in runs
  <2>2. PICK i \in 1..n : h = [from |-> pts[i], to |-> End(i)]
    BY <1>5
  <2>3. h.from = pts[i] /\ h.to = pts[i] + TEN_SEC
    BY <1>4, <2>2
  <2> QED BY <1>1, <2>3
<1>7. \A r \in samples : \E h \in runs : h.from = r.bucket /\ h.to = r.bucket + TEN_SEC
  <2>1. TAKE r \in samples
  <2>2. PICK i \in 1..n : pts[i] = r.bucket
    BY <1>1
  <2>3. [from |-> pts[i], to |-> End(i)] \in runs
    BY <1>5
  <2> QED BY <1>4, <2>2, <2>3
<1> QED BY <1>6, <1>7 DEF runs, pts

\* Where the trace is: over the recorded buckets, in both styles.
LEMMA TraceCovers ==
  ASSUME NEW samples \in SUBSET Rollup, NEW b \in Nat, NEW t \in Nat,
         \A r \in samples : r.bucket <= b /\ r.bucket % TEN_SEC = 0
  PROVE  LET pts   == Points(samples)
             runs  == step_segments(pts, TEN_SEC)
             drawn == \E h \in runs : h.from <= t /\ t < h.to
         IN  /\ drawn <=> Covered(samples, TEN_SEC, t)
             /\ drawn <=> \E x \in wave_dots(pts, TEN_SEC) :
                            x <= t /\ t < x + SOLID_STEP_S
                            /\ \E h \in runs : h.from <= x /\ x < h.to
<1> DEFINE pts   == Points(samples)
           runs  == step_segments(pts, TEN_SEC)
           dots  == wave_dots(pts, TEN_SEC)
           Along(h) == {x \in h.from..h.to : (x - h.from) % SOLID_STEP_S = 0}
           OnRun(x) == \E h \in runs : h.from <= x /\ x < h.to
           dotted == \E x \in dots : x <= t /\ t < x + SOLID_STEP_S /\ OnRun(x)
<1>1. /\ \A h \in runs : \E r \in samples : h.from = r.bucket /\ h.to = r.bucket + TEN_SEC
      /\ \A r \in samples : \E h \in runs : h.from = r.bucket /\ h.to = r.bucket + TEN_SEC
  BY RunsAre
<1>2. dots = UNION {{h.from, h.to} \union Along(h) : h \in runs}
  BY DEF wave_dots
<1>3. \A h \in runs : h.from \in Nat /\ h.from % 10 = 0 /\ h.to = h.from + 10
  <2>1. TAKE h \in runs
  <2>2. PICK r \in samples : h.from = r.bucket /\ h.to = r.bucket + TEN_SEC
    BY <1>1
  <2> QED BY <2>2 DEF Rollup, TEN_SEC
<1> HIDE DEF runs, pts, dots
<1>4. OnRun(t) <=> Covered(samples, TEN_SEC, t)
  BY <1>1 DEF Covered
<1>5. ASSUME OnRun(t)
      PROVE  dotted
  <2>1. PICK h \in runs : h.from <= t /\ t < h.to
    BY <1>5
  <2>2. PICK k \in Nat : k = h.from /\ h.to = k + 10
    BY <1>3
  <2> DEFINE x == IF (t - k) % 2 = 0 THEN t ELSE t - 1
  <2>3. x \in k..(k + 10) /\ (x - k) % 2 = 0 /\ x <= t /\ t < x + 2 /\ k <= x /\ x < k + 10
    BY <2>1, <2>2
  <2> HIDE DEF x
  <2>4. x \in Along(h)
    BY <2>2, <2>3 DEF SOLID_STEP_S
  <2>5. x \in dots
    BY <1>2, <2>4
  <2>6. OnRun(x)
    BY <2>2, <2>3
  <2> QED BY <2>3, <2>5, <2>6 DEF SOLID_STEP_S
<1>6. ASSUME dotted
      PROVE  OnRun(t)
  <2>1. PICK x \in dots : x <= t /\ t < x + 2 /\ OnRun(x)
    BY <1>6 DEF SOLID_STEP_S
  <2>2. PICK g \in runs : g.from <= x /\ x < g.to
    BY <2>1
  <2>3. PICK h \in runs : x \in {h.from, h.to} \union Along(h)
    BY <1>2, <2>1
  <2>4. PICK k \in Nat, l \in Nat : k = g.from /\ l = h.from
    BY <1>3
  <2>5. g.to = k + 10 /\ h.to = l + 10 /\ k % 10 = 0 /\ l % 10 = 0
    BY <1>3, <2>4
  <2>6. x \in Nat /\ x >= l /\ (x - l) % 2 = 0
    <3>1. CASE x \in Along(h)
      BY <2>4, <2>5, <3>1 DEF SOLID_STEP_S
    <3>2. CASE x = h.from \/ x = h.to
      BY <2>4, <2>5, <3>2
    <3> QED BY <2>3, <3>1, <3>2
  <2>7. k <= x /\ x < k + 10
    BY <2>2, <2>4, <2>5
  <2>8. x <= k + 8
    BY <2>5, <2>6, <2>7
  <2>9. k <= t /\ t < k + 10
    BY <2>1, <2>6, <2>7, <2>8
  <2> QED BY <2>4, <2>5, <2>9
<1> QED BY <1>4, <1>5, <1>6 DEF runs, pts, dots

-----------------------------------------------------------------------------
(* The columns of the overview *)

\* Products keep the order of their first factors.
LEMMA TimesGrows ==
  ASSUME NEW x \in Nat, NEW y \in Nat, NEW k \in Nat, x <= y
  PROVE  x * k <= y * k
<1>1. PICK d \in Nat : y = x + d
  <2>1. y - x \in Nat /\ y = x + (y - x)
    OBVIOUS
  <2> QED BY <2>1
<1>2. y * k = x * k + d * k
  BY <1>1
<1>3. d * k \in Nat /\ x * k \in Nat
  OBVIOUS
<1> QED BY <1>2, <1>3

\* A quotient reaches a number just if the dividend reaches its multiple.
LEMMA QuotientReaches ==
  ASSUME NEW a \in Nat, NEW s \in Nat, s > 0, NEW c \in Nat
  PROVE  /\ a \div s \in Nat
         /\ c <= a \div s <=> c * s <= a
<1>1. PICK q \in Nat, r \in Nat : q = a \div s /\ a = q * s + r /\ r < s
  <2>1. a % s \in 0..(s - 1) /\ a \div s \in Nat /\ a = (a \div s) * s + (a % s)
    BY DivMod
  <2>2. a % s \in Nat /\ a % s < s
    BY <2>1
  <2> QED BY <2>1, <2>2
<1>2. q * s \in Nat /\ c * s \in Nat
  OBVIOUS
<1>3. CASE c <= q
  <2>1. c * s <= q * s
    BY <1>3, TimesGrows
  <2> QED BY <1>1, <1>2, <1>3, <2>1
<1>4. CASE q + 1 <= c
  <2>1. (q + 1) * s <= c * s
    BY <1>4, TimesGrows
  <2>2. (q + 1) * s = q * s + s
    OBVIOUS
  <2> QED BY <1>1, <1>2, <1>4, <2>1, <2>2
<1> QED BY <1>1, <1>3, <1>4

\* The column of an instant is one of the strip, grows with the instant, and
\* inside the window is its share of the columns.
LEMMA ColumnIs ==
  ASSUME NEW from \in Nat, NEW s \in Nat, s > 0, NEW t \in Nat
  PROVE  LET col == timeline_col_of(t, from, s, Cols)
         IN  /\ col \in 0..(Cols - 1)
             /\ \A c \in 0..(Cols - 1) : c <= col <=> c * s <= SatSub(t, from) * Cols
<1> DEFINE d == SatSub(t, from)
           q == (d * Cols) \div s
           col == timeline_col_of(t, from, s, Cols)
<1>1. Cols \in Nat /\ Cols > 0
  BY Sizes
<1>2. d \in Nat
  BY SatSubIs
<1>3. d * Cols \in Nat
  BY <1>1, <1>2
<1>4. q \in Nat /\ \A c \in Nat : c <= q <=> c * s <= d * Cols
  BY <1>3, QuotientReaches
<1>5. col = Lesser(q, Cols - 1)
  BY DEF timeline_col_of
<1> HIDE DEF q, d, col
<1>6. col \in 0..(Cols - 1) /\ \A c \in 0..(Cols - 1) : c <= col <=> c <= q
  BY <1>1, <1>4, <1>5 DEF Lesser
<1>7. \A c \in 0..(Cols - 1) : c <= col <=> c * s <= d * Cols
  BY <1>4, <1>6
<1> QED BY <1>6, <1>7 DEF d, col

\* Later instants are in later columns.
LEMMA ColumnsGrow ==
  ASSUME NEW from \in Nat, NEW s \in Nat, s > 0, NEW t \in Nat, NEW u \in Nat, t <= u
  PROVE  timeline_col_of(t, from, s, Cols) <= timeline_col_of(u, from, s, Cols)
<1> DEFINE c == timeline_col_of(t, from, s, Cols)
           e == timeline_col_of(u, from, s, Cols)
<1>1. Cols \in Nat
  BY Sizes
<1>2. SatSub(t, from) \in Nat /\ SatSub(u, from) \in Nat /\ SatSub(t, from) <= SatSub(u, from)
  BY DEF SatSub
<1>3. SatSub(t, from) * Cols <= SatSub(u, from) * Cols
  BY <1>1, <1>2, TimesGrows
<1>4. /\ c \in 0..(Cols - 1) /\ c * s <= SatSub(t, from) * Cols
      /\ \A x \in 0..(Cols - 1) : x <= e <=> x * s <= SatSub(u, from) * Cols
  <2>1. /\ c \in 0..(Cols - 1)
        /\ \A x \in 0..(Cols - 1) : x <= c <=> x * s <= SatSub(t, from) * Cols
    BY ColumnIs
  <2>2. \A x \in 0..(Cols - 1) : x <= e <=> x * s <= SatSub(u, from) * Cols
    BY ColumnIs
  <2>3. c <= c
    BY <2>1
  <2> QED BY <2>1, <2>2, <2>3
<1>5. c * s \in Nat /\ SatSub(t, from) * Cols \in Nat /\ SatSub(u, from) * Cols \in Nat
  <2>1. c \in Nat
    BY <1>4
  <2> HIDE DEF c
  <2> QED BY <1>1, <1>2, <2>1
<1> HIDE DEF c, e
<1>6. c * s <= SatSub(u, from) * Cols
  BY <1>3, <1>4, <1>5
<1> QED BY <1>4, <1>6 DEF c, e

\* No column is skipped in a window of at least one instant for each: between
\* two instants every column from the first's to the second's owns one.
LEMMA ColumnIsOwned ==
  ASSUME NEW from \in Nat, NEW s \in Nat, Cols <= s,
         NEW lo \in Nat, NEW hi \in Nat, from <= lo, lo <= hi, NEW c \in 0..(Cols - 1),
         timeline_col_of(lo, from, s, Cols) <= c, c <= timeline_col_of(hi, from, s, Cols)
  PROVE  \E t \in lo..hi : timeline_col_of(t, from, s, Cols) = c
<1> DEFINE col(u) == timeline_col_of(u, from, s, Cols)
           n == Cols
<1>1. n \in Nat /\ n > 0 /\ s > 0
  BY Sizes
<1>2. \A t \in Nat : /\ col(t) \in 0..(n - 1)
                     /\ \A x \in 0..(n - 1) : x <= col(t) <=> x * s <= SatSub(t, from) * n
  BY <1>1, ColumnIs
<1> HIDE DEF col, n
<1>3. CASE col(lo) = c
  <2>1. lo \in lo..hi
    OBVIOUS
  <2> QED BY <1>3, <2>1 DEF col
<1>4. CASE col(lo) # c
  <2>1. c \in Nat /\ c \in 0..(n - 1) /\ c * s \in Nat
    <3>1. c \in Nat /\ c \in 0..(n - 1)
      BY <1>1 DEF n
    <3> QED BY <3>1
  <2>2. col(lo) < c /\ c <= col(hi)
    <3>1. col(lo) <= c /\ c <= col(hi)
      BY DEF col
    <3>2. col(lo) \in Nat
      BY <1>1, <1>2
    <3> QED BY <1>4, <2>1, <3>1, <3>2
  \* The first instant of the column is at d past the window's start.
  <2>3. PICK d \in Nat : c * s <= d * n /\ d * n < c * s + n
    <3> DEFINE q == (c * s) \div n
               r == (c * s) % n
    <3>1. r \in 0..(n - 1) /\ q \in Nat /\ c * s = q * n + r
      BY <1>1, <2>1, DivMod
    <3> HIDE DEF q, r
    <3>2. q * n \in Nat /\ (q + 1) * n = q * n + n /\ q + 1 \in Nat
      BY <1>1, <3>1
    <3>3. CASE r = 0
      BY <1>1, <2>1, <3>1, <3>2, <3>3
    <3>4. CASE r > 0
      <4>1. c * s <= (q + 1) * n /\ (q + 1) * n < c * s + n
        BY <1>1, <3>1, <3>2, <3>4
      <4> QED BY <3>2, <4>1
    <3> QED BY <1>1, <3>1, <3>3, <3>4
  <2>4. d * n \in Nat
    BY <1>1
  <2> DEFINE t == from + d
  <2>5. t \in Nat /\ SatSub(t, from) = d
    BY DEF SatSub
  <2>6. SatSub(lo, from) = lo - from /\ SatSub(hi, from) = hi - from
        /\ lo - from \in Nat /\ hi - from \in Nat
    BY DEF SatSub
  <2> HIDE DEF t
  <2>7. c <= col(t)
    BY <1>2, <2>1, <2>3, <2>5
  <2>8. col(t) <= c
    <3>1. SUFFICES ASSUME c + 1 <= col(t)
                   PROVE  FALSE
      BY <1>1, <1>2, <2>1, <2>5
    <3>2. c + 1 \in 0..(n - 1)
      BY <1>1, <1>2, <2>1, <2>5, <3>1
    <3>3. (c + 1) * s <= d * n
      BY <1>2, <2>5, <3>1, <3>2
    <3>4. (c + 1) * s = c * s + s
      BY <2>1
    <3>5. n <= s
      BY DEF n
    <3> QED BY <1>1, <2>1, <2>3, <2>4, <3>3, <3>4, <3>5
  <2>9. lo <= t
    <3>1. SUFFICES ASSUME d <= lo - from
                   PROVE  FALSE
      BY <2>6 DEF t
    <3>2. d * n <= (lo - from) * n
      BY <1>1, <2>6, <3>1, TimesGrows
    <3>3. (lo - from) * n \in Nat
      BY <1>1, <2>6
    <3>4. c * s <= (lo - from) * n
      BY <2>1, <2>3, <2>4, <3>2, <3>3
    <3>5. c <= col(lo)
      BY <1>2, <2>1, <2>6, <3>4
    <3> QED BY <1>1, <1>2, <2>1, <2>2, <3>5
  <2>10. t <= hi
    <3>1. SUFFICES ASSUME hi - from + 1 <= d
                   PROVE  FALSE
      BY <2>6 DEF t
    <3>2. (hi - from + 1) * n <= d * n
      BY <1>1, <2>6, <3>1, TimesGrows
    <3>3. (hi - from + 1) * n = (hi - from) * n + n /\ (hi - from) * n \in Nat
      BY <1>1, <2>6
    <3>4. c * s <= (hi - from) * n
      BY <1>2, <2>1, <2>2, <2>6
    <3> QED BY <1>1, <2>1, <2>3, <2>4, <3>2, <3>3, <3>4
  <2>11. col(t) = c
    <3>1. col(t) \in 0..(n - 1)
      BY <1>2, <2>5
    <3>2. col(t) \in Nat
      BY <1>1, <3>1
    <3> QED BY <2>1, <2>7, <2>8, <3>2
  <2> QED BY <2>5, <2>9, <2>10, <2>11 DEF col
<1> QED BY <1>3, <1>4

\* The columns painted for a window's buckets are those of recorded instants
\* and of those between: a column owning a recorded instant is painted, in a
\* window of any width.
LEMMA RecordedIsPainted ==
  ASSUME NEW w \in Window, NEW t \in w.from..(w.to - 1), Covered(w.samples, WidthOf(w.tier), t)
  PROVE  timeline_col_of(t, w.from, w.to - w.from, Cols) \in Painted(w)
<1> DEFINE col(u) == timeline_col_of(u, w.from, w.to - w.from, Cols)
<1>1. /\ w.from \in Nat /\ w.to \in Nat /\ w.tier \in Tiers /\ w.samples \subseteq Rollup
      /\ t \in Nat /\ w.to - w.from \in Nat /\ w.to - w.from > 0
      /\ w.from <= t /\ t < w.to
  BY DEF Window
<1>2. WidthOf(w.tier) \in Nat
  BY <1>1, WidthIs
<1>3. PICK r \in w.samples : r.bucket <= t /\ t < r.bucket + WidthOf(w.tier)
  BY DEF Covered
<1>4. r.bucket \in Nat
  BY <1>1 DEF Rollup
<1>5. PICK lo \in Nat, up \in Nat :
        /\ lo = Slice(r.bucket, WidthOf(w.tier), w.from, w.to).lo
        /\ up + 1 = Slice(r.bucket, WidthOf(w.tier), w.from, w.to).hi
        /\ lo <= t /\ t <= up
  <2> DEFINE x == Greater(r.bucket, w.from)
             y == Lesser(r.bucket + WidthOf(w.tier), w.to)
  <2>1. x \in Nat /\ x <= t /\ y \in Nat /\ t < y
    BY <1>1, <1>2, <1>3, <1>4 DEF Greater, Lesser
  <2>2. Slice(r.bucket, WidthOf(w.tier), w.from, w.to) = [lo |-> x, hi |-> y]
    BY DEF Slice
  <2> HIDE DEF x, y
  <2>3. y - 1 \in Nat /\ (y - 1) + 1 = y /\ t <= y - 1
    BY <1>1, <2>1
  <2> QED BY <2>1, <2>2, <2>3
<1>6. col(lo) <= col(t) /\ col(t) <= col(up)
  BY <1>1, <1>5, ColumnsGrow
<1>7. col(t) \in 0..(Cols - 1)
  BY <1>1, ColumnIs
<1>8. lo < up + 1 /\ (up + 1) - 1 = up
  BY <1>1, <1>5
<1> HIDE DEF col
<1> DEFINE S == Slice(r.bucket, WidthOf(w.tier), w.from, w.to)
<1>9. S.lo < S.hi /\ col(S.lo) <= col(t) /\ col(t) <= col(S.hi - 1)
  BY <1>5, <1>6, <1>8
<1>10. r.bucket \in {x.bucket : x \in w.samples}
  BY <1>3
<1> HIDE DEF S
<1> QED BY <1>7, <1>9, <1>10 DEF Painted, timeline_columns, S, col

\* In a window with an instant for each column a painted column owns a
\* recorded instant.
LEMMA PaintedIsRecorded ==
  ASSUME NEW w \in Window, Cols <= w.to - w.from, NEW c \in Painted(w)
  PROVE  \E t \in w.from..(w.to - 1) :
           /\ timeline_col_of(t, w.from, w.to - w.from, Cols) = c
           /\ Covered(w.samples, WidthOf(w.tier), t)
<1>1. /\ w.from \in Nat /\ w.to \in Nat /\ w.tier \in Tiers /\ w.samples \subseteq Rollup
      /\ w.to - w.from \in Nat
  <2>1. w.from \in Nat /\ w.to \in Nat /\ w.tier \in Tiers /\ w.samples \subseteq Rollup
    BY DEF Window
  <2> QED BY <2>1, Sizes
<1>2. WidthOf(w.tier) \in Nat
  BY <1>1, WidthIs
<1> DEFINE col(u) == timeline_col_of(u, w.from, w.to - w.from, Cols)
           S(b) == Slice(b, WidthOf(w.tier), w.from, w.to)
<1>3. c \in 0..(Cols - 1) /\ \E b \in {r.bucket : r \in w.samples} :
        S(b).lo < S(b).hi /\ col(S(b).lo) <= c /\ c <= col(S(b).hi - 1)
  BY DEF Painted, timeline_columns
<1>4. PICK r \in w.samples :
        S(r.bucket).lo < S(r.bucket).hi /\ col(S(r.bucket).lo) <= c /\ c <= col(S(r.bucket).hi - 1)
  <2> HIDE DEF S, col
  <2> QED BY <1>3
<1>5. r.bucket \in Nat
  BY <1>1 DEF Rollup
<1> DEFINE lo == Greater(r.bucket, w.from)
           hi == Lesser(r.bucket + WidthOf(w.tier), w.to)
<1>6. S(r.bucket).lo = lo /\ S(r.bucket).hi = hi
  BY DEF Slice
<1>7. /\ lo \in Nat /\ hi \in Nat /\ w.from <= lo /\ r.bucket <= lo
      /\ hi <= w.to /\ hi <= r.bucket + WidthOf(w.tier)
  BY <1>1, <1>2, <1>5 DEF Greater, Lesser
<1> HIDE DEF lo, hi, S
<1>8. lo < hi /\ col(lo) <= c /\ c <= col(hi - 1)
  <2> HIDE DEF col
  <2> QED BY <1>4, <1>6
<1>9. hi - 1 \in Nat /\ lo <= hi - 1
  BY <1>7, <1>8
<1>10. PICK t \in lo..(hi - 1) : col(t) = c
  BY <1>1, <1>3, <1>7, <1>8, <1>9, ColumnIsOwned
<1>11. /\ t \in w.from..(w.to - 1)
       /\ r.bucket <= t /\ t < r.bucket + WidthOf(w.tier)
  BY <1>1, <1>2, <1>5, <1>7, <1>9
<1> QED BY <1>10, <1>11 DEF Covered

LEMMA HolesShow == ConsoleInv => HolesAreHoles
<1> SUFFICES ASSUME ConsoleInv, Overview, twin.to - twin.from >= Cols,
                    NEW c \in 0..(Cols - 1)
             PROVE  c \in Painted(twin) <=>
                      \E t \in Instants(twin, c) : Covered(twin.samples, WidthOf(twin.tier), t)
  BY Zenon DEF HolesAreHoles
<1>1. twin \in Window
  BY NoneIsApart DEF ConsoleInv, UiInv, UiTypes, Maybe, Overview
<1>2. PICK w \in Window : w = twin
  BY <1>1, Zenon
<1>3. Cols <= w.to - w.from
  BY <1>2, Sizes DEF Window
<1>4. ASSUME c \in Painted(w)
      PROVE  \E t \in Instants(w, c) : Covered(w.samples, WidthOf(w.tier), t)
  BY <1>3, <1>4, PaintedIsRecorded DEF Instants
<1>5. ASSUME NEW t \in Instants(w, c), Covered(w.samples, WidthOf(w.tier), t)
      PROVE  c \in Painted(w)
  <2>1. t \in w.from..(w.to - 1) /\ timeline_col_of(t, w.from, w.to - w.from, Cols) = c
    BY DEF Instants
  <2> QED BY <1>5, <2>1, RecordedIsPainted
<1> QED BY <1>2, <1>4, <1>5

LEMMA EventsShow == ConsoleInv => EventsOverTheirData
<1> SUFFICES ASSUME ConsoleInv, Overview, NEW i \in DOMAIN twin.events
             PROVE  LET e == twin.events[i]
                        cells == {c \in 0..(Cols - 1) :
                                    e \in LaneCell({e}, twin.from, twin.to, Cols, c)}
                    IN /\ \E c \in cells : cells = {c}
                       /\ e.ts < twin.to /\ Covered(twin.samples, WidthOf(twin.tier), e.ts)
                          => cells \subseteq Painted(twin)
  BY Zenon DEF EventsOverTheirData
<1>1. twin \in Window
  BY NoneIsApart DEF ConsoleInv, UiInv, UiTypes, Maybe, Overview
<1>2. PICK w \in Window : w = twin
  BY <1>1, Zenon
<1>3. w.from \in Nat /\ w.to \in Nat /\ w.events \in Seq(EventType)
  BY DEF Window
<1>4. Inside(w.events, w.from, w.to)
  BY <1>2 DEF ConsoleInv, UiInv, OverviewInv, Overview
<1>5. PICK e \in EventType : e = twin.events[i] /\ w.from <= e.ts /\ e.ts <= w.to
  <2>1. w.events[i] \in EventType
    BY <1>2, <1>3
  <2> QED BY <1>2, <1>4, <2>1 DEF Inside
<1>6. e.ts \in Nat
  BY DEF EventType
<1>7. /\ SpanOf(w.from, w.to) \in Nat /\ SpanOf(w.from, w.to) > 0
      /\ e.ts < w.to => SpanOf(w.from, w.to) = w.to - w.from
  BY <1>3, <1>5, <1>6 DEF SpanOf, Greater, SatSub
<1> DEFINE x == timeline_col_of(e.ts, w.from, SpanOf(w.from, w.to), Cols)
           cells == {c \in 0..(Cols - 1) : e \in LaneCell({e}, w.from, w.to, Cols, c)}
<1>8. x \in 0..(Cols - 1)
  BY <1>3, <1>6, <1>7, ColumnIs
<1>9. \A c : e \in LaneCell({e}, w.from, w.to, Cols, c) <=> x = c
  BY <1>5 DEF LaneCell
<1>10. cells = {x}
  <2> HIDE DEF x
  <2> QED BY <1>8, <1>9
<1>11. ASSUME e.ts < w.to, Covered(w.samples, WidthOf(w.tier), e.ts)
       PROVE  x \in Painted(w)
  <2>1. e.ts \in w.from..(w.to - 1)
    BY <1>3, <1>5, <1>6, <1>11
  <2>2. timeline_col_of(e.ts, w.from, w.to - w.from, Cols) \in Painted(w)
    BY <1>11, <2>1, RecordedIsPainted
  <2> QED BY <1>7, <1>11, <2>2
<1> HIDE DEF x, cells
<1>12. /\ \E c \in cells : cells = {c}
       /\ e.ts < w.to /\ Covered(w.samples, WidthOf(w.tier), e.ts) => cells \subseteq Painted(w)
  BY <1>10, <1>11
<1> QED BY <1>2, <1>5, <1>12 DEF cells

-----------------------------------------------------------------------------
(* What is painted *)

LEMMA ReplayShows == ConsoleInv => ReplayFramesCursor /\ TraceIsTheRecording
<1> SUFFICES ASSUME ConsoleInv, mode = "replay", Settled
             PROVE  ReplayFramesCursor /\ TraceIsTheRecording
  BY DEF ReplayFramesCursor, TraceIsTheRecording
<1>1. /\ rwin # None
      /\ rwin.from = SatSub(cursor, HalfWindow) /\ rwin.to = cursor + HalfWindow
      /\ rwin.procs # None => rwin.procs <= cursor
      /\ WithinRows(rwin.samples, "10s", rwin.from, rwin.to) /\ OnTens(rwin.samples)
  BY DEF ConsoleInv, UiInv, ReplayInv, Settled
<1>2. ReplayFramesCursor
  BY <1>1 DEF ReplayFramesCursor
<1>3. rwin \in Replay
  BY <1>1 DEF ConsoleInv, UiInv, UiTypes, Maybe
<1>4. PICK w \in Replay : w = rwin
  BY <1>3, Zenon
<1>5. w.from \in Nat /\ w.to \in Nat /\ w.samples \subseteq Rollup
  BY DEF Replay
<1>6. \A r \in w.samples : r.bucket <= w.to /\ r.bucket % TEN_SEC = 0
  BY <1>1, <1>4 DEF WithinRows, OnTens
<1> DEFINE pts  == Points(w.samples)
           runs == step_segments(pts, TEN_SEC)
           drawn(t) == \E h \in runs : h.from <= t /\ t < h.to
<1>7. \A t \in Nat :
        /\ drawn(t) <=> Covered(w.samples, TEN_SEC, t)
        /\ drawn(t) <=> \E x \in wave_dots(pts, TEN_SEC) :
                          x <= t /\ t < x + SOLID_STEP_S
                          /\ \E h \in runs : h.from <= x /\ x < h.to
  BY <1>5, <1>6, TraceCovers
<1>8. \A t \in w.from..w.to + TEN_SEC : t \in Nat
  BY <1>5
<1>9. TraceIsTheRecording
  BY <1>4, <1>7, <1>8, Zenon DEF TraceIsTheRecording
<1> QED BY <1>2, <1>9

\* PaintsTheRecording: replay frames its cursor with the recorded buckets and
\* no other instant, a throttle flag tells what its frames read, and a column
\* of the overview is painted just where something was recorded, with every
\* event in one cell over it, for every window, strip width and recording.
THEOREM PaintingIsTrue == Spec => []PaintsTheRecording
<1>1. ConsoleInv => PaintsTheRecording
  <2>1. ConsoleInv => ThrottleReadsTrue
    BY DEF ConsoleInv, ThreadInv, ReadingsTell
  <2> QED BY <2>1, HolesShow, EventsShow, ReplayShows DEF PaintsTheRecording
<1> QED BY <1>1, ConsoleStart, ConsoleStep, PTL DEF Spec
=============================================================================
