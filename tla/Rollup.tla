------------------------------- MODULE Rollup -------------------------------
(***************************************************************************)
(* What a bucket's row says of its frames (crates/history/src/lib.rs, Agg, *)
(* SampleAccum, ProcAccum and their use in Recorder::observe and flush):   *)
(* extremes and means of the frames that had the metric, counters of the   *)
(* frames that could observe throttling, and per process its peak memory   *)
(* and last identity. Recorder has when rows are written, over clocks that *)
(* step and disks that fail; here frames run forward and every write is    *)
(* kept, and the question is what is in them.                              *)
(*                                                                         *)
(* One metric stands for the six; a mean is cut to a whole number, as the  *)
(* counters' casts do.                                                     *)
(***************************************************************************)
EXTENDS Integers, FiniteSetsExt

CONSTANTS
  Frames,     \* frames: [power |-> number or None,
              \*          throttle |-> set of reasons or None,
              \*          procs |-> pid to [mem |-> number or None, kind]]
  Ten, Minute, \* widths of the two tiers, in ticks of the clock
  MaxTs,      \* bound of the clock
  None

\* A minute is whole ten seconds, and a frame's figures are counts.
RollupAssumption ==
  /\ Ten \in Nat \ {0} /\ Minute \in Nat \ {0} /\ Minute % Ten = 0
  /\ MaxTs \in Nat
  /\ \A f \in Frames :
       /\ f.power \in Nat \union {None}
       /\ \A p \in DOMAIN f.procs :
            /\ f.procs[p] = [mem |-> f.procs[p].mem, kind |-> f.procs[p].kind]
            /\ f.procs[p].mem \in Nat \union {None}

VARIABLES
  ts,          \* of the last frame; 0 before the first
  s10, s1m,    \* accumulators of the open buckets
  p10,         \* the 10s process bucket: its key and an accumulator per pid
  tens, minutes, prows, \* rows on disk
  frames       \* what was observed, with its time (history)

vars == <<ts, s10, s1m, p10, tens, minutes, prows, frames>>

NoAgg == [min |-> None, max |-> None, sum |-> 0, n |-> 0]

NoSamples(bucket) ==
  [bucket |-> bucket, n |-> 0, power |-> NoAgg,
   throttle |-> 0, thermal |-> 0, hw |-> 0, observed |-> 0]

NoProcs(bucket) == [bucket |-> bucket, procs |-> <<>>]

Init ==
  /\ ts = 0
  /\ s10 = NoSamples(None) /\ s1m = NoSamples(None) /\ p10 = NoProcs(None)
  /\ tens = {} /\ minutes = {} /\ prows = {}
  /\ frames = {}

BucketOf(t, width) == t - (t % width)

\* Agg::push: an absent value contributes nothing.
Push(a, v) ==
  IF v = None THEN a
  ELSE [min |-> IF a.min = None \/ v < a.min THEN v ELSE a.min,
        max |-> IF a.max = None \/ v > a.max THEN v ELSE a.max,
        sum |-> a.sum + v, n |-> a.n + 1]

Avg(a) == IF a.n > 0 THEN a.sum \div a.n ELSE None

One(b) == IF b THEN 1 ELSE 0

\* Mutant: a frame that could not observe throttling counts as one that did.
FoldSample_Unseen(a, f) ==
  [a EXCEPT !.n = @ + 1, !.power = Push(@, f.power),
            !.observed = @ + 1,
            !.throttle = @ + One(f.throttle # None /\ f.throttle # {}),
            !.thermal = @ + One(f.throttle # None /\ "thermal" \in f.throttle),
            !.hw = @ + One(f.throttle # None /\ "hw_slowdown" \in f.throttle)]

\* SampleAccum::fold.
FoldSample(a, f) ==
  LET seen == f.throttle # None
      on(reason) == One(seen /\ reason \in f.throttle)
  IN [a EXCEPT !.n = @ + 1, !.power = Push(@, f.power),
               !.observed = @ + One(seen),
               !.throttle = @ + One(seen /\ f.throttle # {}),
               !.thermal = @ + on("thermal"), !.hw = @ + on("hw_slowdown")]

Peak(m, v) == IF v = None \/ (m # None /\ m > v) THEN m ELSE v

\* ProcAccum: the peak memory of a process, and the identity last seen.
FoldProcs(procs, list) ==
  [p \in DOMAIN procs \union DOMAIN list |->
     IF p \notin DOMAIN list THEN procs[p]
     ELSE IF p \notin DOMAIN procs THEN list[p]
     ELSE [list[p] EXCEPT !.mem = Peak(procs[p].mem, @)]]

\* SampleAccum::to_rollup and ProcAccum::to_rollup.
SampleRow(a) ==
  [bucket |-> a.bucket, n |-> a.n, min |-> a.power.min, avg |-> Avg(a.power),
   max |-> a.power.max, throttle |-> a.throttle, thermal |-> a.thermal, hw |-> a.hw,
   observed |-> a.observed]

ProcRows(b) ==
  {[bucket |-> b.bucket, pid |-> p, kind |-> b.procs[p].kind, mem |-> b.procs[p].mem] :
     p \in DOMAIN b.procs}

Crosses(a, b) == a.bucket # None /\ b > a.bucket

\* The accumulator the frame is folded into.
Opened(a, b, fresh) ==
  IF Crosses(a, b) THEN fresh ELSE IF a.bucket = None THEN [a EXCEPT !.bucket = b] ELSE a

Observe(f) ==
  \E t \in (ts + 1) .. MaxTs :
    LET b10 == BucketOf(t, Ten)
        b1m == BucketOf(t, Minute)
        open == Opened(p10, b10, NoProcs(b10))
    IN /\ ts' = t
       /\ s10' = FoldSample(Opened(s10, b10, NoSamples(b10)), f)
       /\ s1m' = FoldSample(Opened(s1m, b1m, NoSamples(b1m)), f)
       /\ p10' = [open EXCEPT !.procs = FoldProcs(@, f.procs)]
       /\ tens' = tens \union {SampleRow(a) : a \in {x \in {s10} : Crosses(x, b10)}}
       /\ minutes' = minutes \union {SampleRow(a) : a \in {x \in {s1m} : Crosses(x, b1m)}}
       /\ prows' = prows \union UNION {ProcRows(b) : b \in {x \in {p10} : Crosses(x, b10)}}
       /\ frames' = frames \union {[at |-> t, f |-> f]}

\* The partial buckets, where they hold a frame; a flush is the last write.
Flush ==
  /\ ts < MaxTs + 1 /\ ts' = MaxTs + 1
  /\ tens' = tens \union {SampleRow(a) : a \in {x \in {s10} : x.n > 0}}
  /\ minutes' = minutes \union {SampleRow(a) : a \in {x \in {s1m} : x.n > 0}}
  /\ prows' = prows \union ProcRows(p10)
  /\ s10' = NoSamples(None) /\ s1m' = NoSamples(None) /\ p10' = NoProcs(None)
  /\ UNCHANGED frames

Next == (\E f \in Frames : Observe(f)) \/ Flush

-----------------------------------------------------------------------------
(* Properties *)

\* The open buckets of both tiers hold the last frame.
TypeOK ==
  /\ ts \in 0 .. (MaxTs + 1)
  /\ s10.bucket = None <=> s1m.bucket = None
  /\ s10.bucket = p10.bucket
  /\ s10.bucket # None => BucketOf(s10.bucket, Minute) = s1m.bucket

In(width, bucket) == {g \in frames : BucketOf(g.at, width) = bucket}

Having(gs) == {g \in gs : g.f.power # None}

\* A row says of its frames what they were: nothing where none had the metric,
\* else extremes that one of them had around a mean; a throttle counted only
\* where it could be seen, so that none counted and none seen differ.
Tells(row, gs) ==
  LET seen == {g \in gs : g.f.throttle # None}
      powers == {g.f.power : g \in Having(gs)}
  IN /\ row.n = Cardinality(gs)
     /\ IF powers = {} THEN row.min = None /\ row.avg = None /\ row.max = None
        ELSE row.min = Min(powers) /\ row.max = Max(powers)
             /\ row.min <= row.avg /\ row.avg <= row.max
     /\ row.observed = Cardinality(seen)
     /\ row.throttle = Cardinality({g \in seen : g.f.throttle # {}})
     /\ row.thermal <= row.throttle /\ row.hw <= row.throttle

Counters == {"n", "observed", "throttle", "thermal", "hw"}
Total(rows, counter) == MapThenSumSet(LAMBDA r : r[counter], rows)

\* A minute says what its ten seconds say together, which are all there by
\* the time it is: nothing is counted in one tier and not in the other.
TiersAgree(m) ==
  LET parts == {r \in tens : BucketOf(r.bucket, Minute) = m.bucket}
      known == {r \in parts : r.max # None}
  IN /\ \A counter \in Counters : m[counter] = Total(parts, counter)
     /\ m.max = IF known = {} THEN None ELSE Max({r.max : r \in known})

\* A process row is of a process that was there in its bucket, by the name it
\* last had there and with the most memory it was seen with; and none is left
\* out.
ProcsTold ==
  /\ {<<r.bucket, r.pid>> : r \in prows}
       = UNION {{<<BucketOf(g.at, Ten), p>> : p \in DOMAIN g.f.procs} :
                  g \in {x \in frames : \E r \in tens : r.bucket = BucketOf(x.at, Ten)}}
  /\ \A r \in prows :
       LET his == {g \in In(Ten, r.bucket) : r.pid \in DOMAIN g.f.procs}
           mems == {g.f.procs[r.pid].mem : g \in his} \ {None}
       IN /\ \E g \in his : g.f.procs[r.pid].kind = r.kind /\ \A o \in his : o.at <= g.at
          /\ r.mem = IF mems = {} THEN None ELSE Max(mems)

\* Rows of both tiers and of the processes tell their frames, and each other.
RowsTellTheirFrames ==
  /\ \A r \in tens : Tells(r, In(Ten, r.bucket))
  /\ \A m \in minutes : Tells(m, In(Minute, m.bucket)) /\ TiersAgree(m)
  /\ ProcsTold
=============================================================================
