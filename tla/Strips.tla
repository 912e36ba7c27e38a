------------------------------- MODULE Strips -------------------------------
(***************************************************************************)
(* What ui.rs paints of a recorded window, and what app.rs asks for when   *)
(* it moves a cursor over it.  A rollup row is a record with its bucket    *)
(* and the counters of the throttle bitmask; its other metrics follow the  *)
(* same path and are left out.  Times are seconds.                         *)
(***************************************************************************)
EXTENDS Naturals, Sequences, FiniteSets

CONSTANT None

TEN_SEC      == 10     \* Tier::TenSec
GAP_BRIDGE_S == 15     \* points farther apart are not bridged
SOLID_STEP_S == 2      \* spacing of the sub-points of the filled style

Lesser(a, b)  == IF a <= b THEN a ELSE b
Greater(a, b) == IF a >= b THEN a ELSE b

\* A subtraction that does not saturate.
PlainSub(a, b) == a - b

SatSub(a, b) == IF a >= b THEN a - b ELSE 0

\* u64::clamp, which panics unless lo <= hi.
Clamp(x, lo, hi) == Lesser(Greater(x, lo), hi)

KeyOf(ts, width) == ts - (ts % width)

-----------------------------------------------------------------------------
(* Timeline strips: one column per terminal cell.                          *)

SpanOf(from, to) == Greater(SatSub(to, from), 1)

\* The column owning an instant of the window.
timeline_col_of(ts, from, span, ncols) ==
  Lesser((SatSub(ts, from) * ncols) \div span, ncols - 1)

\* The slice of a bucket inside the window, empty unless lo < hi.
Slice(bucket, width, from, to) ==
  [lo |-> Greater(bucket, from), hi |-> Lesser(bucket + width, to)]

\* Columns painted for the buckets whose metric is present: every column
\* between the first and the last that a slice overlaps.  A window of no
\* span paints nothing.
timeline_columns(buckets, from, to, width, ncols) ==
  {c \in 0..(ncols - 1) :
     \E b \in buckets :
       LET s == Slice(b, width, from, to) IN
         /\ s.lo < s.hi
         /\ timeline_col_of(s.lo, from, to - from, ncols) <= c
         /\ c <= timeline_col_of(s.hi - 1, from, to - from, ncols)}

\* One cell of the event lane: the events it merges.
LaneCell(events, from, to, ncols, c) ==
  {e \in events : /\ from <= e.ts
                  /\ e.ts <= to
                  /\ timeline_col_of(e.ts, from, SpanOf(from, to), ncols) = c}

-----------------------------------------------------------------------------
(* Live and replay charts: a square wave through points in time order.     *)

\* A segment starts where the previous point is too far back.
StartsSegment(pts, i) == i = 1 \/ pts[i] > pts[i - 1] + GAP_BRIDGE_S

\* A chart that bridges whatever lies between two points.
BridgesAll(pts, trail) ==
  {[from |-> pts[i], to |-> IF i < Len(pts) THEN pts[i + 1] ELSE pts[i] + trail] :
     i \in DOMAIN pts}

\* The horizontal run each point holds: up to the next point of its segment,
\* or for the sample's own width at the end of one.
step_segments(pts, trail) ==
  {[from |-> pts[i],
    to   |-> IF i < Len(pts) /\ ~StartsSegment(pts, i + 1)
             THEN pts[i + 1] ELSE pts[i] + trail] : i \in DOMAIN pts}

\* The filled style paints isolated columns: both ends of every run and a
\* sub-point each SOLID_STEP_S between them.
wave_dots(pts, trail) ==
  UNION {{h.from, h.to} \union
         {x \in h.from..h.to : (x - h.from) % SOLID_STEP_S = 0} :
           h \in step_segments(pts, trail)}

\* Replay's throttle reading of a row: three states.
bucket_throttling(throttle, observed) ==
  IF throttle > 0 THEN TRUE ELSE IF observed = 0 THEN None ELSE FALSE

-----------------------------------------------------------------------------
(* Story feeds: rows of a pane, the first one after `skip`.                *)

Skip(focus, cap) == SatSub(focus, SatSub(cap, 1))

\* Events of the window before the cursor's own row.
marker_at(events, cursor) == Cardinality({i \in DOMAIN events : events[i].ts <= cursor})

\* The row of an event in the replay feed, the cursor's row counted.
ReplayRow(i, marker) == IF i >= marker THEN i + 1 ELSE i

\* The row the replay feed keeps in its pane.
ReplayFocus(sel, marker) == IF sel = None THEN marker ELSE ReplayRow(sel, marker)
=============================================================================
