------------------------------ MODULE Console ------------------------------
(***************************************************************************)
(* The terminal application: one loop of draw, poll and key handling       *)
(* (app.rs) beside the collection thread, which writes the database and    *)
(* then folds each frame into Shared.  The UI reads Shared under its mutex *)
(* and the database through a read-only connection of its own, one query   *)
(* after the other, while the thread goes on.  A session over a recording  *)
(* file (`view`) has the same loop and no thread.                          *)
(*                                                                         *)
(* One device; device tabs and chart style are left out, since they choose *)
(* what is painted and nothing else.  A row carries, besides its throttle  *)
(* counters, two ghosts: the tick that wrote it and the throttle readings  *)
(* of its frames; an event carries its tick and whether it is on disk or   *)
(* in memory only.  A 10s row stands for its bucket's process rows too.    *)
(***************************************************************************)
EXTENDS Strips

CONSTANTS
  OneMin,        \* width of the 1m tier
  Rungs,         \* the zoom ladder, narrowest first: span and tier of each
  DefaultZoom,   \* the rung the timeline opens at
  HalfWindow,    \* REPLAY_HALF_WINDOW_MS
  Scrubs,        \* SCRUB_STEP_MS and SCRUB_PAGE_MS
  Jumps,         \* columns of a cursor step and of a page
  Cols,          \* columns of a strip
  StoryRows,     \* rows of a story pane
  Lookback,      \* how far processes_at falls back
  Retain,        \* retention of the 10s tier
  FeedCap,       \* event_cap of the in-memory log
  Steps,         \* how far the clock moves between two ticks
  Readings,      \* what the throttle bitmask of a frame may read, by path
  Told,          \* how many events a tick may tell
  Failures,      \* which writes of a tick may fail together
  Starts,        \* what the database holds when the program starts
  MaxNow, MaxCursor, MaxEvents   \* bounds

Tiers == {"10s", "1m"}
WidthOf(tier) == IF tier = "10s" THEN TEN_SEC ELSE OneMin
Paths == {"none", "ok", "unreadable"}

\* What a tick may fail to write, each by itself: a row of either tier, its events.
Writes == Tiers \union {"events"}
Seen == {TRUE, FALSE, None}

EventType == [ts : Nat, n : Nat, born : Nat, held : {"disk", "memory"}]
Rollup    == [tier : Tiers, bucket : Nat, throttle : Nat, observed : Nat,
              saw : SUBSET Seen, born : Nat]
Window    == [from : Nat, to : Nat, tier : Tiers, clamped : BOOLEAN,
              samples : SUBSET Rollup, events : Seq(EventType)]
Replay    == [from : Nat, to : Nat, samples : SUBSET Rollup, procs : Nat \union {None},
              events : Seq(EventType)]

\* What the program may find: a file has a last bucket; a session's database
\* holds nothing later than its clock.
Start == [viewer : BOOLEAN, path : Paths, now : Nat,
          rows : SUBSET [tier : Tiers, bucket : Nat, throttle : Nat, observed : Nat,
                         saw : SUBSET Seen, born : {0}],
          log : Seq([ts : Nat, n : Nat, born : {0}, held : {"disk"}])]
ReadsTrue(r) ==
  bucket_throttling(r.throttle, r.observed) =
    IF TRUE \in r.saw THEN TRUE ELSE IF FALSE \in r.saw THEN FALSE ELSE None
Ordered(events) == \A i, j \in DOMAIN events : i < j => events[i].ts <= events[j].ts
Begins(start) ==
  /\ start \in Start
  /\ Ordered(start.log)
  /\ IsFiniteSet(start.rows)
  /\ \A r \in start.rows : ReadsTrue(r) /\ r.bucket % WidthOf(r.tier) = 0
  /\ ~start.viewer =>
       /\ \A r \in start.rows : r.bucket <= start.now
       /\ \A i \in DOMAIN start.log : start.log[i].ts <= start.now
       /\ Len(start.log) <= MaxEvents

ASSUME ConsoleAssumption ==
  /\ {OneMin, HalfWindow, Cols, StoryRows, Lookback, Retain, FeedCap, MaxNow, MaxCursor,
      MaxEvents} \subseteq Nat
  /\ Cols > 0 /\ StoryRows > 0 /\ OneMin > 0 /\ FeedCap > 0
  /\ Rungs \in Seq([span : Nat, tier : Tiers]) /\ DefaultZoom \in DOMAIN Rungs
  /\ Steps \subseteq Nat \ {0} /\ Scrubs \subseteq Nat /\ Jumps \subseteq Nat
  /\ Told \subseteq Nat /\ Failures \subseteq SUBSET Writes
  /\ Readings \in [Paths -> SUBSET Seen]
  /\ None \notin Nat /\ None \notin BOOLEAN /\ None # {}
  /\ None \notin {"no_persistence", "unreadable"}
  /\ None \notin Seq(EventType) \union Window \union Replay
  /\ \A start \in Starts : Begins(start)

VARIABLES
  now,       \* the wall clock
  acc,       \* per tier: the bucket the recorder is filling, or None
  rows,      \* rollup rows on disk
  log,       \* events on disk
  frame,     \* the frame between the disk and Shared, or None
  feed,      \* Shared::history.events, oldest first
  tick_seq,  \* Shared::tick_seq
  viewer,    \* the session is pinned to a file
  path,      \* Shared::db_path: none, or a file that opens or does not
  pc,        \* where the UI loop stands
  mode, cursor, sel, hint, tcur, zoom,
  twin,      \* the cached timeline window, or None
  built,     \* timeline_built_seq
  rwin,      \* the cached replay window, or None
  job,       \* the query under way, or None
  shown      \* what the last draw put on screen

thread == <<now, acc, rows, log, frame, feed, tick_seq>>
fixed  == <<viewer, path>>
ui     == <<pc, mode, cursor, sel, hint, tcur, zoom, twin, built, rwin, job, shown>>
vars   == <<thread, fixed, ui>>

-----------------------------------------------------------------------------
(* Queries.                                                                *)

RowsBetween(tier, from, to) ==
  {r \in rows : r.tier = tier /\ from <= r.bucket /\ r.bucket <= to}

Buckets == {r.bucket : r \in rows}
MinOf(S) == CHOOSE x \in S : \A y \in S : x <= y
MaxOf(S) == CHOOSE x \in S : \A y \in S : y <= x

\* Oldest first: events enter the log in time order, so those of a window are
\* a stretch of it.
events_between(from, to) ==
  LET within == {i \in DOMAIN log : from <= log[i].ts /\ log[i].ts <= to}
  IN IF within = {} THEN <<>> ELSE SubSeq(log, MinOf(within), MaxOf(within))

earliest_bucket_ms == IF rows = {} THEN None ELSE MinOf(Buckets)
latest_bucket_ms   == IF rows = {} THEN None ELSE MaxOf(Buckets)
latest_event_ms    == IF log = <<>> THEN None ELSE MaxOf({log[i].ts : i \in DOMAIN log})

\* The newest process bucket at or before the cursor's, within Lookback.
processes_at(at) ==
  LET near == {r.bucket : r \in RowsBetween("10s", SatSub(KeyOf(at, TEN_SEC), Lookback),
                                            KeyOf(at, TEN_SEC))}
  IN IF near = {} THEN None ELSE MaxOf(near)

\* End of recorded coverage: the newest bucket plus the width of a 10s one,
\* or the newest event past it.
recorded_end ==
  LET ends == {b + TEN_SEC : b \in {x \in Buckets : x = latest_bucket_ms}}
              \union {log[i].ts : i \in DOMAIN log}
  IN IF ends = {} THEN None ELSE MaxOf(ends)

-----------------------------------------------------------------------------
(* The collection thread: a tick reaches the disk, then Shared.            *)

Event(ts, n, failed) == [ts |-> ts, n |-> n, born |-> tick_seq + 1,
                         held |-> IF "events" \in failed THEN "memory" ELSE "disk"]
NewEvents(ts, k, failed) == [i \in 1..k |-> Event(ts, Len(log) + i, failed)]

NoBucket(tier) == [key |-> None, throttle |-> 0, observed |-> 0, saw |-> {}]

\* SampleAccum::fold: an unobservable bitmask counts nowhere.
Fold(a, th) == [a EXCEPT !.throttle = @ + (IF th = TRUE THEN 1 ELSE 0),
                         !.observed = @ + (IF th = None THEN 0 ELSE 1),
                         !.saw = @ \union {th}]

Row(tier, a) == [tier |-> tier, bucket |-> a.key, throttle |-> a.throttle,
                 observed |-> a.observed, saw |-> a.saw, born |-> tick_seq + 1]

\* A frame that crosses into the next bucket sends the finished one to disk.
Crossed(ts) == {tier \in Tiers : acc[tier].key \notin {None, KeyOf(ts, WidthOf(tier))}}

Accumulate(ts, th) ==
  [tier \in Tiers |->
     LET key == KeyOf(ts, WidthOf(tier)) IN
     Fold(IF acc[tier].key = key THEN acc[tier] ELSE [NoBucket(tier) EXCEPT !.key = key], th)]

\* Without a frame nothing is written.
OnlyFrames(answers, events) == IF answers THEN events ELSE <<>>

\* What a tick writes to the event log: all it tells, the narration of a
\* panic or of a lost device too.
Recorded(answers, events) == events

\* A tick at `ts`: the device answers with `th` or gives no frame, `k` events
\* are told, old 10s rows may be pruned. A row whose write fails is dropped;
\* events go on to Shared whether or not they were stored. Without a recorder
\* nothing is written.
Persist(ts, answers, th, k, due, failed) ==
  LET done == IF answers THEN {Row(tier, acc[tier]) : tier \in Crossed(ts) \ failed} ELSE {}
      kept == {r \in rows : due /\ r.tier = "10s" => r.bucket + Retain >= ts}
      told == NewEvents(ts, k, failed)
  IN /\ ~viewer /\ frame = None
     /\ ts <= MaxNow /\ Len(log) + k <= MaxEvents
     /\ path = "none" => failed = Writes
     /\ now' = ts
     /\ acc' = IF answers THEN Accumulate(ts, th) ELSE acc
     /\ rows' = kept \union done
     /\ log' = IF "events" \in failed THEN log ELSE log \o Recorded(answers, told)
     /\ frame' = told
     /\ UNCHANGED <<feed, tick_seq, fixed, ui>>

Capped(s) == IF Len(s) <= FeedCap THEN s ELSE SubSeq(s, Len(s) - FeedCap + 1, Len(s))

\* Under the lock: the frame's events and the tick count.
FoldFrame ==
  /\ frame # None
  /\ feed' = Capped(feed \o frame)
  /\ tick_seq' = tick_seq + 1
  /\ frame' = None
  /\ UNCHANGED <<now, acc, rows, log, fixed, ui>>

Thread ==
  \/ \E d \in Steps, answers, due \in BOOLEAN, th \in Readings[path], k \in Told,
        failed \in Failures :
       Persist(now + d, answers, th, k, due, failed)
  \/ FoldFrame

-----------------------------------------------------------------------------
(* The UI loop.  A query is several reads; `job` carries what it has read. *)

\* What a seek does to the selection: it stays, it goes, or it follows an
\* event's time.
Keep   == None
Drop   == {}
To(ts) == {ts}

\* Where the loop goes once the query under way is done.
Seek(c, follow) == [op |-> "replay", cur |-> c, follow |-> follow]

\* timeline_refresh up to the lock: the window's edges.
WindowFor(rung, cur, then) ==
  LET to    == IF viewer /\ recorded_end # None THEN recorded_end ELSE now
      start == SatSub(to, rung.span)
      early == earliest_bucket_ms
      clamped == early # None /\ early > start
  IN [op |-> "timeline", cur |-> cur, then |-> then,
      from |-> KeyOf(IF clamped THEN early ELSE start, WidthOf(rung.tier)),
      to |-> to, clamped |-> clamped, tier |-> rung.tier, seq |-> None,
      samples |-> {}]

BeginRefresh(z, cur, then) ==
  /\ job' = WindowFor(Rungs[z], cur, then)
  /\ pc' = "lock"

\* Under the lock: the tick this window will claim to be current with.
ReadSeq ==
  /\ pc = "lock"
  /\ job' = [job EXCEPT !.seq = tick_seq]
  /\ pc' = "rows"
  /\ UNCHANGED <<thread, fixed, mode, cursor, sel, hint, tcur, zoom,
                 twin, built, rwin, shown>>

\* The indexed read of the rows; the events are read after it.
ReadRows ==
  /\ pc = "rows"
  /\ job' = [job EXCEPT !.samples = RowsBetween(job.tier, job.from, job.to)]
  /\ pc' = "events"
  /\ UNCHANGED <<thread, fixed, mode, cursor, sel, hint, tcur, zoom,
                 twin, built, rwin, shown>>

\* The count is read after the rows.
LateSeq(seq) == tick_seq
BuiltSeq(seq) == seq

CursorIn(x, lo, hi) == Clamp(x, lo, hi)

ReadWindow ==
  /\ pc = "events"
  /\ twin' = [from |-> job.from, to |-> job.to, tier |-> job.tier,
              clamped |-> job.clamped,
              samples |-> job.samples,
              events |-> events_between(job.from, job.to)]
  /\ tcur' = CursorIn(IF job.cur = None THEN job.to ELSE job.cur, job.from, job.to)
  /\ built' = BuiltSeq(job.seq)
  /\ job' = None
  /\ pc' = job.then
  /\ UNCHANGED <<thread, fixed, mode, cursor, sel, hint, zoom, rwin, shown>>

\* The first event of the window with this time.
PositionOf(events, ts) ==
  LET at == {i \in DOMAIN events : events[i].ts = ts}
  IN IF at = {} THEN None ELSE MinOf(at) - 1

\* App::seek: the cursor moves at once, the window follows.
BeginSeek(c, follow) ==
  /\ cursor' = c
  /\ job' = Seek(c, follow)
  /\ pc' = "seek"

Follows == IF job = None \/ job.op # "replay" \/ job.follow = Keep THEN {} ELSE job.follow

ReadReplay ==
  /\ pc = "seek"
  /\ LET from == SatSub(cursor, HalfWindow)
         to   == cursor + HalfWindow
         evs  == events_between(from, to)
     IN /\ rwin' = [from |-> from, to |-> to, samples |-> RowsBetween("10s", from, to),
                    procs |-> processes_at(cursor), events |-> evs]
        /\ \/ job.follow = Keep /\ UNCHANGED sel
           \/ job.follow = Drop /\ sel' = None
           \/ \E ts \in Follows : sel' = PositionOf(evs, ts)
  /\ job' = None
  /\ pc' = "pass"
  /\ UNCHANGED <<thread, fixed, mode, cursor, hint, tcur, zoom, twin,
                 built, shown>>

\* Only a cursor on the edge asks for news.
StaleAtTheEdge == mode = "timeline" /\ ~viewer /\ tick_seq # built /\ tcur = twin.to

\* timeline_tick: a window is stale once a newer frame was folded.
Stale == mode = "timeline" /\ ~viewer /\ tick_seq # built

\* A cursor on the newest edge rides it, any other keeps its place.
RideAlong == IF tcur < twin.to THEN tcur ELSE None

Tick ==
  /\ pc = "pass" /\ Stale
  /\ BeginRefresh(zoom, RideAlong, "draw")
  /\ UNCHANGED <<thread, fixed, mode, cursor, sel, hint, tcur, zoom,
                 twin, built, rwin, shown>>

Feed == IF mode = "live" THEN feed
        ELSE IF mode = "replay" /\ rwin # None THEN rwin.events ELSE <<>>

\* The event of the selected row: the live feed shows the newest first.
Selected ==
  IF sel = None \/ sel >= Len(Feed) THEN None
  ELSE IF mode = "live" THEN Feed[Len(Feed) - sel] ELSE Feed[sel + 1]

\* The first row of the story pane and the selected event's row in it.
Marker   == marker_at(Feed, cursor)
PaneTop  == IF mode = "live" THEN IF sel = None THEN 0 ELSE Skip(sel, StoryRows)
            ELSE Skip(ReplayFocus(sel, Marker), StoryRows)
RowOf(i) == IF mode = "live" THEN i ELSE ReplayRow(i, Marker)

\* The columns of the overview's strips, and the points of replay's charts in
\* time order.
Painted(w) == timeline_columns({r.bucket : r \in w.samples}, w.from, w.to, WidthOf(w.tier), Cols)
Points(samples) ==
  LET keys == {r.bucket : r \in samples}
  IN [i \in 1..Cardinality(keys) |-> CHOOSE k \in keys : Cardinality({x \in keys : x <= k}) = i]

\* What Esc promises to do, from the footer.
Back == IF mode = "live" THEN "quit"
        ELSE IF mode = "replay" THEN IF viewer THEN "stay" ELSE "live"
        ELSE IF viewer THEN "replay" ELSE "live"

Draw ==
  /\ pc \in {"pass", "draw"}
  /\ pc = "pass" => ~Stale
  /\ shown' = [event |-> Selected, back |-> Back, seq |-> tick_seq]
  /\ pc' = "poll"
  /\ UNCHANGED <<thread, fixed, mode, cursor, sel, hint, tcur, zoom,
                 twin, built, rwin, job>>

\* No key within the poll's 250 ms, or a key that does nothing.
Idle ==
  /\ pc = "poll"
  /\ pc' = "pass"
  /\ UNCHANGED <<thread, fixed, mode, cursor, sel, hint, tcur, zoom,
                 twin, built, rwin, job, shown>>

-----------------------------------------------------------------------------
(* Keys.                                                                   *)

Opens == path = "ok"

\* Recording is off, or the file does not open: the footer names the cause.
Blocked == IF path = "none" THEN "no_persistence" ELSE "unreadable"

DeadKey ==
  /\ ~Opens
  /\ hint' = Blocked
  /\ pc' = "pass"
  /\ UNCHANGED <<mode, cursor, sel, tcur, zoom, twin, built, rwin, job, shown>>

\* What a view cached is overwritten when it is entered again and read by
\* nothing else, so it is forgotten here when the view is left.
LeaveTimeline == twin' = None /\ built' = 0 /\ tcur' = 0
LeaveReplay   == rwin' = None /\ cursor' = 0

\* Replay at a moment, or with none given at the newest bucket.
enter_replay(c) ==
  \/ DeadKey
  \/ /\ Opens
     /\ mode' = "replay"
     /\ hint' = None
     /\ sel' = None
     /\ BeginSeek(IF c # None THEN c
                  ELSE IF latest_bucket_ms # None THEN latest_bucket_ms ELSE now,
                  IF c # None THEN To(c) ELSE Drop)
     /\ LeaveTimeline
     /\ UNCHANGED <<zoom, rwin, shown>>

\* From replay the cursor carries over, from live it starts at the edge.
enter_timeline ==
  \/ DeadKey
  \/ /\ Opens
     /\ mode' = "timeline"
     /\ hint' = None
     /\ sel' = None
     /\ BeginRefresh(zoom, IF mode = "replay" THEN cursor ELSE None, "pass")
     /\ IF viewer THEN UNCHANGED <<cursor, rwin>> ELSE LeaveReplay
     /\ UNCHANGED <<tcur, zoom, twin, built, shown>>

OpenReplay   == mode = "live" /\ enter_replay(None)
OpenTimeline == mode \in {"live", "replay"} /\ enter_timeline

\* The feed of the moment, not the one drawn.
FeedAt(i) == Feed[Len(Feed) - i]

\* Enter on a row of the live feed.
OpenEvent ==
  /\ mode = "live" /\ Selected # None
  /\ enter_replay(FeedAt(sel).ts)

\* Up and Down: a first press selects the top row, the index stays in range.
move_story_selection(d) ==
  /\ mode \in {"live", "replay"}
  /\ sel' = IF Len(Feed) = 0 THEN None
            ELSE IF sel = None THEN 0
            ELSE Lesser(IF d > 0 THEN sel + 1 ELSE SatSub(sel, 1), Len(Feed) - 1)
  /\ pc' = "pass"
  /\ UNCHANGED <<mode, cursor, hint, tcur, zoom, twin, built, rwin, job, shown>>

\* Esc: live quits, replay and timeline step down, a file stays in replay.
Escape ==
  /\ \/ /\ mode = "live"
        /\ pc' = "done"
        /\ UNCHANGED <<mode, sel, cursor, rwin, twin, built, tcur>>
     \/ /\ mode = "replay"
        /\ pc' = "pass"
        /\ IF viewer THEN UNCHANGED <<mode, sel, cursor, rwin>>
           ELSE mode' = "live" /\ sel' = None /\ LeaveReplay
        /\ UNCHANGED <<twin, built, tcur>>
     \/ /\ mode = "timeline"
        /\ pc' = "pass"
        /\ mode' = IF viewer THEN "replay" ELSE "live"
        /\ LeaveTimeline
        /\ UNCHANGED <<sel, cursor, rwin>>
  /\ UNCHANGED <<hint, zoom, job, shown>>

\* Scrub within the recorded range.
scrub(d, back) ==
  LET target == IF back THEN SatSub(cursor, d) ELSE cursor + d IN
  /\ mode = "replay"
  /\ target <= MaxCursor   \* a bound
  /\ BeginSeek(IF rows = {} THEN target
               ELSE Clamp(target, earliest_bucket_ms, latest_bucket_ms), Keep)
  /\ UNCHANGED <<mode, sel, hint, tcur, zoom, twin, built, rwin, shown>>

ToEnd(end) ==
  /\ mode = "replay" /\ rows # {}
  /\ BeginSeek(end, Keep)
  /\ UNCHANGED <<mode, sel, hint, tcur, zoom, twin, built, rwin, shown>>

\* Enter on a row of replay: the cursor goes to the event.
JumpToEvent ==
  /\ mode = "replay" /\ Selected # None
  /\ BeginSeek(Selected.ts, To(Selected.ts))
  /\ UNCHANGED <<mode, sel, hint, tcur, zoom, twin, built, rwin, shown>>

timeline_rezoom(wider) ==
  LET z == IF wider THEN Lesser(zoom + 1, Len(Rungs)) ELSE Greater(zoom - 1, 1) IN
  /\ mode = "timeline"
  /\ zoom' = z
  /\ BeginRefresh(z, tcur, "pass")
  /\ UNCHANGED <<mode, cursor, sel, hint, tcur, twin, built, rwin, shown>>

MoveCursor(c) ==
  /\ mode = "timeline"
  /\ tcur' = c
  /\ pc' = "pass"
  /\ UNCHANGED <<mode, cursor, sel, hint, zoom, twin, built, rwin, job, shown>>

\* Steps of rendered columns, within the window.
timeline_step(cols, back) ==
  LET delta == cols * Greater(SpanOf(twin.from, twin.to) \div Cols, 1)
  IN MoveCursor(CursorIn(IF back THEN SatSub(tcur, delta) ELSE tcur + delta,
                         twin.from, twin.to))

DrillDown == mode = "timeline" /\ enter_replay(tcur)

\* Keys in the order of handle_key_live, _replay and _timeline.
handle_key ==
  \/ pc' = "done" /\ UNCHANGED <<mode, cursor, sel, hint, tcur, zoom, twin, built,
                                 rwin, job, shown>>
  \/ Escape
  \/ OpenReplay
  \/ OpenTimeline
  \/ OpenEvent
  \/ \E d \in {0, 1} : move_story_selection(d)
  \/ \E d \in Scrubs, back \in BOOLEAN : scrub(d, back)
  \/ ToEnd(earliest_bucket_ms)
  \/ ToEnd(latest_bucket_ms)
  \/ JumpToEvent
  \/ \E wider \in BOOLEAN : timeline_rezoom(wider)
  \/ mode = "timeline" /\ \E cols \in Jumps, back \in BOOLEAN : timeline_step(cols, back)
  \/ mode = "timeline" /\ MoveCursor(twin.from)
  \/ mode = "timeline" /\ MoveCursor(twin.to)
  \/ DrillDown

Key ==
  /\ pc = "poll"
  /\ handle_key
  /\ UNCHANGED <<thread, fixed>>

Loop == Tick \/ ReadSeq \/ ReadRows \/ ReadWindow \/ ReadReplay \/ Draw \/ Idle

-----------------------------------------------------------------------------
(* A live session starts in the live view; a file opens in replay at its   *)
(* newest event, or its newest bucket.                                     *)

Init ==
  /\ \E start \in Starts :
       /\ viewer = start.viewer /\ path = start.path
       /\ rows = start.rows /\ log = start.log /\ now = start.now
       /\ mode = IF start.viewer THEN "replay" ELSE "live"
       /\ pc = IF start.viewer THEN "seek" ELSE "pass"
  /\ acc = [tier \in Tiers |-> NoBucket(tier)]
  /\ frame = None /\ feed = <<>> /\ tick_seq = 0
  /\ cursor = IF ~viewer THEN 0
              ELSE IF latest_event_ms # None THEN latest_event_ms
              ELSE IF latest_bucket_ms # None THEN latest_bucket_ms ELSE now
  /\ job = IF viewer THEN Seek(cursor, IF log # <<>> THEN To(latest_event_ms) ELSE Drop)
           ELSE None
  /\ sel = None /\ hint = None /\ tcur = 0 /\ zoom = DefaultZoom
  /\ twin = None /\ built = 0 /\ rwin = None
  /\ shown = [event |-> None, back |-> "none", seq |-> 0]

Next == Thread \/ Loop \/ Key

\* The UI thread is scheduled and its poll times out; no key is ever pressed
\* and no tick ever taken for sure.
Spec == Init /\ [][Next]_vars /\ WF_vars(Loop)

-----------------------------------------------------------------------------
(* Properties.                                                             *)

Refreshing == pc \in {"lock", "rows", "events"}
Settled == pc = "poll"
Overview == mode = "timeline" /\ ~Refreshing /\ twin # None

Maybe(S) == S \union {None}

TypeOK ==
  /\ now \in Nat /\ tick_seq \in Nat /\ built \in Nat
  /\ rows \subseteq Rollup /\ log \in Seq(EventType) /\ feed \in Seq(EventType)
  /\ viewer \/ Len(log) <= MaxEvents
  /\ Len(feed) <= FeedCap
  /\ viewer \in BOOLEAN /\ path \in Paths
  /\ pc \in {"pass", "draw", "poll", "lock", "rows", "events", "seek", "done"}
  /\ mode \in {"live", "replay", "timeline"}
  /\ sel \in Maybe(Nat) /\ zoom \in DOMAIN Rungs
  /\ hint \in Maybe({"no_persistence", "unreadable"})
  /\ cursor \in Nat /\ tcur \in Nat
  /\ twin \in Maybe(Window) /\ rwin \in Maybe(Replay)

\* An overview that counts as current with a tick holds everything that tick
\* and those before it put on disk within its edges.  Otherwise a row written
\* during the query would stay off screen until the next tick, and with the
\* collection paused for good (timeline_refresh reads tick_seq before the
\* rows).
WindowHoldsItsTick ==
  mode = "timeline" /\ ~Refreshing =>
    /\ \A r \in RowsBetween(twin.tier, twin.from, twin.to) : r.born <= built => r \in twin.samples
    /\ \A i \in DOMAIN log :
         log[i].born <= built /\ twin.from <= log[i].ts /\ log[i].ts <= twin.to
         => \E j \in DOMAIN twin.events : twin.events[j] = log[i]

\* The overview's cursor is inside the window on screen, whatever moved it or
\* the window's edges: zooming, new ticks, pruning of the oldest rows.
CursorInWindow == Overview => twin.from <= tcur /\ tcur <= twin.to

\* What replay shows surrounds its cursor, from whichever view it was entered
\* and however it was left before (seek is the only way to move the cursor).
ReplayFramesCursor ==
  mode = "replay" /\ Settled =>
    /\ rwin # None
    /\ rwin.from = SatSub(cursor, HalfWindow) /\ rwin.to = cursor + HalfWindow
    /\ rwin.procs # None => rwin.procs <= cursor

\* A refresh by a new tick keeps a cursor on the newest edge there and one
\* inside the window at its moment, unless that moment left the window.
EdgeRides ==
  pc = "events" /\ pc' = "draw" =>
    IF tcur = twin.to THEN tcur' = twin'.to
    ELSE twin'.from <= tcur => tcur' = tcur

\* Enter opens the event the screen highlighted, unless a tick reached the
\* live feed after it was drawn.
EntersAnEvent == pc = "poll" /\ pc' = "seek" /\ job'.follow \notin {Keep, Drop}
                 /\ mode # "timeline"
EnterOpensWhatIsShown ==
  EntersAnEvent /\ (mode = "live" => tick_seq = shown.seq)
    => shown.event # None /\ cursor' = shown.event.ts

\* The selected event, or in replay the cursor's row, is within its pane.
SelectionIsVisible ==
  Settled /\ mode # "timeline" =>
    \A row \in IF Selected # None THEN {RowOf(sel)}
               ELSE IF mode = "replay" /\ sel = None THEN {Marker} ELSE {} :
      PaneTop <= row /\ row < PaneTop + StoryRows

\* An event of the live feed that could be stored is found in the recording:
\* replay opened on it selects an event of its moment, since a tick is on disk
\* before it is folded. One whose write failed is in the feed alone.
LiveEventIsFound ==
  pc = "seek" /\ pc' = "pass"
  /\ (\E i \in DOMAIN feed : feed[i].held = "disk" /\ feed[i].ts \in Follows)
    => sel' # None

\* A column of a strip is painted if and only if something was recorded in
\* the time it owns: no hole is papered over and no recorded moment is blank.
Instants(w, c) ==
  {t \in w.from..(w.to - 1) : timeline_col_of(t, w.from, w.to - w.from, Cols) = c}
Covered(samples, width, t) == \E r \in samples : r.bucket <= t /\ t < r.bucket + width
HolesAreHoles ==
  Overview /\ twin.to - twin.from >= Cols =>
    \A c \in 0..(Cols - 1) :
      c \in Painted(twin)
      <=> \E t \in Instants(twin, c) : Covered(twin.samples, WidthOf(twin.tier), t)

\* Every event of the overview is in one cell of the lane, under a painted
\* column if its moment is recorded (strip and lane map time alike).
EventsOverTheirData ==
  Overview =>
    \A i \in DOMAIN twin.events :
      LET e == twin.events[i]
          cells == {c \in 0..(Cols - 1) :
                      e \in LaneCell({e}, twin.from, twin.to, Cols, c)}
      IN /\ \E c \in cells : cells = {c}
         /\ e.ts < twin.to /\ Covered(twin.samples, WidthOf(twin.tier), e.ts)
            => cells \subseteq Painted(twin)

\* The replay chart's trace lies over exactly the recorded buckets, and the
\* filled style leaves no blank between two of its dots that the outline
\* does not leave.
TraceIsTheRecording ==
  mode = "replay" /\ Settled =>
    LET pts  == Points(rwin.samples)
        runs == step_segments(pts, TEN_SEC)
    IN \A t \in rwin.from..rwin.to + TEN_SEC :
         LET drawn == \E h \in runs : h.from <= t /\ t < h.to IN
         /\ drawn <=> Covered(rwin.samples, TEN_SEC, t)
         /\ drawn <=> \E x \in wave_dots(pts, TEN_SEC) :
                        x <= t /\ t < x + SOLID_STEP_S /\ \E h \in runs : h.from <= x /\ x < h.to

\* The throttle flag of a row says throttling if a frame of it throttled,
\* quiet if one was seen quiet and none throttling, n/a if none could be seen.
ThrottleReadsTrue == \A r \in rows : ReadsTrue(r)

\* The overview of a file that is narrower than its zoom shows the whole
\* file: every 10s bucket in full and every event.
ViewerShowsItsEnd ==
  viewer /\ Overview =>
    /\ \A r \in rows : r.tier = "10s" => r.bucket + TEN_SEC <= twin.to
    /\ \A i \in DOMAIN log : log[i].ts <= twin.to

\* Esc does what the footer drawn last said it would; in a file it never
\* reaches a live view that does not exist.
EscapeGoesBack ==
  pc = "poll" /\ mode' # mode /\ pc' = "pass"
    => shown.back = mode' /\ (viewer => mode' # "live")

\* What is painted is what was recorded around the cursor, each moment once.
PaintsTheRecording ==
  /\ ReplayFramesCursor /\ TraceIsTheRecording /\ ThrottleReadsTrue
  /\ HolesAreHoles /\ EventsOverTheirData

\* The window on screen holds its tick, its cursor, the selected event and, in
\* a file, the end of the recording.
WindowIsCurrent ==
  WindowHoldsItsTick /\ CursorInWindow /\ SelectionIsVisible /\ ViewerShowsItsEnd

\* Where the user is looking moves only as the screen said: refreshes leave
\* the cursor at its moment or on the edge, Enter opens what is highlighted and
\* finds it in the recording if it was stored, Esc goes back where the footer said.
LookingIsHeld ==
  [][EdgeRides /\ EnterOpensWhatIsShown /\ LiveEventIsFound /\ EscapeGoesBack]_vars

\* The overview catches up with every tick, or the user leaves it.
OverviewCatchesUp ==
  mode = "timeline" /\ ~viewer /\ tick_seq # built
    ~> tick_seq = built \/ mode # "timeline" \/ pc = "done"
=============================================================================
