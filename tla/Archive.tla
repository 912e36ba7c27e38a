------------------------------ MODULE Archive ------------------------------
(***************************************************************************)
(* One recording through its life as a file                                *)
(* (crates/history/src/store.rs: init_schema and its migrations, the       *)
(* inserts, prune, export_to, copy_window; crates/tui/src/main.rs:         *)
(* run_export, run_report, parse_spec).                                    *)
(*                                                                         *)
(* The present build, behind the instance lock, and older builds without   *)
(* it write the file. Beside them an export copies a window into a file of *)
(* its own and a report reads one; neither takes the lock. Any of them may *)
(* die between two statements. A transaction is one step, but for the      *)
(* export's, whose reads are all of the moment of its first.               *)
(***************************************************************************)
EXTENDS Integers, Sequences

CONSTANTS
  Lines,      \* narrations but for their time: a device, a kind and a title
  FirstFiles, \* the recordings the path may hold at first
  Asked,      \* the --since specs a user may give
  Day,        \* length of a day
  Retention,  \* how long the rows of each table are kept
  MaxNow,     \* last instant of the model
  MaxInserts, \* bound on the insert transactions
  OldBuilds,  \* whether a build from before the lock writes alongside
  None        \* no file, no spec, nothing in progress

SCHEMA_VERSION == 3
Tiers == {"10s", "1m"}
Width == [tier \in Tiers |-> IF tier = "10s" THEN 1 ELSE 2]
Bucket(tier, t) == t - (t % Width[tier])
Instants == 0..MaxNow

\* The throttle columns of a sample table, in the order SCHEMA_SQL declares
\* them and in the order the statements name them.
TableCols == <<"throttled", "observed", "thermal", "power", "hw">>
SampleCols == <<"throttled", "thermal", "power", "hw", "observed">>
Columns == {SampleCols[i] : i \in DOMAIN SampleCols}

\* What the frames of a bucket said of throttling: it could not be read, it
\* was clear, or it was set for heat.
Counts == [blind |-> {}, clear |-> {"observed"}, hot |-> {"throttled", "thermal", "observed"}]
Reading(said) == [c \in Columns |-> IF c \in Counts[said] THEN 1 ELSE 0]

Row == [tier : Tiers, bucket : Instants, cells : [Columns -> {0, 1}]]
Event == [id : Nat, ts : Instants, line : Lines]
File == [tables : BOOLEAN, ver : 0..SCHEMA_VERSION, index : BOOLEAN,
         cols : SUBSET Tiers, log : SUBSET Event, rows : SUBSET Row, seq : Nat]

Ago == [ago : Nat]
Clock == [at : 0..(Day - 1)]

Key(e) == <<e.ts, e.line>>
Keys(log) == {Key(e) : e \in log}

\* AUTOINCREMENT: each row has an id of its own, and none is given twice.
Numbered(file) ==
  /\ \A e \in file.log : e.id <= file.seq
  /\ \A e, f \in file.log : e.id = f.id => e = f

\* The unique index holds one row of each narration.
Once(file) == file.index => \A e, f \in file.log : Key(e) = Key(f) => e = f

\* A version's shape: v2 brought the index, v3 the throttle column.
Shaped(file) ==
  /\ file.ver >= 2 => file.tables /\ file.index
  /\ file.ver = SCHEMA_VERSION => file.cols = Tiers

\* A row is under its bucket's first instant.
Bucketed(file) == \A r \in file.rows : r.bucket = Bucket(r.tier, r.bucket)

ASSUME ArchiveAssumption ==
  /\ Day \in Nat \ {0} /\ MaxNow \in Nat /\ MaxInserts \in Nat
  /\ Retention \in [Tiers \union {"events"} -> Nat]
  /\ OldBuilds \in BOOLEAN
  /\ Asked \subseteq {None} \union Ago \union Clock
  /\ None \notin Tiers
  /\ \A f \in FirstFiles :
       f \in File /\ Numbered(f) /\ Once(f) /\ Shaped(f) /\ Bucketed(f)

VARIABLES
  db,       \* the recording
  pc,       \* the present build: "off", the next step of its open, or "on"
  now,      \* the wall clock
  inserts,  \* insert transactions so far
  first,    \* the row that first told each narration (history)
  out,      \* the export's file, or None
  exp,      \* the export in progress, or None
  verdict,  \* how the last export ended
  moments,  \* what its window held, since its first read (history)
  rep,      \* the last report, or None
  kept      \* what its window held from its start on (history)

recording == <<db, pc, now, inserts, first>>
export == <<out, exp, verdict>>
vars == <<recording, export, moments, rep, kept>>

-----------------------------------------------------------------------------
(* What a window holds *)

In(t, w) == w.from <= t /\ t <= w.to
FirstId(log, k) ==
  (CHOOSE e \in log : Key(e) = k /\ \A f \in log : Key(f) = k => e.id <= f.id).id

EventsIn(file, w) == {e \in file.log : In(e.ts, w)}
RowsIn(file, tier, w) == {r \in file.rows : r.tier = tier /\ In(r.bucket, w)}

\* Mutant: of equal narrations the last stays.
Originals_Latest(log) == {e \in log : \A f \in log : Key(f) = Key(e) => f.id <= e.id}

\* Of equal narrations the first stays: ids are append-ordered.
Originals(log) == {e \in log : \A f \in log : Key(f) = Key(e) => e.id <= f.id}

\* Replay's three readings of a bucket (ui.rs: bucket_throttling).
Throttling(r) ==
  IF r.cells["throttled"] > 0 THEN "yes"
  ELSE IF r.cells["observed"] = 0 THEN "unknown" ELSE "no"

\* The narrations of some events, each as first told, and which rows there are
\* and what they say.
Content(events, rows) ==
  [told |-> {e \in events : ~\E f \in events : Key(f) = Key(e) /\ f.id < e.id},
   rows |-> {<<r.tier, r.bucket>> : r \in rows},
   says |-> {<<r.tier, r.bucket, Throttling(r)>> : r \in rows}]

Held(file, w) == Content(EventsIn(file, w), {r \in file.rows : In(r.bucket, w)})

Kept(file, w) == [events |-> EventsIn(file, w),
                  rows |-> {<<r.tier, r.bucket>> : r \in {r \in file.rows : In(r.bucket, w)}}]

\* What a recording is to the export and the report in progress.
Seen ==
  /\ moments' = IF exp # None /\ exp.read # None
                THEN moments \union {Held(db', exp)} ELSE moments
  /\ kept' = IF rep = None THEN kept
             ELSE [events |-> kept.events \intersect Kept(db', rep).events,
                   rows |-> kept.rows \intersect Kept(db', rep).rows]

-----------------------------------------------------------------------------
(* init_schema: each statement, or transaction, is a step *)

Goes(from, to) == pc = from /\ pc' = to

\* CREATE TABLE IF NOT EXISTS: a new table has the present shape.
Created == [db EXCEPT !.tables = TRUE, !.cols = IF db.tables THEN db.cols ELSE Tiers]

\* Mutant: the version is stamped with the tables, before the migrations.
Tables_Stamps ==
  Goes("tables", "dedupe") /\ db' = [Created EXCEPT !.ver = SCHEMA_VERSION]

Tables == Goes("tables", "dedupe") /\ db' = Created

\* migrate_event_dedupe: one transaction, gated on the index.
Dedupe ==
  /\ Goes("dedupe", "10s")
  /\ db' = IF db.index THEN db
           ELSE [db EXCEPT !.log = Originals(db.log), !.index = TRUE]

\* migrate_throttle_observed: table by table, gated on the column.
AddColumn ==
  /\ Goes("10s", "1m") \/ Goes("1m", "stamp")
  /\ db' = [db EXCEPT !.cols = db.cols \union {pc}]

Stamp == Goes("stamp", "on") /\ db' = [db EXCEPT !.ver = SCHEMA_VERSION]

\* try_open_init refuses a newer file before this; here none is newer.
Migrate ==
  /\ Tables \/ Dedupe \/ AddColumn \/ Stamp
  /\ Seen
  /\ UNCHANGED <<now, inserts, first, export, rep>>

\* open, and its end by a close or a death at any step. A statement is whole
\* or undone.
Open == Goes("off", "tables") /\ UNCHANGED db
Close == pc # "off" /\ pc' = "off" /\ UNCHANGED db

-----------------------------------------------------------------------------
(* The writers *)

\* The events of a tick, in order.
Batches == {<<l>> : l \in Lines} \union {<<l, m>> : l, m \in Lines}
Stored(batch) == {[id |-> db.seq + i, ts |-> now, line |-> batch[i]] : i \in DOMAIN batch}

\* INSERT OR IGNORE against the unique index.
Unseen(events) == {e \in Originals(events) : Key(e) \notin Keys(db.log)}

Landing(events) ==
  /\ db' = [db EXCEPT !.log = db.log \union events, !.seq = db.seq + 2]
  /\ first' = [k \in DOMAIN first \union Keys(events) |->
                 IF k \in DOMAIN first THEN first[k]
                 ELSE FirstId(events, k)]

Inserts == inserts < MaxInserts /\ inserts' = inserts + 1

InsertEvents(batch) ==
  /\ pc = "on" /\ Inserts
  /\ Landing(Unseen(Stored(batch)))
  /\ UNCHANGED pc

\* INSERT OR REPLACE of the row of the bucket.
Replaced(tier, cells) ==
  LET b == Bucket(tier, now)
  IN {r \in db.rows : ~(r.tier = tier /\ r.bucket = b)}
       \union {[tier |-> tier, bucket |-> b, cells |-> cells]}

InsertRow(tier, said) ==
  /\ pc = "on" /\ Inserts
  /\ db' = [db EXCEPT !.rows = Replaced(tier, Reading(said))]
  /\ UNCHANGED <<pc, first>>

Fresh(t) == t >= now - Retention["events"]

Prune ==
  /\ pc = "on"
  /\ db' = [db EXCEPT
       !.rows = {r \in db.rows : r.bucket >= now - Retention[r.tier]},
       !.log = {e \in db.log : Fresh(e.ts)}]
  /\ first' = [k \in {k \in DOMAIN first : Fresh(k[1])} |-> first[k]]
  /\ UNCHANGED <<pc, inserts>>

\* A build from before the lock: it stamps its own version, inserts events
\* plainly, so that a batch the index refuses is undone whole, and knows no
\* throttle column.
OldOpen == OldBuilds /\ db.tables /\ db' = [db EXCEPT !.ver = 1] /\ UNCHANGED first

OldEvents(batch) ==
  /\ OldBuilds /\ db.tables
  /\ db.index => Unseen(Stored(batch)) = Stored(batch)
  /\ Landing(Stored(batch))

Write ==
  /\ \/ Open /\ UNCHANGED <<inserts, first>>
     \/ Close /\ UNCHANGED <<inserts, first>>
     \/ \E batch \in Batches : InsertEvents(batch)
     \/ \E tier \in Tiers, said \in DOMAIN Counts : InsertRow(tier, said)
     \/ Prune
     \/ OldOpen /\ UNCHANGED <<pc, inserts>>
     \/ \E batch \in Batches : OldEvents(batch) /\ Inserts /\ UNCHANGED pc
  /\ Seen
  /\ UNCHANGED <<now, export, rep>>

Tick ==
  /\ now < MaxNow /\ now' = now + 1
  /\ UNCHANGED <<db, pc, inserts, first, export, moments, rep, kept>>

-----------------------------------------------------------------------------
(* parse_spec *)

Midnight(t) == t - (t % Day)
Max0(t) == IF t < 0 THEN 0 ELSE t

\* Mutant: a clock time is always one of today.
ParseSpec_Today(spec) ==
  IF spec \in Ago THEN Max0(now - spec.ago) ELSE Midnight(now) + spec.at

\* So long ago, or the last time the clock showed it.
ParseSpec(spec) ==
  IF spec \in Ago THEN Max0(now - spec.ago)
  ELSE LET today == Midnight(now) + spec.at
       IN IF today > now THEN Max0(today - Day) ELSE today

Since(spec) == IF spec = None THEN Max0(now - Day) ELSE ParseSpec(spec)

-----------------------------------------------------------------------------
(* export_to, copy_window *)

\* Refused when the output exists, by run_export and by export_to.
ExportStarts(spec) ==
  /\ exp = None /\ out = None
  /\ exp' = [pc |-> "create", from |-> Since(spec), to |-> now,
             read |-> None, log |-> {}, rows |-> {}]
  /\ verdict' = "none" /\ moments' = {}
  /\ UNCHANGED out

\* try_open_init of a fresh file.
Creates ==
  /\ exp.pc = "create"
  /\ out' = [log |-> {}, rows |-> {}, from |-> exp.from, to |-> exp.to, whole |-> FALSE]
  /\ exp' = [exp EXCEPT !.pc = "meta"]
  /\ UNCHANGED <<verdict, moments>>

\* The first read of the transaction opens its view of the recording; meta and
\* devices are copied whole.
Begins ==
  /\ exp.pc = "meta"
  /\ db.tables
  /\ exp' = [exp EXCEPT !.pc = "10s", !.read = db]
  /\ moments' = {Held(db, exp)}
  /\ UNCHANGED <<out, verdict>>

\* Mutant: no transaction; each statement reads the recording as it is.
View_Live == db

View == exp.read

\* INSERT INTO .. SELECT: the values go to the table's columns by position.
Place(c) == CHOOSE i \in DOMAIN TableCols : TableCols[i] = c
Copied(r) == [r EXCEPT !.cells = [c \in Columns |-> r.cells[SampleCols[Place(c)]]]]

CopiesRows ==
  /\ exp.pc \in Tiers /\ exp.pc \in View.cols
  /\ exp' = [exp EXCEPT !.rows = exp.rows \union {Copied(r) : r \in RowsIn(View, exp.pc, exp)},
                        !.pc = IF exp.pc = "10s" THEN "1m" ELSE "events"]
  /\ UNCHANGED <<out, verdict, moments>>

\* INSERT OR IGNORE in the order of time and id: of equal narrations the first
\* lands. The fresh ids compare as those of the recording.
CopiesEvents ==
  /\ exp.pc = "events"
  /\ exp' = [exp EXCEPT !.log = Originals(EventsIn(View, exp)), !.pc = "commit"]
  /\ UNCHANGED <<out, verdict, moments>>

Commits ==
  /\ exp.pc = "commit"
  /\ out' = [out EXCEPT !.log = exp.log, !.rows = exp.rows, !.whole = TRUE]
  /\ exp' = None /\ verdict' = "done"
  /\ UNCHANGED moments

\* Any statement may fail, and one that names a column its table lacks must.
Fails ==
  /\ out' = None
  /\ exp' = None /\ verdict' = "failed"
  /\ UNCHANGED moments

\* A killed export rolls back and removes nothing.
Dies == exp' = None /\ verdict' = "died" /\ UNCHANGED <<out, moments>>

\* The user makes room for the next.
Removes ==
  /\ exp = None /\ out # None /\ out' = None
  /\ UNCHANGED <<exp, verdict, moments>>

Export ==
  /\ \/ \E spec \in Asked : ExportStarts(spec)
     \/ exp # None /\ (Creates \/ Begins \/ CopiesRows \/ CopiesEvents \/ Commits \/ Fails \/ Dies)
     \/ Removes
  /\ UNCHANGED <<recording, rep, kept>>

-----------------------------------------------------------------------------
(* run_report, build_report *)

ReportStarts(since, until) ==
  /\ rep # None => rep.pc = "told"
  /\ rep' = [pc |-> "events", from |-> Since(since),
             to |-> IF until = None THEN now ELSE ParseSpec(until),
             held |-> {}, tier |-> None]
  /\ kept' = Kept(db, rep')

\* A query of a table that lacks the column fails, and is taken for no rows.
Queried(tier) == IF tier \in db.cols THEN RowsIn(db, tier, rep) ELSE {}

ReadsEvents ==
  /\ rep.pc = "events"
  /\ LET held == IF EventsIn(db, rep) = {} THEN {} ELSE {"events"}
     IN rep' = IF db.tables THEN [rep EXCEPT !.pc = "any", !.held = held] ELSE None

\* The minutes are asked first, the detail only when there are none.
ReadsAny ==
  /\ rep.pc \in {"any", "any10s"}
  /\ LET some == Queried(IF rep.pc = "any" THEN "1m" ELSE "10s") # {}
     IN rep' = [rep EXCEPT !.held = @ \union (IF some THEN {"rows"} ELSE {}),
                           !.pc = IF rep.pc = "any" /\ ~some THEN "any10s"
                                  ELSE IF rep.held = {} /\ ~some THEN "told" ELSE "1m"]

\* Mutant: the detail is not asked.
Asks_Minutes(some) == "told"

\* The summary line: minutes, else detail, else "no samples in window".
Asks(some) == IF ~some /\ rep.pc = "1m" THEN "10s" ELSE "told"

Summarizes ==
  /\ rep.pc \in Tiers
  /\ LET some == Queried(rep.pc) # {}
     IN rep' = [rep EXCEPT !.tier = IF some THEN rep.pc ELSE None,
                           !.pc = Asks(some)]

Report ==
  /\ \/ \E since, until \in Asked : ReportStarts(since, until)
     \/ rep # None /\ (ReadsEvents \/ ReadsAny \/ Summarizes) /\ UNCHANGED kept
  /\ UNCHANGED <<recording, export, moments>>

-----------------------------------------------------------------------------

Init ==
  /\ db \in FirstFiles
  /\ pc = "off" /\ now \in Instants /\ inserts = 0
  /\ \A e \in db.log : e.ts <= now
  /\ \A r \in db.rows : r.bucket <= now
  /\ first = [k \in Keys(db.log) |-> FirstId(db.log, k)]
  /\ out = None /\ exp = None /\ verdict = "none" /\ moments = {}
  /\ rep = None /\ kept = [events |-> {}, rows |-> {}]

Next == Migrate \/ Write \/ Tick \/ Export \/ Report

Spec == Init /\ [][Next]_vars

-----------------------------------------------------------------------------
(* Properties *)

TypeOK ==
  /\ db \in File
  /\ pc \in Tiers \union {"off", "tables", "dedupe", "stamp", "on"}
  /\ now \in Instants /\ inserts \in 0..MaxInserts
  /\ Numbered(db) /\ Bucketed(db)
  /\ DOMAIN first \subseteq Instants \X Lines
  /\ verdict \in {"none", "done", "failed", "died"}
  /\ exp # None => exp.from <= exp.to

\* A file stamped with a version has the shape of it, wherever an open was
\* killed and whoever stamped it before (init_schema: "a database is only ever
\* stamped with a shape it actually has").
StampIsTrue == Shaped(db)

\* The row that first told a narration stays until its retention is over,
\* through duplicates, migrations and builds that know no index
\* (migrate_event_dedupe: "the survivor is the original narration").
OriginalsSurvive == \A k \in DOMAIN first : \E e \in db.log : e.id = first[k] /\ Key(e) = k

\* With the index, no narration is twice in the log (insert_events: "lands at
\* most once no matter who replays it").
ToldOnce == Once(db)

NarrationsKept == OriginalsSurvive /\ ToldOnce

\* A finished export holds what its window held at one moment, a file a viewer
\* opens before that holds none of it, and a failed export leaves no file to
\* refuse the next (export_to: "so a retry is not blocked").
ExportIsOneMoment ==
  /\ out # None =>
       LET shown == Content(out.log, out.rows)
       IN IF out.whole
          THEN \E m \in moments : <<m.told, m.rows>> = <<out.log, shown.rows>>
          ELSE out.log = {} /\ out.rows = {}
  /\ verdict = "failed" => out = None

\* What was in a report's window while it read is in the report: it does not
\* say that nothing was recorded, or of a device that it has no samples
\* (build_report).
ReportTellsWhatStays ==
  rep # None /\ rep.pc = "told" =>
    /\ rep.held = {} => kept.events = {} /\ kept.rows = {}
    /\ rep.tier = None => kept.rows = {}

\* An exported row says of throttling what the recorded one said ("an observed
\* all-clear, which must survive export/view as distinct from never
\* observable").
ExportReadsBack ==
  out # None /\ out.whole =>
    \E m \in moments : m.says = Content(out.log, out.rows).says
=============================================================================
