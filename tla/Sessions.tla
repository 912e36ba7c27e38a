------------------------------ MODULE Sessions ------------------------------
(***************************************************************************)
(* Recording sessions over one history database                            *)
(* (crates/history/src/store.rs: SqliteStore::open, open_recording;        *)
(* crates/tui/src/main.rs: the --db preflight;                             *)
(* crates/tui/src/collector.rs: Engine::with_backends, Engine::finish).    *)
(*                                                                         *)
(* Several invocations of the program open, record into and close one      *)
(* database: under the instance lock they check its schema, initialize it, *)
(* move it aside when it is unusable, and claim it for real or simulated   *)
(* data. Any of them may be killed between two steps, the file may be      *)
(* damaged, and the disk may refuse writes. A database is reduced to what  *)
(* these steps read and write of it.                                       *)
(***************************************************************************)
EXTENDS Integers

CONSTANTS
  Procs,        \* invocations of the program
  ExplicitDb,   \* whether they are given --db, which main.rs preflights
  MaxRuns,      \* bound on the invocations of a behaviour
  MaxNow,       \* last instant of the model's wall clock
  PerSecond,    \* instants in a second, the resolution of a quarantine's name
  ClockMayStep, \* whether the wall clock may be stepped, not only run
  DiskMayFill,  \* whether the disk may refuse writes
  FirstFiles,   \* the databases the path may hold at first
  None          \* nobody, no time, no stamp, no file

Sources == {"real", "mock"}
Instants == 1..MaxNow

\* A database: which one it is, whether it is intact, whether a newer build
\* wrote it, its data_source stamp and newest session marks, and (history)
\* how its last session ended and whose rows it holds.
File == [gen : Nat, intact : BOOLEAN, newer : BOOLEAN,
         source : Sources \union {None},
         start : Instants \union {None}, stop : Instants \union {None},
         last : {"none", "open", "ended", "died"},
         rows : SUBSET Sources]

ASSUME SessionsAssumption ==
  /\ ExplicitDb \in BOOLEAN /\ ClockMayStep \in BOOLEAN /\ DiskMayFill \in BOOLEAN
  /\ MaxRuns \in Nat /\ MaxNow \in Nat \ {0} /\ PerSecond \in Nat \ {0}
  /\ None \notin Procs \union Sources \union Int \union File
  /\ \A f \in FirstFiles \ {None} : f \in File /\ f.gen = 0
  /\ \A f \in FirstFiles \ {None} : f.rows # {} => f.rows = {f.source}

VARIABLES
  db,        \* the file at the path, or None
  aside,     \* <path>.corrupt-<second>, by second
  lock,      \* who holds the instance lock
  now,       \* the wall clock
  writable,  \* the disk accepts writes
  pc,        \* where each invocation is
  opens,     \* which of its two recording opens it is in
  asked,     \* the source its flags ask for
  actual,    \* the source its backends turn out to be
  since,     \* its session_start_ms
  reset,     \* its pending_reset
  runs,      \* invocations begun
  gens,      \* databases created
  owed,      \* a history was moved aside and no reset recorded (history)
  verdict    \* whether the last start mark told a false crash (history)

store == <<db, aside, owed>>
local == <<opens, asked, actual, since, reset>>
world == <<now, writable>>
vars == <<store, lock, world, pc, local, runs, gens, verdict>>

Blank == [gen |-> gens + 1, intact |-> TRUE, newer |-> FALSE, source |-> None,
          start |-> None, stop |-> None, last |-> "none", rows |-> {}]

Second == now \div PerSecond

Init ==
  /\ db \in FirstFiles
  /\ aside = [s \in 0..(MaxNow \div PerSecond) |-> None]
  /\ lock = None
  /\ now = 1 /\ writable = TRUE
  /\ pc = [p \in Procs |-> "off"]
  /\ asked = [p \in Procs |-> "real"] /\ actual = [p \in Procs |-> "real"]
  /\ opens = [p \in Procs |-> "engine"]
  /\ since = [p \in Procs |-> 1]
  /\ reset = [p \in Procs |-> FALSE]
  /\ runs = 0 /\ gens = 0
  /\ owed = FALSE /\ verdict = "right"

Goto(p, place) == pc' = [pc EXCEPT ![p] = place]

\* The steps of a recording open.
Steps == {"lock", "guard", "init", "quarantine", "reinit", "claim"}

-----------------------------------------------------------------------------
(* SqliteStore::open_recording, step by step *)

\* An open that fails drops its lock. The preflight stops the run on a source
\* mismatch, gives up persistence on a held lock, and otherwise leaves the
\* verdict to the engine's own open; an engine's failed open records nothing.
AfterRefusal(p, why) ==
  Goto(p, IF opens[p] = "preflight" /\ why = "other" THEN "begin" ELSE "off")

\* Mutant: the lock outlives the open that failed.
Refused_KeepsLock(p, why) == AfterRefusal(p, why) /\ UNCHANGED lock

Refused(p, why) ==
  /\ lock' = IF lock = p THEN None ELSE lock
  /\ AfterRefusal(p, why)

LockFree == lock = None

Lock(p) ==
  /\ pc[p] = "lock"
  /\ IF LockFree THEN lock' = p /\ Goto(p, "guard") ELSE Refused(p, "locked")
  /\ UNCHANGED <<store, world, local, runs, gens, verdict>>

\* Mutant: a newer schema is taken for a known one.
refuse_if_newer_Never(f) == FALSE

refuse_if_newer(f) == f # None /\ f.newer

\* The read-only probe of the schema version.
Guard(p) ==
  /\ pc[p] = "guard"
  /\ IF refuse_if_newer(db) THEN Refused(p, "other")
     ELSE Goto(p, "init") /\ UNCHANGED lock
  /\ UNCHANGED <<store, world, local, runs, gens, verdict>>

\* Mutant: the write-ahead log a killed session leaves is taken for damage.
Usable_UnlessKilled == writable /\ (db = None \/ (db.intact /\ db.last # "died"))

\* try_open_init and quick_check succeed.
Usable == writable /\ (db = None \/ db.intact)

\* try_open_init creates the file it does not find, even where its first write
\* then fails, and stamps the one it finds with this build's schema.
InitDb(p) ==
  /\ pc[p] = "init"
  /\ IF db = None THEN db' = Blank /\ gens' = gens + 1
     ELSE /\ db' = IF Usable THEN [db EXCEPT !.newer = FALSE] ELSE db
          /\ UNCHANGED gens
  /\ Goto(p, IF Usable THEN "claim" ELSE "quarantine")
  /\ UNCHANGED <<aside, owed, lock, world, local, runs, verdict>>

\* Mutant: the unusable file is deleted.
MovedAside_Deleted == aside

\* The rename replaces a file that is already there.
MovedAside == [aside EXCEPT ![Second] = db]

HoldsHistory(f) == f # None /\ f.last # "none"

Quarantine(p) ==
  /\ pc[p] = "quarantine"
  /\ aside' = MovedAside
  /\ db' = None
  /\ owed' = (owed \/ HoldsHistory(db))
  /\ Goto(p, "reinit")
  /\ UNCHANGED <<lock, world, local, runs, gens, verdict>>

\* The fresh database behind a quarantine: was_reset.
Reinit(p) ==
  /\ pc[p] = "reinit"
  /\ db' = Blank /\ gens' = gens + 1
  /\ IF writable
     THEN /\ reset' = [reset EXCEPT ![p] = TRUE]
          /\ Goto(p, "claim") /\ UNCHANGED lock
     ELSE /\ Refused(p, "other") /\ UNCHANGED reset
  /\ UNCHANGED <<aside, owed, world, opens, asked, actual, since, runs, verdict>>

\* Mutant: any stamp will do.
Claimable_Any(source) == db.source = None => writable

\* An absent stamp is claimed, which is a write; a stamp of its own is kept.
Claimable(source) ==
  \/ db.source = None /\ writable
  \/ db.source = source

\* claim_data_source. The preflight claims what the flags ask for and drops
\* the store; the engine claims what its backends are.
Claim(p) ==
  LET source == IF opens[p] = "preflight" THEN asked[p] ELSE actual[p]
  IN /\ pc[p] = "claim"
     /\ IF Claimable(source)
        THEN /\ db' = IF db.source = None THEN [db EXCEPT !.source = source] ELSE db
             /\ IF opens[p] = "preflight"
                THEN /\ Goto(p, "begin") /\ lock' = None
                     /\ reset' = [reset EXCEPT ![p] = FALSE]
                ELSE /\ Goto(p, "mark") /\ UNCHANGED <<lock, reset>>
        ELSE /\ Refused(p, IF db.source = None THEN "other" ELSE "mismatch")
             /\ reset' = [reset EXCEPT ![p] = FALSE]
             /\ UNCHANGED db
     /\ UNCHANGED <<aside, owed, world, opens, asked, actual, since, runs, gens,
                    verdict>>

-----------------------------------------------------------------------------
(* One invocation *)

\* main: the flags, and what the registry will find; real backends that find
\* no GPU fall back to the mock.
Run(p, flag, found) ==
  /\ pc[p] = "off" /\ runs < MaxRuns
  /\ flag = "mock" => found = "mock"
  /\ runs' = runs + 1
  /\ asked' = [asked EXCEPT ![p] = flag]
  /\ actual' = [actual EXCEPT ![p] = found]
  /\ reset' = [reset EXCEPT ![p] = FALSE]
  /\ opens' = [opens EXCEPT ![p] = IF ExplicitDb THEN "preflight" ELSE "engine"]
  /\ Goto(p, IF ExplicitDb THEN "lock" ELSE "begin")
  /\ UNCHANGED <<store, lock, world, since, gens, verdict>>

\* Engine::with_backends reads the session's start before it opens the store.
Begin(p) ==
  /\ pc[p] = "begin"
  /\ since' = [since EXCEPT ![p] = now]
  /\ opens' = [opens EXCEPT ![p] = "engine"]
  /\ Goto(p, "lock")
  /\ UNCHANGED <<store, lock, world, asked, actual, reset, runs, gens, verdict>>

Later(s, t) == IF s = None \/ t > s THEN t ELSE s

\* The newest start mark is strictly newer than every stop mark.
Dangling ==
  db.start # None /\ db.start > (IF db.stop = None THEN 0 ELSE db.stop)

\* What the start mark says of the session before it, against what happened.
Judged == IF Dangling /\ db.last # "died" THEN "false crash" ELSE "right"

\* The session's start mark. main then refuses a mock session that was asked
\* to be real, and dropping its engine ends the session.
MarkStart(p) ==
  /\ pc[p] = "mark"
  /\ verdict' = Judged
  /\ db' = [db EXCEPT !.start = IF writable THEN Later(db.start, since[p]) ELSE db.start,
                      !.last = "open"]
  /\ Goto(p, IF ExplicitDb /\ asked[p] # actual[p] THEN "ending" ELSE "recording")
  /\ UNCHANGED <<aside, owed, lock, world, local, runs, gens>>

\* A tick: the pending reset rides the first one; rows are recorded.
Tick(p) ==
  /\ pc[p] = "recording" /\ writable
  /\ db' = [db EXCEPT !.rows = db.rows \union {actual[p]}]
  /\ owed' = (owed /\ ~reset[p])
  /\ reset' = [reset EXCEPT ![p] = FALSE]
  /\ UNCHANGED <<aside, lock, world, pc, opens, asked, actual, since, runs, gens,
                 verdict>>

\* Engine::finish writes the stop mark; dropping the store frees the lock.
Stop(p) ==
  /\ pc[p] \in {"recording", "ending"}
  /\ db' = [db EXCEPT !.stop = IF writable THEN Later(db.stop, now) ELSE db.stop,
                      !.last = "ended"]
  /\ lock' = None
  /\ Goto(p, "off")
  /\ UNCHANGED <<aside, owed, world, local, runs, gens, verdict>>

\* The process dies; the kernel frees its lock.
Kill(p) ==
  /\ pc[p] # "off"
  /\ db' = IF pc[p] \in {"recording", "ending"} THEN [db EXCEPT !.last = "died"] ELSE db
  /\ lock' = IF lock = p THEN None ELSE lock
  /\ Goto(p, "off")
  /\ UNCHANGED <<aside, owed, world, local, runs, gens, verdict>>

-----------------------------------------------------------------------------
(* The world *)

inside == <<pc, local, runs, gens, verdict, lock>>

\* The file is damaged while nobody uses it, once.
Damage ==
  /\ lock = None /\ db # None /\ db.intact /\ ~db.newer /\ db.gen = 0
  /\ db' = [db EXCEPT !.intact = FALSE]
  /\ UNCHANGED <<aside, owed, world, inside>>

Clock ==
  /\ \E t \in Instants : /\ t = now + 1 \/ (ClockMayStep /\ t # now)
                         /\ now' = t
  /\ UNCHANGED <<store, writable, inside>>

Disk ==
  /\ DiskMayFill
  /\ writable' = ~writable
  /\ UNCHANGED <<store, now, inside>>

Opening(p) == \/ Lock(p) \/ Guard(p) \/ InitDb(p) \/ Quarantine(p)
              \/ Reinit(p) \/ Claim(p)

Next ==
  \/ \E p \in Procs :
       \/ \E flag, found \in Sources : Run(p, flag, found)
       \/ Begin(p) \/ Opening(p) \/ MarkStart(p) \/ Tick(p) \/ Stop(p) \/ Kill(p)
  \/ Damage \/ Clock \/ Disk

Spec == Init /\ [][Next]_vars

-----------------------------------------------------------------------------
(* Properties *)

\* Where an invocation writes its session.
Writing == {"mark", "recording", "ending"}

\* The state stays in its type, and the lock is held from inside it only.
TypeOK ==
  /\ db \in File \union {None}
  /\ aside \in [0..(MaxNow \div PerSecond) -> File \union {None}]
  /\ lock \in Procs \union {None}
  /\ lock # None => pc[lock] \in (Steps \ {"lock"}) \union Writing
  /\ now \in Instants /\ writable \in BOOLEAN
  /\ pc \in [Procs -> Steps \union {"off", "begin"} \union Writing]
  /\ opens \in [Procs -> {"preflight", "engine"}]
  /\ asked \in [Procs -> Sources] /\ actual \in [Procs -> Sources]
  /\ since \in [Procs -> Instants] /\ reset \in [Procs -> BOOLEAN]
  /\ runs \in 0..MaxRuns /\ gens \in Nat
  /\ owed \in BOOLEAN
  /\ verdict \in {"right", "false crash"}

\* The database an invocation opened is there to be written until it lets go
\* of it: no other invocation writes, moves or replaces it meanwhile.
SingleWriter ==
  \A p, q \in Procs : p # q /\ pc[p] \in Writing =>
    /\ db # None
    /\ pc[q] \notin Writing \union (Steps \ {"lock"})

\* A database of a newer build is never modified or moved (check_schema_not_newer:
\* "refused with the file byte-for-byte untouched").
NewerUntouched == [][db # None /\ db.newer => db' = db]_db

\* Real and simulated rows never share a database, whoever opened it in which
\* order and whatever the flags said (DataSource).
SourcesNeverMix ==
  db # None => \/ db.rows = {}
               \/ \E s \in Sources : db.rows = {s} /\ db.source = s

\* A database is one writer's at a time and one source's for ever
\* (SqliteStore::open, claim_data_source).
OneOwner == SingleWriter /\ SourcesNeverMix

\* With a disk that accepts writes, only a damaged file is moved aside: a busy,
\* a newer or a merely killed database never is (open, "Instance lock FIRST").
OnlyDamagedQuarantined ==
  \A s \in DOMAIN aside : aside[s] # None => ~aside[s].intact

Gens == {f.gen : f \in ({db} \union {aside[s] : s \in DOMAIN aside}) \ {None}}

\* A database that holds history is kept, in place or aside (open: "renamed
\* aside ... (never deleted - a user may want to recover it)").
KeepsHistory ==
  \A f \in {db} \union {aside[s] : s \in DOMAIN aside} :
    HoldsHistory(f) => f.gen \in Gens'
HistoryKept == [][KeepsHistory]_store

\* A start mark that says the previous session crashed is right (with_backends:
\* "a confidently-wrong 'previous session crashed' would damage trust").
NoFalseCrash == verdict # "false crash"

\* No row is recorded into the database behind a quarantined history before
\* the reset is (open: "so the caller can emit a HistoryReset event and stop
\* the gap masquerading as device behavior").
ResetIsNarrated == owed => db = None \/ db.rows = {}
=============================================================================
