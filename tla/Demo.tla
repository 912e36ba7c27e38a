-------------------------------- MODULE Demo --------------------------------
(***************************************************************************)
(* `gpuviewer demo` and whoever else is on its file                        *)
(* (crates/tui/src/main.rs, run_demo and seed_demo): it probes the         *)
(* instance lock, deletes what it finds, seeds hours of simulated history  *)
(* and then records on. A second demo, or a `--mock --db` session on the   *)
(* same path, may come in between any two steps, and any may be killed.    *)
(*                                                                         *)
(* A file is a number, a new one each time it is created. On POSIX a       *)
(* deleted file stays with whoever has it open, who then writes where      *)
(* nobody will read. What an open does of a database is in Sessions; the   *)
(* simulation that is seeded is in Mock.                                   *)
(***************************************************************************)
EXTENDS Integers

CONSTANTS
  Demos,     \* invocations of `demo`
  Others,    \* sessions with --mock --db <the demo's file>
  SeedSteps, \* ticks a demo seeds (bound; 8 h of them)
  MaxKills,  \* bound on the kills
  None

Procs == Demos \union Others

VARIABLES
  at,        \* the file at history-demo.db, or None
  sides,     \* the file whose -wal and -shm are beside it, or None
  lock,      \* who holds the instance lock
  pc,
  mine,      \* the file each has open
  steps,     \* ticks each demo has seeded
  files,     \* files created
  rows,      \* <<file, who>> of every write (history)
  intruders, \* who opened the file between a demo's probe and its lock (history)
  torn,      \* who had its file deleted while writing it (history)
  kills

disk == <<at, sides, files>>
history == <<rows, intruders, torn>>
vars == <<disk, lock, pc, mine, steps, history, kills>>

Init ==
  /\ at = None /\ sides = None /\ lock = None /\ files = 0
  /\ pc = [p \in Procs |-> "start"]
  /\ mine = [p \in Procs |-> None]
  /\ steps = [d \in Demos |-> 0]
  /\ rows = {}
  /\ intruders = [d \in Demos |-> {}]
  /\ torn = {} /\ kills = 0

Goto(p, place) == pc' = [pc EXCEPT ![p] = place]

\* Between the probe of the lock and the seeder's own.
InGap(d) == pc[d] \in {"probed", "cleared", "locking"}

Writing(p) == lock = p /\ pc[p] \in {"seeding", "live"}

-----------------------------------------------------------------------------
\* SqliteStore::open_recording as Mock: under the lock, creating what is not there.
Opened(p, place) ==
  LET file == IF at = None THEN files + 1 ELSE at
  IN /\ lock = None
     /\ lock' = p
     /\ at' = file /\ sides' = file
     /\ files' = IF at = None THEN files + 1 ELSE files
     /\ mine' = [mine EXCEPT ![p] = file]
     /\ intruders' = [d \in Demos |->
                        IF d # p /\ InGap(d) THEN intruders[d] \union {p} ELSE intruders[d]]
     /\ Goto(p, place)

\* The last connection of a file takes its -wal and -shm along.
Closed(p, place) ==
  /\ lock' = None
  /\ sides' = IF sides = mine[p] THEN None ELSE sides
  /\ Goto(p, place)
  /\ UNCHANGED <<at, files, mine, intruders>>

\* Mutant: no error of the probe stops the demo.
Locked_Ignored(d) ==
  /\ lock # None
  /\ Goto(d, "probed")
  /\ UNCHANGED <<disk, lock, mine, intruders>>

\* The file is being recorded to: the demo says so and ends.
Locked(d) ==
  /\ lock # None
  /\ Goto(d, "refused")
  /\ UNCHANGED <<disk, lock, mine, intruders>>

\* run_demo: the probe, whose handle drops immediately. Any other error of it
\* (no file, a file nobody can read) is what the recreation resolves.
Probe(d) ==
  /\ pc[d] = "start"
  /\ Opened(d, "probing") \/ Locked(d)
  /\ UNCHANGED <<steps, rows, torn, kills>>

DropProbe(d) ==
  /\ pc[d] = "probing"
  /\ Closed(d, "probed")
  /\ UNCHANGED <<steps, rows, torn, kills>>

\* remove_file of the database, then of the files beside it.
RemoveDb(d) ==
  /\ pc[d] = "probed"
  /\ at' = None
  /\ torn' = torn \union {p \in Procs : Writing(p) /\ mine[p] = at}
  /\ Goto(d, "cleared")
  /\ UNCHANGED <<sides, files, lock, mine, steps, rows, intruders, kills>>

RemoveSides(d) ==
  /\ pc[d] = "cleared"
  /\ sides' = None
  /\ torn' = torn \union {p \in Procs : Writing(p) /\ mine[p] = sides}
  /\ Goto(d, "locking")
  /\ UNCHANGED <<at, files, lock, mine, steps, rows, intruders, kills>>

\* seed_demo: a fresh store, every tick through the event engine and the
\* recorder, then the tail; the store goes with the recorder.
SeedOpen(d) ==
  /\ pc[d] = "locking"
  /\ Opened(d, "seeding") \/ Locked(d)
  /\ UNCHANGED <<steps, rows, torn, kills>>

Seed(d) ==
  /\ pc[d] = "seeding" /\ steps[d] < SeedSteps
  /\ steps' = [steps EXCEPT ![d] = @ + 1]
  /\ rows' = rows \union {<<mine[d], d>>}
  /\ UNCHANGED <<disk, lock, pc, mine, intruders, torn, kills>>

Seeded(d) ==
  /\ pc[d] = "seeding" /\ steps[d] = SeedSteps
  /\ \E seed_only \in BOOLEAN : Closed(d, IF seed_only THEN "done" ELSE "seeded")
  /\ UNCHANGED <<steps, rows, torn, kills>>

\* The live session on the demo's file, and that of a `--mock --db` elsewhere:
\* with the lock held it goes on without a recording.
GoLive(p) ==
  /\ pc[p] = IF p \in Demos THEN "seeded" ELSE "start"
  /\ \/ Opened(p, "live") /\ rows' = rows \union {<<mine'[p], p>>}
     \/ /\ lock # None /\ Goto(p, "unrecorded")
        /\ UNCHANGED <<disk, lock, mine, intruders, rows>>
  /\ UNCHANGED <<steps, torn, kills>>

End(p) ==
  /\ pc[p] = "live"
  /\ Closed(p, "done")
  /\ UNCHANGED <<steps, rows, torn, kills>>

\* Killed anywhere: the lock goes, the files beside the database stay.
Kill(p) ==
  /\ kills < MaxKills /\ kills' = kills + 1
  /\ pc[p] \notin {"start", "refused", "unrecorded", "done", "killed"}
  /\ lock' = IF lock = p THEN None ELSE lock
  /\ Goto(p, "killed")
  /\ UNCHANGED <<disk, mine, steps, history>>

Next ==
  \/ \E d \in Demos : \/ Probe(d) \/ DropProbe(d) \/ RemoveDb(d) \/ RemoveSides(d)
                      \/ SeedOpen(d) \/ Seed(d) \/ Seeded(d)
  \/ \E p \in Procs : GoLive(p) \/ End(p) \/ Kill(p)

-----------------------------------------------------------------------------
(* Properties *)

\* Files are numbered as they are created.
TypeOK ==
  /\ at \in 1..files \union {None} /\ sides \in 1..files \union {None}
  /\ \A p \in Procs : mine[p] \in 1..files \union {None}

Writers(file) == {p \in Procs : <<file, p>> \in rows}

\* "deleting a recording out from under its writer" happens in "the instant
\* between", the gap from a demo's probe to its lock, and nowhere else: who
\* opened outside every gap records where the path leads, to the end; and a
\* demo seeds a file that holds nothing but its own simulation and what was
\* written in its gap.
OnlyTheGapTears ==
  /\ \A p \in torn : \E d \in Demos : p \in intruders[d]
  /\ \A p \in Procs : Writing(p) /\ p \notin torn => at = mine[p] /\ sides = mine[p]
  /\ \A d \in Demos : pc[d] = "seeding" => Writers(mine[d]) \ {d} \subseteq intruders[d]
=============================================================================
