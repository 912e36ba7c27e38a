--------------------------- MODULE SessionsProofs ---------------------------
(***************************************************************************)
(* Proofs about recording sessions, for every set of invocations, every    *)
(* database found at the path, every clock and every disk.                 *)
(***************************************************************************)
EXTENDS MCSessionsSettings, TLAPS

-----------------------------------------------------------------------------
(* What each place in an invocation has established *)

\* Behind the lock, and behind the schema guard.
Inside == (Steps \ {"lock"}) \union Writing
Past == (Steps \ {"lock", "guard"}) \union Writing
Places == Steps \union {"off", "begin"} \union Writing

\* Rows are of the one source the database is stamped with.
Unmixed(f) ==
  f # None => f.rows = {} \/ \E s \in Sources : f.rows = {s} /\ f.source = s

\* At place x, invocation p has this of the database f and the lock l.
Established(x, p, f, l) ==
  /\ x \in Inside => l = p
  /\ x \in Writing \union {"claim"} => f # None
  /\ x \in Past => f = None \/ ~f.newer
  /\ x \in Writing => f.source = actual[p]

Types ==
  /\ db \in File \union {None}
  /\ gens \in Nat
  /\ now \in Instants
  /\ pc \in [Procs -> Places]
  /\ asked \in [Procs -> Sources]
  /\ actual \in [Procs -> Sources]
  /\ since \in [Procs -> Instants]

SessionInv ==
  /\ Types
  /\ Unmixed(db)
  /\ \A p \in Procs : Established(pc[p], p, db, lock)

\* The names of the places.
LEMMA PlaceNames ==
  /\ Inside = {"guard", "init", "quarantine", "reinit", "claim",
               "mark", "recording", "ending"}
  /\ Past = {"init", "quarantine", "reinit", "claim",
             "mark", "recording", "ending"}
  /\ Writing = {"mark", "recording", "ending"}
  /\ Places = {"lock", "guard", "init", "quarantine", "reinit", "claim",
               "off", "begin", "mark", "recording", "ending"}
BY DEF Inside, Past, Places, Steps, Writing

LEMMA BlankFile ==
  ASSUME gens \in Nat
  PROVE  /\ Blank \in File /\ Blank # None
         /\ ~Blank.newer /\ Blank.source = None /\ Unmixed(Blank)
<1>1. Blank \in File
  BY DEF Blank, File
<1>2. Blank # None
  BY <1>1, SessionsAssumption
<1>3. QED
  BY <1>1, <1>2 DEF Blank, Unmixed

\* A step of an invocation that holds the lock: nobody else has established
\* anything, so only its own place counts.
LEMMA HolderStep ==
  ASSUME SessionInv, NEW p \in Procs, NEW x \in Places, lock = p,
         pc' = [pc EXCEPT ![p] = x],
         db' \in File \union {None}, Unmixed(db'), gens' \in Nat,
         UNCHANGED <<now, asked, actual, since>>,
         Established(x, p, db', lock')
  PROVE  SessionInv'
<1>1. Types'
  BY DEF SessionInv, Types
<1>3. ASSUME NEW q \in Procs PROVE Established(pc'[q], q, db', lock')
  <2>1. CASE q = p
    BY <2>1 DEF SessionInv, Types
  <2>2. CASE q # p
    <3>1. pc'[q] = pc[q] /\ pc[q] \notin Inside
      BY <2>2 DEF SessionInv, Types, Established
    <3>2. QED
      BY <3>1, PlaceNames DEF Established
  <2>3. QED
    BY <2>1, <2>2
<1>4. \A q \in Procs : Established(pc[q], q, db, lock)'
  BY <1>3 DEF Established
<1>5. Unmixed(db)'
  BY DEF Unmixed
<1>6. QED
  BY <1>1, <1>4, <1>5 DEF SessionInv

\* A step of an invocation outside the lock that takes it at most.
LEMMA OutsiderStep ==
  ASSUME SessionInv, NEW p \in Procs, NEW x \in Places, pc[p] \notin Inside,
         pc' = [pc EXCEPT ![p] = x], x \notin Past,
         db' = db, gens' \in Nat, UNCHANGED now,
         asked' \in [Procs -> Sources], actual' \in [Procs -> Sources],
         since' \in [Procs -> Instants],
         \A q \in Procs : q # p => actual'[q] = actual[q],
         \/ lock' = lock /\ x \notin Inside
         \/ lock = None /\ lock' = p
  PROVE  SessionInv'
<1>1. Types'
  BY DEF SessionInv, Types
<1>2. ASSUME NEW q \in Procs PROVE Established(pc[q], q, db, lock)'
  <2>1. CASE q = p
    <3>1. pc'[q] = x
      BY <2>1 DEF SessionInv, Types
    <3>2. QED
      BY <2>1, <3>1, PlaceNames DEF Established
  <2>2. CASE q # p
    <3>1. pc'[q] = pc[q] /\ actual'[q] = actual[q]
      BY <2>2 DEF SessionInv, Types
    <3>2. q # None
      BY SessionsAssumption
    <3>3. Established(pc[q], q, db, lock)
      BY DEF SessionInv
    <3>4. CASE lock' = lock
      BY <3>1, <3>3, <3>4 DEF Established
    <3>5. CASE lock = None
      <4>1. pc[q] \notin Inside
        BY <3>2, <3>3, <3>5 DEF Established
      <4>2. QED
        BY <3>1, <4>1, PlaceNames DEF Established
    <3>6. QED
      BY <3>4, <3>5
  <2>3. QED
    BY <2>1, <2>2
<1>3. Unmixed(db)'
  BY DEF SessionInv, Unmixed
<1>4. QED
  BY <1>1, <1>2, <1>3 DEF SessionInv

LEMMA SessionInit == Init => SessionInv
<1> SUFFICES ASSUME Init PROVE SessionInv
  OBVIOUS
<1>1. Types
  BY SessionsAssumption DEF Init, Types, Places, Instants, Sources
<1>2. Unmixed(db)
  <2>1. CASE db = None
    BY <2>1 DEF Unmixed
  <2>2. CASE db # None
    <3>1. db \in File /\ (db.rows # {} => db.rows = {db.source})
      BY <2>2, SessionsAssumption DEF Init
    <3>2. db.source \in Sources \union {None} /\ db.rows \in SUBSET Sources
      BY <3>1 DEF File
    <3>3. QED
      BY <3>1, <3>2 DEF Unmixed
  <2>3. QED
    BY <2>1, <2>2
<1>3. \A p \in Procs : pc[p] = "off"
  BY DEF Init
<1>4. QED
  BY <1>1, <1>2, <1>3, PlaceNames DEF SessionInv, Established

-----------------------------------------------------------------------------
(* The steps of a recording open *)

\* An invocation behind the lock holds it, and what it established holds.
LEMMA Holder ==
  ASSUME SessionInv, NEW p \in Procs, pc[p] \in Inside
  PROVE  lock = p /\ Established(pc[p], p, db, lock) /\ Unmixed(db)
         /\ db \in File \union {None} /\ gens \in Nat
BY DEF SessionInv, Types, Established

\* A refused open leaves the lock, and has nothing to keep.
LEMMA RefusedStep ==
  ASSUME SessionInv, NEW p \in Procs, lock = p, NEW why, Refused(p, why),
         db' \in File \union {None}, Unmixed(db'), gens' \in Nat,
         UNCHANGED <<now, asked, actual, since>>
  PROVE  SessionInv'
<1> DEFINE x == IF opens[p] = "preflight" /\ why = "other" THEN "begin" ELSE "off"
<1>1. x \in Places /\ pc' = [pc EXCEPT ![p] = x]
  BY PlaceNames DEF Refused, AfterRefusal, Goto
<1>2. Established(x, p, db', lock')
  BY PlaceNames DEF Established
<1> HIDE DEF x
<1>3. QED
  BY <1>1, <1>2, HolderStep

LEMMA LockStep ==
  ASSUME SessionInv, NEW p \in Procs, Lock(p)
  PROVE  SessionInv'
<1>1. /\ pc[p] = "lock" /\ db' = db /\ gens' = gens
      /\ UNCHANGED <<now, asked, actual, since>>
  BY DEF Lock, store, world, local
<1>2. /\ pc[p] \notin Inside
      /\ db \in File \union {None} /\ Unmixed(db) /\ gens \in Nat
      /\ asked \in [Procs -> Sources] /\ actual \in [Procs -> Sources]
      /\ since \in [Procs -> Instants]
  BY <1>1, PlaceNames DEF SessionInv, Types
<1>3. CASE lock = None
  <2>1. lock' = p /\ pc' = [pc EXCEPT ![p] = "guard"]
    BY <1>3 DEF Lock, LockFree, Goto
  <2>2. "guard" \in Places /\ "guard" \notin Past
    BY PlaceNames
  <2>3. QED
    BY <1>1, <1>2, <1>3, <2>1, <2>2, OutsiderStep
<1>4. CASE lock # None
  <2>1. Refused(p, "locked")
    BY <1>4 DEF Lock, LockFree
  <2>2. CASE lock = p
    BY <1>1, <1>2, <2>1, <2>2, RefusedStep
  <2>3. CASE lock # p
    <3>1. lock' = lock /\ pc' = [pc EXCEPT ![p] = "off"]
      BY <2>1, <2>3 DEF Refused, AfterRefusal, Goto
    <3>2. "off" \in Places /\ "off" \notin Past /\ "off" \notin Inside
      BY PlaceNames
    <3>3. QED
      BY <1>1, <1>2, <3>1, <3>2, OutsiderStep
  <2>4. QED
    BY <2>2, <2>3
<1>5. QED
  BY <1>3, <1>4

LEMMA GuardStep ==
  ASSUME SessionInv, NEW p \in Procs, Guard(p)
  PROVE  SessionInv'
<1>1. /\ pc[p] \in Inside /\ db' = db /\ gens' = gens
      /\ UNCHANGED <<now, asked, actual, since>>
  BY PlaceNames DEF Guard, store, world, local
<1>2. lock = p /\ Unmixed(db) /\ db \in File \union {None} /\ gens \in Nat
  BY <1>1, Holder
<1>3. CASE refuse_if_newer(db)
  <2>1. Refused(p, "other")
    BY <1>3 DEF Guard
  <2>2. QED
    BY <1>1, <1>2, <2>1, RefusedStep
<1>4. CASE ~refuse_if_newer(db)
  <2>1. lock' = lock /\ pc' = [pc EXCEPT ![p] = "init"]
    BY <1>4 DEF Guard, Goto
  <2>2. "init" \in Places /\ Established("init", p, db', lock')
    BY <1>1, <1>2, <1>4, <2>1, PlaceNames DEF Established, refuse_if_newer
  <2>3. QED
    BY <1>1, <1>2, <2>1, <2>2, HolderStep
<1>5. QED
  BY <1>3, <1>4

LEMMA InitDbStep ==
  ASSUME SessionInv, NEW p \in Procs, InitDb(p)
  PROVE  SessionInv'
<1> DEFINE x == IF Usable THEN "claim" ELSE "quarantine"
<1>1. /\ pc[p] = "init" /\ pc' = [pc EXCEPT ![p] = x] /\ lock' = lock
      /\ UNCHANGED <<now, asked, actual, since>>
      /\ IF db = None THEN db' = Blank /\ gens' = gens + 1
         ELSE /\ db' = IF Usable THEN [db EXCEPT !.newer = FALSE] ELSE db
              /\ UNCHANGED gens
  BY DEF InitDb, Goto, world, local
<1>2. pc[p] \in Inside /\ pc[p] \in Past
  BY <1>1, PlaceNames
<1>3. /\ lock = p /\ Unmixed(db) /\ db \in File \union {None} /\ gens \in Nat
      /\ db = None \/ ~db.newer
  BY <1>2, Holder DEF Established
<1>4. /\ db' \in File \union {None} /\ db' # None /\ ~db'.newer
      /\ Unmixed(db') /\ gens' \in Nat
  <2>1. CASE db = None
    BY <1>1, <1>3, <2>1, BlankFile
  <2>2. CASE db # None /\ Usable
    <3>1. db' = [db EXCEPT !.newer = FALSE] /\ gens' = gens
      BY <1>1, <2>2
    <3>2. db' \in File /\ db'.rows = db.rows /\ db'.source = db.source /\ ~db'.newer
      BY <1>3, <2>2, <3>1 DEF File
    <3>3. db' # None
      BY <3>2, SessionsAssumption
    <3>4. QED
      BY <1>3, <2>2, <3>1, <3>2, <3>3 DEF Unmixed
  <2>3. CASE db # None /\ ~Usable
    BY <1>1, <1>3, <2>3
  <2>4. QED
    BY <2>1, <2>2, <2>3
<1>5. x \in Places /\ Established(x, p, db', lock')
  BY <1>1, <1>3, <1>4, PlaceNames DEF Established
<1> HIDE DEF x
<1>6. QED
  BY <1>1, <1>3, <1>4, <1>5, HolderStep

LEMMA QuarantineStep ==
  ASSUME SessionInv, NEW p \in Procs, Quarantine(p)
  PROVE  SessionInv'
<1>1. /\ pc[p] \in Inside /\ pc' = [pc EXCEPT ![p] = "reinit"] /\ lock' = lock
      /\ db' = None /\ gens' = gens
      /\ UNCHANGED <<now, asked, actual, since>>
  BY PlaceNames DEF Quarantine, Goto, world, local
<1>2. lock = p /\ gens \in Nat
  BY <1>1, Holder
<1>3. Unmixed(db') /\ "reinit" \in Places /\ Established("reinit", p, db', lock')
  BY <1>1, <1>2, PlaceNames DEF Unmixed, Established
<1>4. QED
  BY <1>1, <1>2, <1>3, HolderStep

LEMMA ReinitStep ==
  ASSUME SessionInv, NEW p \in Procs, Reinit(p)
  PROVE  SessionInv'
<1>1. /\ pc[p] \in Inside /\ db' = Blank /\ gens' = gens + 1
      /\ UNCHANGED <<now, asked, actual, since>>
  BY PlaceNames DEF Reinit, world
<1>2. lock = p /\ gens \in Nat
  BY <1>1, Holder
<1>3. /\ db' \in File \union {None} /\ Unmixed(db') /\ gens' \in Nat
      /\ db' # None /\ ~db'.newer
  BY <1>1, <1>2, BlankFile
<1>4. CASE writable
  <2>1. pc' = [pc EXCEPT ![p] = "claim"] /\ lock' = lock
    BY <1>4 DEF Reinit, Goto
  <2>2. "claim" \in Places /\ Established("claim", p, db', lock')
    BY <1>2, <1>3, <2>1, PlaceNames DEF Established
  <2>3. QED
    BY <1>1, <1>2, <1>3, <2>1, <2>2, HolderStep
<1>5. CASE ~writable
  <2>1. Refused(p, "other")
    BY <1>5 DEF Reinit
  <2>2. QED
    BY <1>1, <1>2, <1>3, <2>1, RefusedStep
<1>6. QED
  BY <1>4, <1>5

LEMMA ClaimStep ==
  ASSUME SessionInv, NEW p \in Procs, Claim(p)
  PROVE  SessionInv'
<1> DEFINE source == IF opens[p] = "preflight" THEN asked[p] ELSE actual[p]
<1>1. /\ pc[p] = "claim" /\ gens' = gens
      /\ UNCHANGED <<now, asked, actual, since>>
  BY DEF Claim, world
<1>2. pc[p] \in Inside /\ pc[p] \in Past
  BY <1>1, PlaceNames
<1>3. /\ lock = p /\ Unmixed(db) /\ db \in File /\ db # None /\ gens \in Nat
      /\ ~db.newer
  BY <1>1, <1>2, Holder DEF Established
<1>4. source \in Sources /\ source # None
  BY SessionsAssumption DEF SessionInv, Types
<1>5. CASE Claimable(source)
  <2>1. db' = IF db.source = None THEN [db EXCEPT !.source = source] ELSE db
    BY <1>5 DEF Claim
  <2>2. db' \in File /\ db'.source = source /\ db'.rows = db.rows /\ db'.newer = db.newer
    <3> HIDE DEF source
    <3>1. QED
      BY <1>3, <1>4, <1>5, <2>1 DEF Claimable, File
  <2>3. db' # None
    BY <2>2, SessionsAssumption
  <2>4. Unmixed(db')
    <3> HIDE DEF source
    <3>1. CASE db.source = None
      <4>1. \A t \in Sources : t # None
        BY SessionsAssumption
      <4>2. db.rows = {}
        BY <1>3, <3>1, <4>1 DEF Unmixed
      <4>3. QED
        BY <2>2, <4>2 DEF Unmixed
    <3>2. CASE db.source # None
      BY <1>3, <2>1, <3>2
    <3>3. QED
      BY <3>1, <3>2
  <2>5. CASE opens[p] = "preflight"
    <3>1. pc' = [pc EXCEPT ![p] = "begin"]
      BY <1>5, <2>5 DEF Claim, Goto
    <3>2. "begin" \in Places /\ Established("begin", p, db', lock')
      BY PlaceNames DEF Established
    <3>3. QED
      BY <1>1, <1>3, <2>2, <2>4, <3>1, <3>2, HolderStep
  <2>6. CASE opens[p] # "preflight"
    <3>1. pc' = [pc EXCEPT ![p] = "mark"] /\ lock' = lock
      BY <1>5, <2>6 DEF Claim, Goto
    <3>2. "mark" \in Places /\ Established("mark", p, db', lock')
      BY <1>3, <2>2, <2>3, <2>6, <3>1, PlaceNames DEF Established
    <3>3. QED
      BY <1>1, <1>3, <2>2, <2>4, <3>1, <3>2, HolderStep
  <2>7. QED
    BY <2>5, <2>6
<1>6. CASE ~Claimable(source)
  <2>1. db' = db /\ Refused(p, IF db.source = None THEN "other" ELSE "mismatch")
    BY <1>6 DEF Claim
  <2>2. QED
    BY <1>1, <1>3, <2>1, RefusedStep
<1>7. QED
  BY <1>5, <1>6

-----------------------------------------------------------------------------
(* The rest of an invocation *)

LEMMA RunStep ==
  ASSUME SessionInv, NEW p \in Procs, NEW flag \in Sources, NEW found \in Sources,
         Run(p, flag, found)
  PROVE  SessionInv'
<1> DEFINE x == IF ExplicitDb THEN "lock" ELSE "begin"
<1>1. /\ pc[p] = "off" /\ pc' = [pc EXCEPT ![p] = x]
      /\ asked' = [asked EXCEPT ![p] = flag]
      /\ actual' = [actual EXCEPT ![p] = found]
      /\ db' = db /\ lock' = lock /\ gens' = gens /\ now' = now /\ since' = since
  BY DEF Run, Goto, store, world
<1>2. x \in Places /\ x \notin Past /\ x \notin Inside /\ pc[p] \notin Inside
  BY <1>1, PlaceNames
<1>3. /\ asked' \in [Procs -> Sources] /\ actual' \in [Procs -> Sources]
      /\ since' \in [Procs -> Instants] /\ gens' \in Nat
      /\ \A q \in Procs : q # p => actual'[q] = actual[q]
  BY <1>1 DEF SessionInv, Types
<1> HIDE DEF x
<1>4. QED
  BY <1>1, <1>2, <1>3, OutsiderStep

LEMMA BeginStep ==
  ASSUME SessionInv, NEW p \in Procs, Begin(p)
  PROVE  SessionInv'
<1>1. /\ pc[p] = "begin" /\ pc' = [pc EXCEPT ![p] = "lock"]
      /\ since' = [since EXCEPT ![p] = now]
      /\ db' = db /\ lock' = lock /\ gens' = gens /\ now' = now
      /\ asked' = asked /\ actual' = actual
  BY DEF Begin, Goto, store, world
<1>2. "lock" \in Places /\ "lock" \notin Past /\ "lock" \notin Inside
      /\ pc[p] \notin Inside
  BY <1>1, PlaceNames
<1>3. /\ asked' \in [Procs -> Sources] /\ actual' \in [Procs -> Sources]
      /\ since' \in [Procs -> Instants] /\ gens' \in Nat
      /\ \A q \in Procs : q # p => actual'[q] = actual[q]
  BY <1>1 DEF SessionInv, Types
<1>4. QED
  BY <1>1, <1>2, <1>3, OutsiderStep


\* A session's own write to its database keeps its stamp and its version, and
\* adds no rows but those of its own source.
LEMMA SessionWrite ==
  ASSUME SessionInv, NEW p \in Procs, pc[p] \in Writing,
         NEW x \in Writing \union {"off"}, pc' = [pc EXCEPT ![p] = x],
         x = "off" \/ lock' = lock,
         db' \in File, db'.source = db.source, db'.newer = db.newer,
         db'.rows = db.rows \/ db'.rows = db.rows \union {actual[p]},
         UNCHANGED <<gens, now, asked, actual, since>>
  PROVE  SessionInv'
<1>1. pc[p] \in Inside /\ pc[p] \in Past /\ x \in Places
  BY PlaceNames
<1>2. /\ lock = p /\ Unmixed(db) /\ db # None /\ gens \in Nat
      /\ ~db.newer /\ db.source = actual[p]
  BY <1>1, Holder DEF Established
<1>3. db' # None
  BY SessionsAssumption
<1>4. actual[p] \in Sources
  BY DEF SessionInv, Types
<1>5. Unmixed(db')
  BY <1>2, <1>4 DEF Unmixed
<1>6. Established(x, p, db', lock')
  BY <1>2, <1>3, PlaceNames DEF Established
<1>7. QED
  BY <1>1, <1>2, <1>5, <1>6, HolderStep

\* The file in use, and the instants its session marks.
LEMMA InUse ==
  ASSUME SessionInv, NEW p \in Procs, pc[p] \in Writing
  PROVE  /\ db \in File
         /\ Later(db.start, since[p]) \in Instants \union {None}
         /\ Later(db.stop, now) \in Instants \union {None}
<1>1. pc[p] \in Inside
  BY PlaceNames
<1>2. db \in File /\ since[p] \in Instants /\ now \in Instants
  BY <1>1, Holder DEF Established, SessionInv, Types
<1>3. QED
  BY <1>2 DEF File, Later

LEMMA MarkStartStep ==
  ASSUME SessionInv, NEW p \in Procs, MarkStart(p)
  PROVE  SessionInv'
<1> DEFINE x == IF ExplicitDb /\ asked[p] # actual[p] THEN "ending" ELSE "recording"
           start == IF writable THEN Later(db.start, since[p]) ELSE db.start
<1>1. /\ pc[p] \in Writing /\ pc' = [pc EXCEPT ![p] = x] /\ lock' = lock
      /\ db' = [db EXCEPT !.start = start, !.last = "open"]
      /\ UNCHANGED <<gens, now, asked, actual, since>>
  BY PlaceNames DEF MarkStart, Goto, world, local
<1>2. x \in Writing \union {"off"}
  BY PlaceNames
<1>3. start \in Instants \union {None} /\ db \in File
  BY <1>1, InUse DEF File
<1> HIDE DEF x, start
<1>4. /\ db' \in File /\ db'.source = db.source /\ db'.newer = db.newer
      /\ db'.rows = db.rows
  BY <1>1, <1>3 DEF File
<1>5. QED
  BY <1>1, <1>2, <1>4, SessionWrite

LEMMA TickStep ==
  ASSUME SessionInv, NEW p \in Procs, Tick(p)
  PROVE  SessionInv'
<1> DEFINE rows == db.rows \union {actual[p]}
<1>1. /\ pc[p] = "recording" /\ pc' = pc /\ lock' = lock
      /\ db' = [db EXCEPT !.rows = rows]
      /\ UNCHANGED <<gens, now, asked, actual, since>>
  BY DEF Tick, world
<1>2. pc[p] \in Writing /\ "recording" \in Writing \union {"off"}
  BY <1>1, PlaceNames
<1>3. pc' = [pc EXCEPT ![p] = "recording"]
  BY <1>1 DEF SessionInv, Types
<1>4. rows \in SUBSET Sources /\ db \in File
  BY <1>2, InUse DEF SessionInv, Types, File
<1>5. /\ db' \in File /\ db'.source = db.source /\ db'.newer = db.newer
      /\ db'.rows = db.rows \union {actual[p]}
  <2> HIDE DEF rows
  <2>1. /\ db' \in File /\ db'.source = db.source /\ db'.newer = db.newer
        /\ db'.rows = rows
    BY <1>1, <1>4 DEF File
  <2>2. QED
    BY <2>1 DEF rows
<1>6. QED
  BY <1>1, <1>2, <1>3, <1>5, SessionWrite

LEMMA StopStep ==
  ASSUME SessionInv, NEW p \in Procs, Stop(p)
  PROVE  SessionInv'
<1> DEFINE stop == IF writable THEN Later(db.stop, now) ELSE db.stop
<1>1. /\ pc[p] \in Writing /\ pc' = [pc EXCEPT ![p] = "off"]
      /\ db' = [db EXCEPT !.stop = stop, !.last = "ended"]
      /\ UNCHANGED <<gens, now, asked, actual, since>>
  BY PlaceNames DEF Stop, Goto, world, local
<1>2. stop \in Instants \union {None} /\ db \in File
  BY <1>1, InUse DEF File
<1> HIDE DEF stop
<1>3. /\ db' \in File /\ db'.source = db.source /\ db'.newer = db.newer
      /\ db'.rows = db.rows
  BY <1>1, <1>2 DEF File
<1>4. QED
  BY <1>1, <1>3, SessionWrite

LEMMA KillStep ==
  ASSUME SessionInv, NEW p \in Procs, Kill(p)
  PROVE  SessionInv'
<1>1. /\ pc' = [pc EXCEPT ![p] = "off"]
      /\ lock' = IF lock = p THEN None ELSE lock
      /\ UNCHANGED <<gens, now, asked, actual, since>>
  BY DEF Kill, Goto, world, local
<1>2. CASE pc[p] \in {"recording", "ending"}
  <2>1. pc[p] \in Writing /\ db' = [db EXCEPT !.last = "died"]
    BY <1>2, PlaceNames DEF Kill
  <2>2. /\ db' \in File /\ db'.source = db.source /\ db'.newer = db.newer
        /\ db'.rows = db.rows
    BY <2>1, InUse DEF File
  <2>3. QED
    BY <1>1, <2>1, <2>2, SessionWrite
<1>3. CASE pc[p] \notin {"recording", "ending"}
  <2>1. /\ db' = db /\ db \in File \union {None} /\ Unmixed(db) /\ gens \in Nat
        /\ asked \in [Procs -> Sources] /\ actual \in [Procs -> Sources]
        /\ since \in [Procs -> Instants]
    BY <1>3 DEF Kill, SessionInv, Types
  <2>2. "off" \in Places /\ "off" \notin Inside /\ "off" \notin Past
    BY PlaceNames
  <2>3. CASE lock = p
    <3>1. Established("off", p, db', lock')
      BY PlaceNames DEF Established
    <3>2. QED
      BY <1>1, <2>1, <2>2, <2>3, <3>1, HolderStep
  <2>4. CASE lock # p
    <3>1. pc[p] \notin Inside
      BY <2>4, Holder
    <3>2. QED
      BY <1>1, <2>1, <2>2, <2>4, <3>1, OutsiderStep
  <2>5. QED
    BY <2>3, <2>4
<1>4. QED
  BY <1>2, <1>3

\* What the world does to the file and the clock.
LEMMA WorldStep ==
  ASSUME SessionInv, Damage \/ Clock \/ Disk \/ UNCHANGED vars
  PROVE  SessionInv'
<1>1. /\ UNCHANGED <<pc, asked, actual, since, gens, lock>>
      /\ now' \in Instants
  BY DEF Damage, Clock, Disk, vars, inside, store, world, local, SessionInv, Types
<1>2. CASE db' = db
  <2>1. Types'
    BY <1>1, <1>2 DEF SessionInv, Types
  <2>2. Unmixed(db)'
    BY <1>2 DEF SessionInv, Unmixed
  <2>3. \A p \in Procs : Established(pc[p], p, db, lock)'
    BY <1>1, <1>2 DEF SessionInv, Established
  <2>4. QED
    BY <2>1, <2>2, <2>3 DEF SessionInv
<1>3. CASE Damage
  <2>1. /\ db \in File /\ db # None /\ ~db.newer /\ lock = None
        /\ db' = [db EXCEPT !.intact = FALSE]
    BY <1>3 DEF Damage, SessionInv, Types
  <2>2. /\ db' \in File /\ db'.rows = db.rows /\ db'.source = db.source
        /\ db'.newer = db.newer
    BY <2>1 DEF File
  <2>3. Types'
    BY <1>1, <2>2 DEF SessionInv, Types
  <2>4. Unmixed(db)'
    BY <2>1, <2>2 DEF SessionInv, Unmixed
  <2>5. ASSUME NEW p \in Procs PROVE Established(pc[p], p, db, lock)'
    <3>1. p # None
      BY SessionsAssumption
    <3>2. pc[p] \notin Inside
      BY <2>1, <3>1, Holder
    <3>3. QED
      BY <1>1, <3>2, PlaceNames DEF Established
  <2>6. QED
    BY <2>3, <2>4, <2>5 DEF SessionInv
<1>4. CASE Clock \/ Disk \/ UNCHANGED vars
  <2>1. db' = db
    BY <1>4 DEF Clock, Disk, vars, store
  <2>2. QED
    BY <1>2, <2>1
<1>5. QED
  BY <1>3, <1>4

LEMMA SessionStep == SessionInv /\ [Next]_vars => SessionInv'
<1> SUFFICES ASSUME SessionInv, [Next]_vars
             PROVE  SessionInv'
  OBVIOUS
<1>1. ASSUME NEW p \in Procs, Opening(p)
      PROVE  SessionInv'
  BY <1>1, LockStep, GuardStep, InitDbStep, QuarantineStep, ReinitStep, ClaimStep
     DEF Opening
<1>2. ASSUME NEW p \in Procs,
             \/ \E flag, found \in Sources : Run(p, flag, found)
             \/ Begin(p) \/ MarkStart(p) \/ Tick(p) \/ Stop(p) \/ Kill(p)
      PROVE  SessionInv'
  BY <1>2, RunStep, BeginStep, MarkStartStep, TickStep, StopStep, KillStep
<1>3. CASE Damage \/ Clock \/ Disk \/ UNCHANGED vars
  BY <1>3, WorldStep
<1>4. QED
  BY <1>1, <1>2, <1>3 DEF Next

-----------------------------------------------------------------------------
(* What follows *)

\* However many invocations race for it, one database has one writer, and
\* nobody opens, moves or replaces it under that writer (SqliteStore::open).
THEOREM OneWriter == Spec => []SingleWriter
<1>1. SessionInv => SingleWriter
  <2> SUFFICES ASSUME SessionInv, NEW p \in Procs, NEW q \in Procs, p # q,
                      pc[p] \in Writing
               PROVE  db # None /\ pc[q] \notin Writing \union (Steps \ {"lock"})
    BY DEF SingleWriter
  <2>1. pc[p] \in Inside
    BY PlaceNames
  <2>2. lock = p /\ db # None
    BY <2>1, Holder DEF Established
  <2>3. pc[q] \notin Inside
    BY <2>2, Holder
  <2>4. QED
    BY <2>2, <2>3 DEF Inside
<1>2. QED
  BY <1>1, SessionInit, SessionStep, PTL DEF Spec

\* Whatever the flags say and whichever backends are found, no database ever
\* holds both real and simulated rows (claim_data_source).
THEOREM NeverMixed == Spec => []SourcesNeverMix
<1>1. SessionInv => SourcesNeverMix
  BY DEF SessionInv, Unmixed, SourcesNeverMix
<1>2. QED
  BY <1>1, SessionInit, SessionStep, PTL DEF Spec

\* For any set of invocations a database has one writer at a time and never
\* holds the rows of two sources (SqliteStore::open, claim_data_source).
THEOREM OwnedByOne == Spec => []OneOwner
<1>1. SingleWriter /\ SourcesNeverMix => OneOwner
  BY DEF OneOwner
<1>2. QED
  BY <1>1, OneWriter, NeverMixed, PTL

\* No step of any invocation changes or moves a database of a newer build
\* (check_schema_not_newer before any read-write connection).
THEOREM NewerFilesSurvive == Spec => NewerUntouched
<1>1. SessionInv /\ [Next]_vars => [db # None /\ db.newer => db' = db]_db
  <2> SUFFICES ASSUME SessionInv, [Next]_vars, db # None, db.newer
               PROVE  db' = db
    OBVIOUS
  <2>1. \A p \in Procs : pc[p] \notin Past
    BY DEF SessionInv, Established
  <2>2. ASSUME NEW p \in Procs,
               \/ \E flag, found \in Sources : Run(p, flag, found)
               \/ Begin(p) \/ Lock(p) \/ Guard(p)
        PROVE  db' = db
    BY <2>2 DEF Run, Begin, Lock, Guard, store
  <2>3. ASSUME NEW p \in Procs,
               \/ InitDb(p) \/ Quarantine(p) \/ Reinit(p) \/ Claim(p)
               \/ MarkStart(p) \/ Tick(p) \/ Stop(p)
        PROVE  FALSE
    BY <2>1, <2>3, PlaceNames
       DEF InitDb, Quarantine, Reinit, Claim, MarkStart, Tick, Stop
  <2>4. ASSUME NEW p \in Procs, Kill(p)
        PROVE  db' = db
    BY <2>1, <2>4, PlaceNames DEF Kill
  <2>5. CASE Damage \/ Clock \/ Disk \/ UNCHANGED vars
    BY <2>5 DEF Damage, Clock, Disk, vars, store
  <2>6. QED
    BY <2>2, <2>3, <2>4, <2>5 DEF Next, Opening
<1>2. QED
  BY <1>1, SessionInit, SessionStep, PTL DEF Spec, NewerUntouched

-----------------------------------------------------------------------------
(* Types *)

LockInside == lock # None => lock \in Procs /\ pc[lock] \in Inside

RestInv ==
  /\ LockInside
  /\ aside \in [0..(MaxNow \div PerSecond) -> File \union {None}]
  /\ writable \in BOOLEAN /\ owed \in BOOLEAN
  /\ opens \in [Procs -> {"preflight", "engine"}]
  /\ reset \in [Procs -> BOOLEAN]
  /\ runs \in 0..MaxRuns
  /\ verdict \in {"right", "false crash"}

LEMMA RestInit == Init => RestInv
<1> SUFFICES ASSUME Init PROVE RestInv
  OBVIOUS
<1>1. LockInside /\ runs \in 0..MaxRuns
  BY SessionsAssumption DEF Init, LockInside
<1>2. QED
  BY <1>1 DEF Init, RestInv

\* An invocation that moves keeps the lock inside, takes it there, or frees it.
LEMMA LockMoves ==
  ASSUME SessionInv, LockInside, NEW p \in Procs, NEW x, pc' = [pc EXCEPT ![p] = x],
         \/ lock' = None
         \/ lock' = lock /\ (lock = p => x \in Inside)
         \/ lock' = p /\ x \in Inside
  PROVE  LockInside'
<1>1. pc \in [Procs -> Places] /\ Inside' = Inside
  BY DEF SessionInv, Types, Inside
<1>2. QED
  BY <1>1 DEF LockInside

\* A refused open, whoever held the lock.
LEMMA LockRefused ==
  ASSUME SessionInv, LockInside, NEW p \in Procs, NEW why, Refused(p, why)
  PROVE  LockInside'
<1> DEFINE x == IF opens[p] = "preflight" /\ why = "other" THEN "begin" ELSE "off"
<1>1. /\ pc' = [pc EXCEPT ![p] = x]
      /\ lock' = None \/ (lock' = lock /\ lock # p)
  BY DEF Refused, AfterRefusal, Goto
<1> HIDE DEF x
<1>2. QED
  BY <1>1, LockMoves

LEMMA LockInsideStep == SessionInv /\ LockInside /\ [Next]_vars => LockInside'
<1> SUFFICES ASSUME SessionInv, LockInside, [Next]_vars
             PROVE  LockInside'
  OBVIOUS
<1>1. ASSUME NEW p \in Procs, Lock(p) PROVE LockInside'
  <2>1. CASE LockFree
    <3>1. lock' = p /\ pc' = [pc EXCEPT ![p] = "guard"] /\ "guard" \in Inside
      BY <1>1, <2>1, PlaceNames DEF Lock, Goto
    <3>2. QED
      BY <3>1, LockMoves
  <2>2. CASE ~LockFree
    <3>1. Refused(p, "locked")
      BY <1>1, <2>2 DEF Lock
    <3>2. QED
      BY <3>1, LockRefused
  <2>3. QED
    BY <2>1, <2>2
<1>2. ASSUME NEW p \in Procs, Guard(p) PROVE LockInside'
  <2>1. CASE refuse_if_newer(db)
    <3>1. Refused(p, "other")
      BY <1>2, <2>1 DEF Guard
    <3>2. QED
      BY <3>1, LockRefused
  <2>2. CASE ~refuse_if_newer(db)
    <3>1. lock' = lock /\ pc' = [pc EXCEPT ![p] = "init"] /\ "init" \in Inside
      BY <1>2, <2>2, PlaceNames DEF Guard, Goto
    <3>2. QED
      BY <3>1, LockMoves
  <2>3. QED
    BY <2>1, <2>2
<1>3. ASSUME NEW p \in Procs, InitDb(p) \/ Quarantine(p) PROVE LockInside'
  <2>1. PICK x \in Inside : lock' = lock /\ pc' = [pc EXCEPT ![p] = x]
    BY <1>3, PlaceNames DEF InitDb, Quarantine, Goto
  <2>2. QED
    BY <2>1, LockMoves
<1>4. ASSUME NEW p \in Procs, Reinit(p) PROVE LockInside'
  <2>1. CASE writable
    <3>1. lock' = lock /\ pc' = [pc EXCEPT ![p] = "claim"] /\ "claim" \in Inside
      BY <1>4, <2>1, PlaceNames DEF Reinit, Goto
    <3>2. QED
      BY <3>1, LockMoves
  <2>2. CASE ~writable
    <3>1. Refused(p, "other")
      BY <1>4, <2>2 DEF Reinit
    <3>2. QED
      BY <3>1, LockRefused
  <2>3. QED
    BY <2>1, <2>2
<1>5. ASSUME NEW p \in Procs, Claim(p) PROVE LockInside'
  <2>1. \/ \E why : Refused(p, why)
        \/ lock' = None /\ pc' = [pc EXCEPT ![p] = "begin"]
        \/ lock' = lock /\ pc' = [pc EXCEPT ![p] = "mark"]
    BY <1>5 DEF Claim, Goto
  <2>2. "mark" \in Inside
    BY PlaceNames
  <2>3. QED
    BY <2>1, <2>2, LockRefused, LockMoves
<1>6. ASSUME NEW p \in Procs, \E flag, found \in Sources : Run(p, flag, found)
      PROVE  LockInside'
  <2>1. PICK x : pc[p] = "off" /\ lock' = lock /\ pc' = [pc EXCEPT ![p] = x]
    BY <1>6 DEF Run, Goto
  <2>2. lock # p
    BY <2>1, PlaceNames, SessionsAssumption DEF LockInside
  <2>3. QED
    BY <2>1, <2>2, LockMoves
<1>7. ASSUME NEW p \in Procs, Begin(p) PROVE LockInside'
  <2>1. pc[p] = "begin" /\ lock' = lock /\ pc' = [pc EXCEPT ![p] = "lock"]
    BY <1>7 DEF Begin, Goto
  <2>2. lock # p
    BY <2>1, PlaceNames, SessionsAssumption DEF LockInside
  <2>3. QED
    BY <2>1, <2>2, LockMoves
<1>8. ASSUME NEW p \in Procs, MarkStart(p) PROVE LockInside'
  <2>1. PICK x \in Inside : lock' = lock /\ pc' = [pc EXCEPT ![p] = x]
    BY <1>8, PlaceNames DEF MarkStart, Goto
  <2>2. QED
    BY <2>1, LockMoves
<1>9. ASSUME NEW p \in Procs, Stop(p) \/ Kill(p) PROVE LockInside'
  <2>1. /\ pc' = [pc EXCEPT ![p] = "off"]
        /\ lock' = None \/ (lock' = lock /\ lock # p)
    BY <1>9 DEF Stop, Kill, Goto
  <2>2. QED
    BY <2>1, LockMoves
<1>10. ASSUME NEW p \in Procs, Tick(p) PROVE LockInside'
  BY <1>10 DEF Tick, LockInside, Inside
<1>11. CASE Damage \/ Clock \/ Disk \/ UNCHANGED vars
  BY <1>11 DEF Damage, Clock, Disk, vars, inside, LockInside, Inside
<1>12. QED
  BY <1>1, <1>2, <1>3, <1>4, <1>5, <1>6, <1>7, <1>8, <1>9, <1>10, <1>11
     DEF Next, Opening

LEMMA RestStep == SessionInv /\ RestInv /\ [Next]_vars => RestInv'
<1> SUFFICES ASSUME SessionInv, RestInv, [Next]_vars
             PROVE  RestInv'
  OBVIOUS
<1>1. LockInside'
  BY LockInsideStep DEF RestInv
<1>2. ASSUME NEW p \in Procs, NEW flag \in Sources, NEW found \in Sources,
             Run(p, flag, found)
      PROVE  RestInv'
  <2>1. runs < MaxRuns /\ runs' = runs + 1
    BY <1>2 DEF Run
  <2>2. runs \in 0..MaxRuns
    BY DEF RestInv
  <2>3. MaxRuns \in Nat
    BY SessionsAssumption
  <2>4. runs' \in 0..MaxRuns
    BY <2>1, <2>2, <2>3
  <2>5. QED
    BY <1>1, <1>2, <2>4 DEF Run, RestInv, store, world
<1>3. ASSUME NEW p \in Procs, Begin(p) \/ Lock(p) \/ Guard(p) \/ InitDb(p) PROVE RestInv'
  BY <1>1, <1>3 DEF Begin, Lock, Guard, InitDb, RestInv, store, world, local
<1>4. ASSUME NEW p \in Procs, Quarantine(p) PROVE RestInv'
  <2>1. aside' \in [0..(MaxNow \div PerSecond) -> File \union {None}]
    BY <1>4 DEF Quarantine, MovedAside, RestInv, SessionInv, Types
  <2>2. owed' \in BOOLEAN
    BY <1>4 DEF Quarantine, HoldsHistory, RestInv
  <2>3. UNCHANGED <<writable, opens, reset, runs, verdict>>
    BY <1>4 DEF Quarantine, world, local
  <2>4. QED
    BY <1>1, <2>1, <2>2, <2>3 DEF RestInv
<1>5. ASSUME NEW p \in Procs, Reinit(p) \/ Claim(p) PROVE RestInv'
  <2>1. reset' \in [Procs -> BOOLEAN]
    BY <1>5 DEF Reinit, Claim, RestInv
  <2>2. QED
    BY <1>1, <1>5, <2>1 DEF Reinit, Claim, RestInv, world
<1>6. ASSUME NEW p \in Procs, MarkStart(p) PROVE RestInv'
  BY <1>1, <1>6 DEF MarkStart, Judged, RestInv, world, local
<1>7. ASSUME NEW p \in Procs, Tick(p) PROVE RestInv'
  <2>1. owed' \in BOOLEAN /\ reset' \in [Procs -> BOOLEAN]
    BY <1>7 DEF Tick, RestInv
  <2>2. QED
    BY <1>1, <1>7, <2>1 DEF Tick, RestInv, world
<1>8. ASSUME NEW p \in Procs, Stop(p) \/ Kill(p) PROVE RestInv'
  BY <1>1, <1>8 DEF Stop, Kill, RestInv, world, local
<1>9. CASE Damage \/ Clock \/ Disk \/ UNCHANGED vars
  BY <1>1, <1>9 DEF Damage, Clock, Disk, vars, inside, RestInv, store, world, local
<1>10. QED
  BY <1>2, <1>3, <1>4, <1>5, <1>6, <1>7, <1>8, <1>9 DEF Next, Opening

\* The databases, the files moved aside and the invocations stay in their
\* types, and the lock is never left behind: who holds it is inside an open
\* or a session (SqliteStore::open, InstanceLock).
THEOREM SessionTypes == Spec => []TypeOK
<1>1. SessionInv /\ RestInv => TypeOK
  BY DEF SessionInv, Types, RestInv, LockInside, TypeOK, Inside, Places
<1>2. QED
  BY <1>1, SessionInit, SessionStep, RestInit, RestStep, PTL DEF Spec

-----------------------------------------------------------------------------
(* Verdicts on the session before, where the wall clock only runs *)

\* The databases found at first, as sessions that saw no clock step leave
\* them: nobody is in them, none starts later than now, and one whose start
\* mark outlives its stop mark was killed.
Dangles(f) == f.start # None /\ f.start > (IF f.stop = None THEN 0 ELSE f.stop)

Honest(f) == /\ f.last # "open"
             /\ f.start # None => f.start <= 1
             /\ f.last # "died" => ~Dangles(f)

HonestFiles == \A f \in FirstFiles \ {None} : Honest(f)

InSession == {"recording", "ending"}

\* No start mark is later than now, an open session has its invocation, and
\* only a database whose session died has a dangling mark.
Truthful(f) ==
  f # None =>
    /\ f.start # None => f.start <= now
    /\ f.last = "open" => \E p \in Procs : pc[p] \in InSession
    /\ f.last \notin {"open", "died"} => ~Dangles(f)

VerdictInv ==
  /\ verdict # "false crash"
  /\ \A p \in Procs : since[p] <= now
  /\ Truthful(db)

LEMMA VerdictInit == HonestFiles /\ Init => VerdictInv
BY DEF HonestFiles, Honest, Init, VerdictInv, Truthful

\* A step that marks no session: the file keeps its marks, or is a new one,
\* and who is in a session stays there.
LEMMA MarksKept ==
  ASSUME SessionInv, VerdictInv, verdict' = verdict,
         now' \in Instants, now <= now',
         \A p \in Procs : since'[p] = since[p] \/ since'[p] = now,
         \A p \in Procs : pc[p] \in InSession => pc'[p] \in InSession,
         \/ db' = None
         \/ db'.start = None /\ db'.last = "none"
         \/ /\ db # None
            /\ db'.start = db.start /\ db'.stop = db.stop /\ db'.last = db.last
  PROVE  VerdictInv'
<1>1. /\ now \in Int /\ now' \in Int
      /\ \A p \in Procs : since[p] \in Int /\ since'[p] \in Int
      /\ db # None => db.start = None \/ db.start \in Int
  BY DEF SessionInv, Types, Instants, File
<1>2. ASSUME NEW p \in Procs PROVE since'[p] <= now'
  <2>1. since[p] <= now /\ since[p] \in Int
    BY <1>1 DEF VerdictInv
  <2>2. QED
    BY <1>1, <2>1
<1>3. Truthful(db)'
  <2>1. Truthful(db)
    BY DEF VerdictInv
  <2>2. CASE db' = None
    BY <2>2 DEF Truthful
  <2>3. CASE db'.start = None /\ db'.last = "none"
    BY <2>3 DEF Truthful, Dangles
  <2>4. CASE /\ db # None
             /\ db'.start = db.start /\ db'.stop = db.stop /\ db'.last = db.last
    <3>1. db'.start # None => db'.start <= now'
      BY <1>1, <2>1, <2>4 DEF Truthful
    <3>2. db'.last = "open" => \E p \in Procs : pc'[p] \in InSession
      BY <2>1, <2>4 DEF Truthful
    <3>3. db'.last \notin {"open", "died"} => ~Dangles(db')
      BY <2>1, <2>4 DEF Truthful, Dangles
    <3>4. QED
      BY <3>1, <3>2, <3>3 DEF Truthful, Dangles, InSession
  <2>5. QED
    BY <2>2, <2>3, <2>4
<1>4. QED
  BY <1>2, <1>3 DEF VerdictInv

LEMMA VerdictStep ==
  ASSUME SessionInv, VerdictInv, writable, ~ClockMayStep, [Next]_vars
  PROVE  VerdictInv'
<1>1. /\ now \in Instants /\ now \in Int
      /\ pc \in [Procs -> Places] /\ since \in [Procs -> Instants]
  BY DEF SessionInv, Types, Instants
<1>2. ASSUME NEW p \in Procs, \/ \E flag, found \in Sources : Run(p, flag, found)
                              \/ Begin(p) \/ Lock(p) \/ Guard(p)
      PROVE  VerdictInv'
  <2>1. /\ db' = db /\ verdict' = verdict /\ now' = now
        /\ since' = since \/ since' = [since EXCEPT ![p] = now]
        /\ pc[p] \notin InSession
        /\ \E x : pc' = [pc EXCEPT ![p] = x]
    BY <1>2 DEF Run, Begin, Lock, Guard, Refused, AfterRefusal, Goto, store, world, local,
                InSession
  <2>2. QED
    BY <1>1, <2>1, MarksKept
<1>3. ASSUME NEW p \in Procs, InitDb(p) \/ Quarantine(p) \/ Reinit(p)
      PROVE  VerdictInv'
  <2>1. /\ verdict' = verdict /\ now' = now /\ since' = since
        /\ pc[p] \notin InSession
        /\ \E x : pc' = [pc EXCEPT ![p] = x]
    BY <1>3 DEF InitDb, Quarantine, Reinit, Refused, AfterRefusal, Goto, world, local,
                InSession
  <2>2. \/ db' = None
        \/ db'.start = None /\ db'.last = "none"
        \/ /\ db # None
           /\ db'.start = db.start /\ db'.stop = db.stop /\ db'.last = db.last
    BY <1>3 DEF InitDb, Quarantine, Reinit, Blank, SessionInv, Types, File
  <2>3. QED
    BY <1>1, <2>1, <2>2, MarksKept
<1>4. ASSUME NEW p \in Procs, Claim(p) PROVE VerdictInv'
  <2>1. /\ verdict' = verdict /\ now' = now /\ since' = since
        /\ pc[p] = "claim"
        /\ \E x : pc' = [pc EXCEPT ![p] = x]
    BY <1>4 DEF Claim, Refused, AfterRefusal, Goto, world
  <2>2. db # None /\ db \in File
    BY <2>1, PlaceNames DEF SessionInv, Types, Established
  <2>3. db'.start = db.start /\ db'.stop = db.stop /\ db'.last = db.last
    BY <1>4, <2>2 DEF Claim, File
  <2>4. pc[p] \notin InSession
    BY <2>1 DEF InSession
  <2>5. QED
    BY <1>1, <2>1, <2>2, <2>3, <2>4, MarksKept
<1>5. ASSUME NEW p \in Procs, MarkStart(p) PROVE VerdictInv'
  <2>1. /\ pc[p] = "mark" /\ verdict' = Judged /\ now' = now /\ since' = since
        /\ db' = [db EXCEPT !.start = Later(db.start, since[p]), !.last = "open"]
        /\ pc' = [pc EXCEPT ![p] = IF ExplicitDb /\ asked[p] # actual[p]
                                   THEN "ending" ELSE "recording"]
    BY <1>5 DEF MarkStart, Goto, world, local
  <2>2. db # None /\ db \in File /\ lock = p
    BY <2>1, PlaceNames DEF SessionInv, Types, Established
  <2>3. \A q \in Procs : pc[q] \notin InSession
    BY <2>1, <2>2, PlaceNames DEF SessionInv, Established, InSession
  <2>4. Judged = "right"
    BY <2>2, <2>3 DEF VerdictInv, Truthful, Dangles, Judged, Dangling
  <2>5. pc'[p] \in InSession
    BY <1>1, <2>1 DEF InSession
  <2>6. db'.last = "open" /\ db'.start = Later(db.start, since[p])
    BY <2>1, <2>2 DEF File
  <2>7. db'.start <= now
    BY <1>1, <2>2, <2>6 DEF VerdictInv, Truthful, Later
  <2>8. QED
    BY <2>1, <2>4, <2>5, <2>6, <2>7 DEF VerdictInv, Truthful
<1>6. ASSUME NEW p \in Procs, Tick(p) PROVE VerdictInv'
  <2>1. /\ verdict' = verdict /\ now' = now /\ since' = since /\ pc' = pc
        /\ pc[p] = "recording" /\ db' = [db EXCEPT !.rows = db.rows \union {actual[p]}]
    BY <1>6 DEF Tick, world
  <2>2. db # None /\ db \in File
    BY <2>1, PlaceNames DEF SessionInv, Types, Established
  <2>3. db'.start = db.start /\ db'.stop = db.stop /\ db'.last = db.last
    BY <2>1, <2>2 DEF File
  <2>4. QED
    BY <1>1, <2>1, <2>2, <2>3, MarksKept
<1>7. ASSUME NEW p \in Procs, Stop(p) PROVE VerdictInv'
  <2>1. /\ verdict' = verdict /\ now' = now /\ since' = since
        /\ pc[p] \in Inside /\ pc[p] \in Writing
        /\ db' = [db EXCEPT !.stop = Later(db.stop, now), !.last = "ended"]
    BY <1>7, PlaceNames DEF Stop, world, local
  <2>2. db # None /\ db \in File
    BY <2>1, PlaceNames DEF SessionInv, Types, Established
  <2>3. /\ db'.start = db.start /\ db'.stop = Later(db.stop, now)
        /\ db'.last = "ended"
    BY <2>1, <2>2 DEF File
  <2>4. db.start \in Instants \union {None} /\ db.stop \in Instants \union {None}
    BY <2>2 DEF File
  <2>5. db.start # None => db.start <= now
    BY <2>2 DEF VerdictInv, Truthful
  <2>6. None \notin Int
    BY SessionsAssumption
  <2>7. ~Dangles(db')
    BY <1>1, <2>3, <2>4, <2>5, <2>6 DEF Dangles, Later, Instants
  <2>8. QED
    BY <2>1, <2>3, <2>5, <2>7 DEF VerdictInv, Truthful, Dangles
<1>8. ASSUME NEW p \in Procs, Kill(p) PROVE VerdictInv'
  <2>1. /\ verdict' = verdict /\ now' = now /\ since' = since
        /\ pc' = [pc EXCEPT ![p] = "off"]
    BY <1>8 DEF Kill, Goto, world, local
  <2>2. CASE pc[p] \in InSession
    <3>1. db' = [db EXCEPT !.last = "died"] /\ pc[p] \in Writing
      BY <1>8, <2>2, PlaceNames DEF Kill, InSession
    <3>2. db # None /\ db \in File
      BY <3>1, PlaceNames DEF SessionInv, Types, Established
    <3>3. db'.last = "died" /\ db'.start = db.start
      BY <3>1, <3>2 DEF File
    <3>4. QED
      BY <2>1, <3>2, <3>3 DEF VerdictInv, Truthful
  <2>3. CASE pc[p] \notin InSession
    <3>1. db' = db
      BY <1>8, <2>3 DEF Kill, InSession
    <3>2. QED
      BY <1>1, <2>1, <2>3, <3>1, MarksKept
  <2>4. QED
    BY <2>2, <2>3
<1>9. CASE Damage \/ Clock \/ Disk \/ UNCHANGED vars
  <2>1. verdict' = verdict /\ since' = since /\ pc' = pc
    BY <1>9 DEF Damage, Clock, Disk, vars, inside, local
  <2>2. now' = now \/ (now' \in Instants /\ now' = now + 1)
    BY <1>9 DEF Damage, Clock, Disk, vars, world
  <2>3. db' = None \/ (db # None /\ db'.start = db.start /\ db'.stop = db.stop
                       /\ db'.last = db.last)
    <3>1. CASE Damage
      BY <3>1 DEF Damage, SessionInv, Types, File
    <3>2. CASE Clock \/ Disk \/ UNCHANGED vars
      BY <3>2 DEF Clock, Disk, vars, store
    <3>3. QED
      BY <1>9, <3>1, <3>2
  <2>4. now' \in Instants /\ now <= now'
    BY <1>1, <2>2
  <2>5. QED
    BY <2>1, <2>3, <2>4, MarksKept
<1>10. QED
  BY <1>2, <1>3, <1>4, <1>5, <1>6, <1>7, <1>8, <1>9 DEF Next, Opening

-----------------------------------------------------------------------------
(* What is moved aside, where the disk takes every write *)

\* Only a damaged file waits to be moved, nothing is at the path once it is,
\* and only the file found at first is ever damaged: until it is moved,
\* nothing is aside that it could replace.
AsideInv ==
  /\ \A s \in DOMAIN aside : aside[s] # None => ~aside[s].intact
  /\ \A p \in Procs : pc[p] = "quarantine" => db # None /\ ~db.intact
  /\ \A p \in Procs : pc[p] = "reinit" => db = None
  /\ db # None /\ ~db.intact => db.gen = 0
  /\ db # None /\ db.gen = 0 => \A s \in DOMAIN aside : aside[s] = None

LEMMA AsideInit == Init => AsideInv
<1> SUFFICES ASSUME Init PROVE AsideInv
  OBVIOUS
<1>1. db # None => db.gen = 0
  BY SessionsAssumption DEF Init
<1>2. QED
  BY <1>1 DEF Init, AsideInv

\* A step that moves nothing aside and sends nobody to.
LEMMA FileKept ==
  ASSUME SessionInv, AsideInv, NEW p \in Procs, NEW x, x \notin {"quarantine", "reinit"},
         pc' = [pc EXCEPT ![p] = x], aside' = aside,
         \/ db' = db
         \/ /\ db # None /\ lock = p
            /\ db'.gen = db.gen /\ db'.intact = db.intact
  PROVE  AsideInv'
<1>1. pc \in [Procs -> Places]
  BY DEF SessionInv, Types
<1>2. ASSUME NEW q \in Procs, pc'[q] \in {"quarantine", "reinit"}
      PROVE  pc'[q] = pc[q] /\ pc[q] \in Inside /\ db' = db
  <2>1. q # p /\ pc'[q] = pc[q] /\ pc[q] \in Inside
    BY <1>1, <1>2, PlaceNames
  <2>2. lock = q
    BY <2>1, Holder
  <2>3. QED
    BY <2>1, <2>2
<1>3. \A q \in Procs : /\ pc'[q] = "quarantine" => db' # None /\ ~db'.intact
                       /\ pc'[q] = "reinit" => db' = None
  BY <1>2 DEF AsideInv
<1>4. QED
  BY <1>3 DEF AsideInv

\* A file that is new is intact, and not the one found at first.
LEMMA FileNew ==
  ASSUME SessionInv, AsideInv, NEW p \in Procs, lock = p, db' = Blank, aside' = aside,
         pc' = [pc EXCEPT ![p] = "claim"]
  PROVE  AsideInv'
<1>1. db' # None /\ db'.intact /\ db'.gen # 0
  BY BlankFile DEF SessionInv, Types, Blank
<1>2. ASSUME NEW q \in Procs PROVE pc'[q] \notin {"quarantine", "reinit"}
  <2>1. CASE q = p
    BY <2>1 DEF SessionInv, Types
  <2>2. CASE q # p
    <3>1. pc'[q] = pc[q] /\ pc[q] \notin Inside
      BY <2>2, Holder DEF SessionInv, Types
    <3>2. QED
      BY <3>1, PlaceNames
  <2>3. QED
    BY <2>1, <2>2
<1>3. QED
  BY <1>1, <1>2 DEF AsideInv

LEMMA QuarantineAside ==
  ASSUME SessionInv, AsideInv, NEW p \in Procs, Quarantine(p)
  PROVE  AsideInv'
<1>1. /\ pc[p] = "quarantine" /\ pc' = [pc EXCEPT ![p] = "reinit"] /\ db' = None
      /\ aside' = [aside EXCEPT ![Second] = db]
  BY DEF Quarantine, MovedAside, Goto
<1>2. lock = p /\ ~db.intact
  BY <1>1, PlaceNames, Holder DEF AsideInv
<1>3. \A s \in DOMAIN aside' : aside'[s] # None => ~aside'[s].intact
  BY <1>1, <1>2 DEF AsideInv
<1>4. ASSUME NEW q \in Procs PROVE pc'[q] # "quarantine"
  <2>1. CASE q = p
    BY <1>1, <2>1 DEF SessionInv, Types
  <2>2. CASE q # p
    <3>1. pc'[q] = pc[q] /\ pc[q] \notin Inside
      BY <1>1, <1>2, <2>2, Holder DEF SessionInv, Types
    <3>2. QED
      BY <3>1, PlaceNames
  <2>3. QED
    BY <2>1, <2>2
<1>5. QED
  BY <1>1, <1>3, <1>4 DEF AsideInv

LEMMA AsideStep ==
  ASSUME SessionInv, AsideInv, writable, [Next]_vars
  PROVE  AsideInv'
<1>1. ASSUME NEW p \in Procs, \/ \E flag, found \in Sources : Run(p, flag, found)
                              \/ Begin(p) \/ Lock(p) \/ Guard(p)
      PROVE  AsideInv'
  <2>1. /\ db' = db /\ aside' = aside
        /\ \E x \in {"lock", "begin", "guard", "off", "init"} : pc' = [pc EXCEPT ![p] = x]
    BY <1>1 DEF Run, Begin, Lock, Guard, Refused, AfterRefusal, Goto, store
  <2>2. QED
    BY <2>1, FileKept
<1>2. ASSUME NEW p \in Procs, InitDb(p) PROVE AsideInv'
  <2>1. /\ pc[p] = "init" /\ aside' = aside
        /\ pc' = [pc EXCEPT ![p] = IF Usable THEN "claim" ELSE "quarantine"]
    BY <1>2 DEF InitDb, Goto
  <2>2. lock = p /\ db \in File \union {None}
    BY <2>1, PlaceNames, Holder
  <2>3. CASE db = None
    <3>1. db' = Blank /\ pc' = [pc EXCEPT ![p] = "claim"]
      BY <1>2, <2>1, <2>3 DEF InitDb, Usable
    <3>2. QED
      BY <2>1, <2>2, <3>1, FileNew
  <2>4. CASE db # None /\ Usable
    <3>1. db' = [db EXCEPT !.newer = FALSE] /\ pc' = [pc EXCEPT ![p] = "claim"]
      BY <1>2, <2>1, <2>4 DEF InitDb
    <3>2. db'.gen = db.gen /\ db'.intact = db.intact
      BY <2>2, <2>4, <3>1 DEF File
    <3>3. QED
      BY <2>1, <2>2, <2>4, <3>1, <3>2, FileKept
  <2>5. CASE db # None /\ ~Usable
    <3>1. db' = db /\ pc' = [pc EXCEPT ![p] = "quarantine"] /\ ~db.intact
      BY <1>2, <2>1, <2>5 DEF InitDb, Usable
    <3>2. ASSUME NEW q \in Procs PROVE pc'[q] # "reinit"
      <4>1. CASE q = p
        BY <3>1, <4>1 DEF SessionInv, Types
      <4>2. CASE q # p
        <5>1. pc'[q] = pc[q] /\ pc[q] \notin Inside
          BY <2>2, <3>1, <4>2, Holder DEF SessionInv, Types
        <5>2. QED
          BY <5>1, PlaceNames
      <4>3. QED
        BY <4>1, <4>2
    <3>3. QED
      BY <2>1, <2>5, <3>1, <3>2 DEF AsideInv
  <2>6. QED
    BY <2>3, <2>4, <2>5
<1>3. ASSUME NEW p \in Procs, Reinit(p) PROVE AsideInv'
  <2>1. /\ pc[p] = "reinit" /\ aside' = aside /\ db' = Blank
        /\ pc' = [pc EXCEPT ![p] = "claim"]
    BY <1>3 DEF Reinit, Goto
  <2>2. lock = p
    BY <2>1, PlaceNames, Holder
  <2>3. QED
    BY <2>1, <2>2, FileNew
<1>4. ASSUME NEW p \in Procs, Claim(p) \/ MarkStart(p) \/ Tick(p) \/ Stop(p)
      PROVE  AsideInv'
  <2>1. /\ pc[p] \in Writing \union {"claim"} /\ aside' = aside
        /\ \E x \in {"off", "begin"} \union Writing : pc' = [pc EXCEPT ![p] = x]
    <3>1. CASE Claim(p)
      BY <3>1, PlaceNames DEF Claim, Refused, AfterRefusal, Goto
    <3>2. CASE MarkStart(p) \/ Stop(p)
      BY <3>2, PlaceNames DEF MarkStart, Stop, Goto
    <3>3. CASE Tick(p)
      <4>1. pc' = [pc EXCEPT ![p] = "recording"]
        BY <3>3 DEF Tick, SessionInv, Types
      <4>2. QED
        BY <3>3, <4>1, PlaceNames DEF Tick
    <3>4. QED
      BY <1>4, <3>1, <3>2, <3>3
  <2>2. db # None /\ db \in File /\ lock = p
    BY <2>1, PlaceNames DEF SessionInv, Types, Established
  <2>3. db'.gen = db.gen /\ db'.intact = db.intact
    BY <1>4, <2>2 DEF Claim, MarkStart, Tick, Stop, File
  <2>4. \E x : pc' = [pc EXCEPT ![p] = x] /\ x \notin {"quarantine", "reinit"}
    BY <2>1, PlaceNames
  <2>5. QED
    BY <2>1, <2>2, <2>3, <2>4, FileKept
<1>5. ASSUME NEW p \in Procs, Kill(p) PROVE AsideInv'
  <2>1. aside' = aside /\ pc' = [pc EXCEPT ![p] = "off"]
    BY <1>5 DEF Kill, Goto
  <2>2. CASE pc[p] \in InSession
    <3>1. db' = [db EXCEPT !.last = "died"] /\ pc[p] \in Writing
      BY <1>5, <2>2, PlaceNames DEF Kill, InSession
    <3>2. db # None /\ db \in File /\ lock = p
      BY <3>1, PlaceNames DEF SessionInv, Types, Established
    <3>3. db'.gen = db.gen /\ db'.intact = db.intact
      BY <3>1, <3>2 DEF File
    <3>4. QED
      BY <2>1, <3>2, <3>3, FileKept
  <2>3. CASE pc[p] \notin InSession
    <3>1. db' = db
      BY <1>5, <2>3 DEF Kill, InSession
    <3>2. QED
      BY <2>1, <3>1, FileKept
  <2>4. QED
    BY <2>2, <2>3
<1>6. CASE Damage
  <2>1. /\ db # None /\ db.gen = 0 /\ db \in File /\ lock = None
        /\ db' = [db EXCEPT !.intact = FALSE] /\ aside' = aside /\ pc' = pc
    BY <1>6 DEF Damage, inside, SessionInv, Types
  <2>2. db'.gen = 0 /\ ~db'.intact
    BY <2>1 DEF File
  <2>3. \A p \in Procs : pc[p] \notin Inside
    BY <2>1, Holder, SessionsAssumption
  <2>4. QED
    BY <2>1, <2>2, <2>3, PlaceNames DEF AsideInv
<1>7. CASE Clock \/ Disk \/ UNCHANGED vars
  BY <1>7 DEF Clock, Disk, vars, inside, store, AsideInv
<1>8. QED
  BY <1>1, <1>2, <1>3, <1>4, <1>5, <1>6, <1>7, QuarantineAside DEF Next, Opening

-----------------------------------------------------------------------------
(* What is kept *)

\* Only a quarantine takes a database from its path, and only a fresh one
\* behind it is another database.
LEMMA FileStays ==
  ASSUME SessionInv, [Next]_vars, db # None,
         \A p \in Procs : ~Quarantine(p) /\ ~Reinit(p)
  PROVE  db' \in File /\ db'.gen = db.gen /\ aside' = aside
<1>1. db \in File
  BY DEF SessionInv, Types
<1>2. ASSUME NEW p \in Procs, \/ \E flag, found \in Sources : Run(p, flag, found)
                              \/ Begin(p) \/ Lock(p) \/ Guard(p)
      PROVE  db' \in File /\ db'.gen = db.gen /\ aside' = aside
  BY <1>1, <1>2 DEF Run, Begin, Lock, Guard, store
<1>3. ASSUME NEW p \in Procs, InitDb(p)
      PROVE  db' \in File /\ db'.gen = db.gen /\ aside' = aside
  BY <1>1, <1>3 DEF InitDb, File
<1>4. ASSUME NEW p \in Procs, Claim(p)
      PROVE  db' \in File /\ db'.gen = db.gen /\ aside' = aside
  <2> DEFINE source == IF opens[p] = "preflight" THEN asked[p] ELSE actual[p]
  <2>1. source \in Sources
    BY DEF SessionInv, Types
  <2>2. aside' = aside /\ (db' = db \/ db' = [db EXCEPT !.source = source])
    BY <1>4 DEF Claim
  <2> HIDE DEF source
  <2>3. QED
    BY <1>1, <2>1, <2>2 DEF File
<1>5. ASSUME NEW p \in Procs, MarkStart(p)
      PROVE  db' \in File /\ db'.gen = db.gen /\ aside' = aside
  <2> DEFINE start == IF writable THEN Later(db.start, since[p]) ELSE db.start
  <2>1. pc[p] \in Writing /\ aside' = aside /\ db' = [db EXCEPT !.start = start, !.last = "open"]
    BY <1>5, PlaceNames DEF MarkStart
  <2>2. start \in Instants \union {None}
    BY <1>1, <2>1, InUse DEF File
  <2> HIDE DEF start
  <2>3. QED
    BY <1>1, <2>1, <2>2 DEF File
<1>6. ASSUME NEW p \in Procs, Tick(p)
      PROVE  db' \in File /\ db'.gen = db.gen /\ aside' = aside
  <2>1. db.rows \union {actual[p]} \in SUBSET Sources
    BY <1>1 DEF SessionInv, Types, File
  <2>2. QED
    BY <1>1, <1>6, <2>1 DEF Tick, File
<1>7. ASSUME NEW p \in Procs, Stop(p)
      PROVE  db' \in File /\ db'.gen = db.gen /\ aside' = aside
  <2> DEFINE stop == IF writable THEN Later(db.stop, now) ELSE db.stop
  <2>1. pc[p] \in Writing /\ aside' = aside /\ db' = [db EXCEPT !.stop = stop, !.last = "ended"]
    BY <1>7, PlaceNames DEF Stop
  <2>2. stop \in Instants \union {None}
    BY <1>1, <2>1, InUse DEF File
  <2> HIDE DEF stop
  <2>3. QED
    BY <1>1, <2>1, <2>2 DEF File
<1>8. ASSUME NEW p \in Procs, Kill(p)
      PROVE  db' \in File /\ db'.gen = db.gen /\ aside' = aside
  BY <1>1, <1>8 DEF Kill, File
<1>9. CASE Damage \/ Clock \/ Disk \/ UNCHANGED vars
  <2>1. CASE Damage
    BY <1>1, <2>1 DEF Damage, File
  <2>2. CASE Clock \/ Disk \/ UNCHANGED vars
    BY <1>1, <2>2 DEF Clock, Disk, vars, store
  <2>3. QED
    BY <1>9, <2>1, <2>2
<1>10. QED
  BY <1>2, <1>3, <1>4, <1>5, <1>6, <1>7, <1>8, <1>9 DEF Next, Opening

\* The name of a file moved aside is one of the seconds that are kept.
LEMMA SecondKept == SessionInv /\ RestInv => Second \in DOMAIN aside
<1> SUFFICES ASSUME SessionInv, RestInv
             PROVE  Second \in 0..(MaxNow \div PerSecond)
  BY DEF RestInv
<1>1. /\ now \in Nat /\ MaxNow \in Nat /\ now <= MaxNow
      /\ PerSecond \in Nat /\ PerSecond > 0
  BY SessionsAssumption DEF SessionInv, Types, Instants
<1> DEFINE a == now \div PerSecond
           b == MaxNow \div PerSecond
<1>2. /\ a \in Nat /\ b \in Nat
      /\ PerSecond * a <= now /\ MaxNow < PerSecond * b + PerSecond
  BY <1>1
<1>3. a <= b
  <2> HIDE DEF a, b
  <2>1. SUFFICES ASSUME a >= b + 1 PROVE FALSE
    BY <1>2
  <2>2. PerSecond * a >= PerSecond * (b + 1)
    BY <1>1, <1>2, <2>1
  <2>3. QED
    BY <1>1, <1>2, <2>2
<1>4. QED
  BY <1>2, <1>3 DEF Second

\* No step loses a database that holds history: the one step that moves a
\* database finds nothing aside that it could replace.
LEMMA HistoryStep ==
  ASSUME SessionInv, RestInv, AsideInv, [Next]_vars
  PROVE  KeepsHistory
<1> SUFFICES ASSUME NEW f \in {db} \union {aside[s] : s \in DOMAIN aside}, f # None
             PROVE  f.gen \in Gens'
  BY DEF KeepsHistory, HoldsHistory
<1>1. CASE \E p \in Procs : Quarantine(p)
  <2>1. PICK p \in Procs : Quarantine(p)
    BY <1>1
  <2>2. pc[p] = "quarantine" /\ aside' = [aside EXCEPT ![Second] = db]
    BY <2>1 DEF Quarantine, MovedAside
  <2>3. db # None /\ \A s \in DOMAIN aside : aside[s] = None
    BY <2>2 DEF AsideInv
  <2>4. f = db
    BY <2>3
  <2>5. Second \in DOMAIN aside' /\ aside'[Second] = db
    BY <2>2, SecondKept
  <2>6. QED
    BY <2>3, <2>4, <2>5 DEF Gens
<1>2. CASE \E p \in Procs : Reinit(p)
  <2>1. db = None /\ aside' = aside
    BY <1>2 DEF Reinit, AsideInv
  <2>2. QED
    BY <2>1 DEF Gens
<1>3. CASE \A p \in Procs : ~Quarantine(p) /\ ~Reinit(p)
  <2>1. CASE db # None
    <3>1. db' # None /\ db'.gen = db.gen /\ aside' = aside
      BY <1>3, <2>1, FileStays, SessionsAssumption
    <3>2. QED
      BY <3>1 DEF Gens
  <2>2. CASE db = None
    <3>1. aside' = aside
      BY <1>3, <2>2 DEF Next, Opening, Run, Begin, Lock, Guard, InitDb, Claim, MarkStart,
         Tick, Stop, Kill, Damage, Clock, Disk, vars, store
    <3>2. QED
      BY <2>2, <3>1 DEF Gens
  <2>3. QED
    BY <2>1, <2>2
<1>4. QED
  BY <1>1, <1>2, <1>3

\* In the setting with a disk that takes writes.
SharedInv ==
  /\ SessionInv /\ RestInv
  /\ setting = "shared" => writable /\ AsideInv

LEMMA SharedInit == Init2 => SharedInv
BY SessionInit, RestInit, AsideInit DEF Init2, Init, SharedInv

LEMMA SharedStep == SharedInv /\ [Next2]_<<vars, setting>> => SharedInv'
<1> SUFFICES ASSUME SharedInv, [Next2]_<<vars, setting>>
             PROVE  SharedInv'
  OBVIOUS
<1>1. [Next]_vars /\ setting' = setting
  BY DEF Next2
<1>2. SessionInv' /\ RestInv'
  BY <1>1, SessionStep, RestStep DEF SharedInv
<1>3. ASSUME setting = "shared" PROVE writable' /\ AsideInv'
  <2>1. writable /\ AsideInv /\ SessionInv
    BY <1>3 DEF SharedInv
  <2>2. writable'
    BY <1>3, <2>1 DEF Next2, vars, world
  <2>3. AsideInv'
    BY <1>1, <2>1, AsideStep
  <2>4. QED
    BY <2>2, <2>3
<1>4. QED
  BY <1>1, <1>2, <1>3 DEF SharedInv

\* On a disk that takes writes, whatever the clock does and whatever is found
\* at the path, no step loses a history, in place or aside: a quarantine never
\* renames over what an earlier one saved (open, open_recording).
THEOREM HistorySurvives == Spec2 => SharedHistoryKept
<1>1. SharedInv /\ [Next2]_<<vars, setting>>
        => [setting = "shared" => KeepsHistory]_store
  <2> SUFFICES ASSUME SharedInv, [Next2]_<<vars, setting>>, setting = "shared"
               PROVE  KeepsHistory
    OBVIOUS
  <2>1. [Next]_vars
    BY DEF Next2
  <2>2. QED
    BY <2>1, HistoryStep DEF SharedInv
<1>2. QED
  BY <1>1, SharedInit, SharedStep, PTL DEF Spec2, SharedHistoryKept

\* For any number of invocations that race, wait and are killed, on a disk
\* that takes every write under a wall clock that only runs: what is moved
\* aside was damaged, never merely busy, newer or killed, and a session that
\* is said to have crashed has (open_recording, Engine::with_backends).
THEOREM VerdictsAreRight ==
  ASSUME HonestFiles, ~ClockMayStep
  PROVE  Spec2 => []SharedVerdicts
<1> DEFINE Told == setting = "shared" => VerdictInv
<1>1. Init2 => Told
  BY VerdictInit DEF Init2
<1>2. SharedInv /\ Told /\ [Next2]_<<vars, setting>> => Told'
  <2> SUFFICES ASSUME SharedInv, VerdictInv, [Next2]_<<vars, setting>>,
                      setting = "shared"
               PROVE  VerdictInv'
    BY DEF Next2
  <2>1. [Next]_vars
    BY DEF Next2
  <2>2. QED
    BY <2>1, VerdictStep DEF SharedInv
<1>3. SharedInv /\ Told => SharedVerdicts
  BY DEF SharedInv, VerdictInv, AsideInv, SharedVerdicts, OnlyDamagedQuarantined,
         NoFalseCrash
<1>4. QED
  BY <1>1, <1>2, <1>3, SharedInit, SharedStep, PTL DEF Spec2
=============================================================================
