--------------------------- MODULE ArchiveProofs ---------------------------
(***************************************************************************)
(* What every recording keeps through migrations, deaths and older builds, *)
(* for every first file, retention and set of narrations: its stamp        *)
(* describes its shape, and each narration stays as it was first told,     *)
(* once under the index. And what is read of it beside its writers: an     *)
(* export is one moment of its window, a report misses nothing that stays. *)
(***************************************************************************)
EXTENDS Archive, TLAPS, WellFoundedInduction

USE ArchiveAssumption

\* A set of rows with ids has one of the lowest id.
LEMMA LowestId ==
  ASSUME NEW S, S # {}, \A e \in S : e.id \in Nat
  PROVE  \E e \in S : \A f \in S : e.id <= f.id
<1> DEFINE Ids == {e.id : e \in S}
<1>1. Ids \subseteq Nat /\ Ids # {}
  OBVIOUS
<1>2. IsWellFoundedOn(OpToRel(<, Nat), Nat)
  BY NatLessThanWellFounded
<1>3. \E x \in Ids : \A y \in Ids : ~ <<y, x>> \in OpToRel(<, Nat)
  <2> HIDE DEF Ids
  <2> QED BY <1>1, <1>2, WFMin
<1>4. \A x, y \in Nat : y < x => <<y, x>> \in OpToRel(<, Nat)
  BY DEF OpToRel
<1>5. PICK e \in S : \A y \in Ids : ~ <<y, e.id>> \in OpToRel(<, Nat)
  BY <1>3
<1>6. ASSUME NEW f \in S
      PROVE  e.id <= f.id
  <2>1. f.id \in Ids /\ e.id \in Nat /\ f.id \in Nat
    OBVIOUS
  <2>2. ~ (f.id < e.id)
    BY <1>4, <1>5, <2>1
  <2> QED BY <2>1, <2>2
<1> QED BY <1>6

\* FirstId gives the lowest id of a narration's rows.
LEMMA FirstIdIsLowest ==
  ASSUME NEW S, \A e \in S : e.id \in Nat, NEW k \in Keys(S)
  PROVE  \E e \in S : /\ Key(e) = k /\ e.id = FirstId(S, k)
                      /\ \A f \in S : Key(f) = k => e.id <= f.id
<1> DEFINE T == {e \in S : Key(e) = k}
<1>1. T # {} /\ \A e \in T : e.id \in Nat
  BY DEF Keys
<1>2. \E e \in T : \A f \in T : e.id <= f.id
  BY <1>1, LowestId
<1>3. \E e \in S : Key(e) = k /\ \A f \in S : Key(f) = k => e.id <= f.id
  BY <1>2
<1> QED BY <1>3 DEF FirstId

-----------------------------------------------------------------------------
(* The inductive invariant *)

\* The open is past a migration only when the file has its result.
Migrated ==
  /\ db \in File
  /\ pc \in Tiers \union {"off", "tables", "dedupe", "stamp", "on"}
  /\ pc # "off" /\ pc # "tables" => db.tables
  /\ pc \in Tiers \union {"stamp", "on"} => db.index
  /\ pc = "1m" => "10s" \in db.cols
  /\ pc \in {"stamp", "on"} => db.cols = Tiers

\* A narration's first row is there, and its lowest.
Originally ==
  /\ now \in Instants
  /\ DOMAIN first \subseteq Instants \X Lines
  /\ \A k \in DOMAIN first :
       \E e \in db.log : /\ e.id = first[k] /\ Key(e) = k
                         /\ \A f \in db.log : Key(f) = k => e.id <= f.id
  /\ \A e \in db.log : Key(e) \in DOMAIN first

IInv == Migrated /\ Shaped(db) /\ Numbered(db) /\ Once(db) /\ Originally

USE DEF Tiers, SCHEMA_VERSION

LEMMA ArchiveInit == Init => IInv
<1> SUFFICES ASSUME Init PROVE IInv
  OBVIOUS
<1>1. db \in File /\ Numbered(db) /\ Once(db) /\ Shaped(db)
  BY DEF Init
<1>2. Migrated
  BY <1>1 DEF Init, Migrated
<1>3. \A e \in db.log : e.id \in Nat /\ Key(e) \in Instants \X Lines
  BY <1>1 DEF File, Event, Key
<1>4. DOMAIN first = Keys(db.log) /\ \A k \in Keys(db.log) : first[k] = FirstId(db.log, k)
  BY DEF Init
<1>5. \A k \in Keys(db.log) :
        \E e \in db.log : /\ e.id = FirstId(db.log, k) /\ Key(e) = k
                          /\ \A f \in db.log : Key(f) = k => e.id <= f.id
  BY <1>3, FirstIdIsLowest
<1>6. Originally
  BY <1>3, <1>4, <1>5 DEF Init, Originally, Keys
<1> QED BY <1>1, <1>2, <1>6 DEF IInv

\* Each statement of an open keeps the invariant.
LEMMA MigrateKeeps == IInv /\ Migrate => IInv'
<1> SUFFICES ASSUME IInv, Migrate PROVE IInv'
  OBVIOUS
<1> USE DEF IInv, Migrated, File
<1>1. now' = now /\ first' = first
  BY DEF Migrate
<1>2. CASE Tables
  <2>1. db' = Created /\ pc = "tables" /\ pc' = "dedupe"
    BY <1>2 DEF Tables, Goes
  <2>2. /\ db'.log = db.log /\ db'.seq = db.seq /\ db'.index = db.index /\ db'.ver = db.ver
        /\ db'.tables /\ db'.cols = (IF db.tables THEN db.cols ELSE Tiers) /\ db' \in File
    BY <2>1 DEF Created
  <2>3. Migrated'
    BY <2>1, <2>2
  <2>4. Shaped(db)' /\ Numbered(db)' /\ Once(db)'
    BY <2>2 DEF Shaped, Numbered, Once
  <2>5. Originally'
    BY <1>1, <2>2 DEF Originally
  <2> QED BY <2>3, <2>4, <2>5
<1>3. CASE Dedupe
  <2>1. pc = "dedupe" /\ pc' = "10s"
    BY <1>3 DEF Dedupe, Goes
  <2>2. CASE db.index
    <3>1. db' = db
      BY <1>3, <2>2 DEF Dedupe
    <3> QED BY <1>1, <2>1, <2>2, <3>1 DEF Shaped, Numbered, Once, Originally
  <2>3. CASE ~db.index
    <3>1. /\ db'.log = Originals(db.log) /\ db'.index /\ db'.seq = db.seq
          /\ db'.tables = db.tables /\ db'.ver = db.ver /\ db'.cols = db.cols
      BY <1>3, <2>3 DEF Dedupe
    <3>2. Originals(db.log) \subseteq db.log
      BY DEF Originals
    <3>3. db' \in File
      BY <1>3, <2>3, <3>2 DEF Dedupe
    <3>4. Migrated' /\ Shaped(db)'
      BY <2>1, <3>1, <3>3 DEF Shaped
    <3>5. Numbered(db)'
      BY <3>1, <3>2 DEF Numbered
    <3>6. Once(db)'
      <4> SUFFICES ASSUME NEW e \in Originals(db.log), NEW f \in Originals(db.log),
                          Key(e) = Key(f)
                   PROVE  e = f
        BY <3>1 DEF Once
      <4>1. e.id <= f.id /\ f.id <= e.id
        BY DEF Originals
      <4>2. e.id \in Nat /\ f.id \in Nat
        BY <3>2 DEF Event
      <4>3. e.id = f.id
        BY <4>1, <4>2
      <4> QED BY <3>2, <4>3 DEF Numbered
    <3>7. Originally'
      <4>1. ASSUME NEW k \in DOMAIN first
            PROVE  \E e \in Originals(db.log) :
                     /\ e.id = first[k] /\ Key(e) = k
                     /\ \A f \in Originals(db.log) : Key(f) = k => e.id <= f.id
        <5>1. PICK e \in db.log : /\ e.id = first[k] /\ Key(e) = k
                                  /\ \A f \in db.log : Key(f) = k => e.id <= f.id
          BY DEF Originally
        <5>2. e \in Originals(db.log)
          BY <5>1 DEF Originals
        <5> QED BY <3>2, <5>1, <5>2
      <4> QED BY <1>1, <3>1, <3>2, <4>1 DEF Originally
    <3> QED BY <3>4, <3>5, <3>6, <3>7
  <2> QED BY <2>2, <2>3
<1>4. CASE AddColumn
  <2>1. \/ pc = "10s" /\ pc' = "1m"
        \/ pc = "1m" /\ pc' = "stamp"
    BY <1>4 DEF AddColumn, Goes
  <2>2. /\ db'.cols = db.cols \union {pc} /\ db'.log = db.log /\ db'.seq = db.seq
        /\ db'.index = db.index /\ db'.ver = db.ver /\ db'.tables = db.tables /\ db' \in File
    BY <1>4, <2>1 DEF AddColumn
  <2>3. Migrated'
    BY <2>1, <2>2
  <2>4. Shaped(db)' /\ Numbered(db)' /\ Once(db)' /\ Originally'
    BY <1>1, <2>1, <2>2 DEF Shaped, Numbered, Once, Originally
  <2> QED BY <2>3, <2>4
<1>5. CASE Stamp
  <2>1. /\ pc = "stamp" /\ pc' = "on"
        /\ db'.ver = SCHEMA_VERSION /\ db'.cols = db.cols /\ db'.log = db.log
        /\ db'.seq = db.seq /\ db'.index = db.index /\ db'.tables = db.tables
        /\ db' \in File
    BY <1>5 DEF Stamp, Goes
  <2> QED BY <1>1, <2>1 DEF Shaped, Numbered, Once, Originally
<1> QED BY <1>2, <1>3, <1>4, <1>5 DEF Migrate

\* The rows of a batch are new and numbered past all others.
LEMMA StoredRows ==
  ASSUME IInv, NEW batch \in Batches
  PROVE  \A e \in Stored(batch) :
           /\ e \in Event /\ db.seq < e.id /\ e.id <= db.seq + 2 /\ Key(e) \in Instants \X Lines
           /\ \A f \in Stored(batch) : e.id = f.id => e = f
<1>1. db.seq \in Nat /\ now \in Instants
  BY DEF IInv, Migrated, Originally, File
<1>2. \A i \in DOMAIN batch : i \in {1, 2} /\ batch[i] \in Lines
  BY DEF Batches
<1>3. ASSUME NEW e \in Stored(batch)
      PROVE  /\ e \in Event /\ db.seq < e.id /\ e.id <= db.seq + 2
             /\ Key(e) \in Instants \X Lines
             /\ \A f \in Stored(batch) : e.id = f.id => e = f
  <2>1. PICK i \in DOMAIN batch : e = [id |-> db.seq + i, ts |-> now, line |-> batch[i]]
    BY DEF Stored
  <2>2. ASSUME NEW f \in Stored(batch), e.id = f.id
        PROVE  e = f
    <3>1. PICK j \in DOMAIN batch : f = [id |-> db.seq + j, ts |-> now, line |-> batch[j]]
      BY DEF Stored
    <3>2. i = j
      BY <1>1, <1>2, <2>1, <2>2, <3>1
    <3> QED BY <2>1, <3>1, <3>2
  <2>3. e \in Event /\ db.seq < e.id /\ e.id <= db.seq + 2 /\ Key(e) \in Instants \X Lines
    BY <1>1, <1>2, <2>1 DEF Event, Key
  <2> QED BY <2>2, <2>3
<1> QED BY <1>3

\* New rows that land keep the invariant, if under the index none of them
\* tells what another row tells.
LEMMA LandingKeeps ==
  ASSUME IInv, NEW batch \in Batches, NEW events \in SUBSET Stored(batch),
         Landing(events), now' = now, pc' = pc,
         db.index => /\ \A e, f \in events : Key(e) = Key(f) => e = f
                     /\ \A e \in events : Key(e) \notin Keys(db.log)
  PROVE  IInv'
<1> USE DEF IInv, Migrated, File
<1>1. /\ db'.log = db.log \union events /\ db'.seq = db.seq + 2
      /\ db'.tables = db.tables /\ db'.ver = db.ver /\ db'.cols = db.cols
      /\ db'.index = db.index
  BY DEF Landing
<1>2. \A e \in events : /\ e \in Event /\ db.seq < e.id /\ e.id <= db.seq + 2
                        /\ Key(e) \in Instants \X Lines
                        /\ \A f \in events : e.id = f.id => e = f
  BY StoredRows
<1>3. db' \in File
  <2>1. db.seq + 2 \in Nat /\ db.log \union events \in SUBSET Event
    BY <1>2
  <2> QED BY <2>1 DEF Landing
<1>4. Migrated' /\ Shaped(db)'
  BY <1>1, <1>3 DEF Shaped
<1>5. \A e \in db.log : e \in Event /\ e.id \in Nat /\ e.id <= db.seq
  BY DEF Numbered, Event
<1>6. \A e \in events : e.id \in Nat
  BY <1>2 DEF Event
<1>7. Numbered(db)'
  BY <1>1, <1>2, <1>5, <1>6 DEF Numbered
<1>8. Once(db)'
  BY <1>1 DEF Once, Keys
<1>9. Originally'
  <2>1. /\ DOMAIN first' = DOMAIN first \union Keys(events)
        /\ \A k \in DOMAIN first : first'[k] = first[k]
        /\ \A k \in Keys(events) \ DOMAIN first : first'[k] = FirstId(events, k)
    BY DEF Landing
  <2>2. DOMAIN first' \subseteq Instants \X Lines
    BY <1>2, <2>1 DEF Originally, Keys
  <2>3. \A e \in db'.log : Key(e) \in DOMAIN first'
    BY <1>1, <2>1 DEF Originally, Keys
  <2>4. ASSUME NEW k \in DOMAIN first
        PROVE  \E e \in db'.log : /\ e.id = first'[k] /\ Key(e) = k
                                  /\ \A f \in db'.log : Key(f) = k => e.id <= f.id
    <3>1. PICK e \in db.log : /\ e.id = first[k] /\ Key(e) = k
                              /\ \A f \in db.log : Key(f) = k => e.id <= f.id
      BY DEF Originally
    <3>2. \A f \in events : e.id <= f.id
      BY <1>2, <1>5, <1>6
    <3> QED BY <1>1, <2>1, <3>1, <3>2
  <2>5. ASSUME NEW k \in Keys(events) \ DOMAIN first
        PROVE  \E e \in db'.log : /\ e.id = first'[k] /\ Key(e) = k
                                  /\ \A f \in db'.log : Key(f) = k => e.id <= f.id
    <3>1. PICK e \in events : /\ Key(e) = k /\ e.id = FirstId(events, k)
                              /\ \A f \in events : Key(f) = k => e.id <= f.id
      BY <1>6, FirstIdIsLowest
    <3>2. \A f \in db.log : Key(f) # k
      BY DEF Originally
    <3> QED BY <1>1, <2>1, <3>1, <3>2
  <2> QED BY <2>1, <2>2, <2>3, <2>4, <2>5 DEF Originally
<1> QED BY <1>4, <1>7, <1>8, <1>9

\* Each write keeps the invariant.
LEMMA WriteKeeps == IInv /\ Write => IInv'
<1> SUFFICES ASSUME IInv, Write PROVE IInv'
  OBVIOUS
<1> USE DEF IInv, Migrated, File
<1>1. now' = now
  BY DEF Write
<1>2. CASE (Open \/ Close) /\ UNCHANGED <<inserts, first>>
  BY <1>1, <1>2 DEF Open, Close, Goes, Shaped, Numbered, Once, Originally
<1>3. ASSUME NEW batch \in Batches, InsertEvents(batch)
      PROVE  IInv'
  <2> DEFINE events == Unseen(Stored(batch))
  <2>1. events \in SUBSET Stored(batch)
    BY DEF Unseen, Originals
  <2>2. \A e \in events : Key(e) \notin Keys(db.log)
    BY DEF Unseen
  <2>3. ASSUME NEW e \in events, NEW f \in events, Key(e) = Key(f)
        PROVE  e = f
    <3>1. e.id <= f.id /\ f.id <= e.id
      BY <2>1, <2>3 DEF Unseen, Originals
    <3>2. e.id \in Nat /\ f.id \in Nat
      BY <2>1, StoredRows DEF Event
    <3>3. e.id = f.id
      BY <3>1, <3>2
    <3> QED BY <2>1, <3>3, StoredRows
  <2>4. Landing(events) /\ pc' = pc
    BY <1>3 DEF InsertEvents
  <2> HIDE DEF events
  <2> QED BY <1>1, <2>1, <2>2, <2>3, <2>4, LandingKeeps
<1>4. ASSUME NEW tier \in Tiers, NEW said \in DOMAIN Counts, InsertRow(tier, said)
      PROVE  IInv'
  <2>1. /\ db'.log = db.log /\ db'.seq = db.seq /\ db'.tables = db.tables
        /\ db'.ver = db.ver /\ db'.cols = db.cols /\ db'.index = db.index
        /\ pc' = pc /\ first' = first
    BY <1>4 DEF InsertRow
  <2>2. db' \in File
    <3>1. Bucket(tier, now) \in Instants
      BY DEF Bucket, Width, Instants, Originally
    <3>2. Reading(said) \in [Columns -> {0, 1}]
      BY DEF Reading
    <3>3. Replaced(tier, Reading(said)) \in SUBSET Row
      BY <3>1, <3>2 DEF Replaced, Row
    <3> QED BY <1>4, <3>3 DEF InsertRow
  <2> QED BY <1>1, <2>1, <2>2 DEF Shaped, Numbered, Once, Originally
<1>5. CASE Prune
  <2>1. /\ db'.log = {e \in db.log : Fresh(e.ts)} /\ db'.rows \subseteq db.rows
        /\ db'.seq = db.seq /\ db'.tables = db.tables
        /\ db'.ver = db.ver /\ db'.cols = db.cols /\ db'.index = db.index
        /\ pc' = pc
        /\ first' = [k \in {k \in DOMAIN first : Fresh(k[1])} |-> first[k]]
    BY <1>5 DEF Prune
  <2>2. db' \in File
    BY <1>5, <2>1 DEF Prune
  <2>3. Migrated' /\ Shaped(db)' /\ Numbered(db)' /\ Once(db)'
    BY <2>1, <2>2 DEF Shaped, Numbered, Once
  <2>4. \A e : Key(e)[1] = e.ts
    BY DEF Key
  <2>5. ASSUME NEW k \in DOMAIN first'
        PROVE  \E e \in db'.log : /\ e.id = first'[k] /\ Key(e) = k
                                  /\ \A f \in db'.log : Key(f) = k => e.id <= f.id
    <3>1. k \in DOMAIN first /\ Fresh(k[1]) /\ first'[k] = first[k]
      BY <2>1
    <3>2. PICK e \in db.log : /\ e.id = first[k] /\ Key(e) = k
                              /\ \A f \in db.log : Key(f) = k => e.id <= f.id
      BY <3>1 DEF Originally
    <3>3. e \in db'.log
      BY <2>1, <2>4, <3>1, <3>2
    <3> QED BY <2>1, <3>1, <3>2, <3>3
  <2>6. \A e \in db'.log : Key(e) \in DOMAIN first'
    BY <2>1, <2>4 DEF Originally
  <2>7. DOMAIN first' \subseteq Instants \X Lines
    BY <2>1 DEF Originally
  <2> QED BY <1>1, <2>3, <2>5, <2>6, <2>7 DEF Originally
<1>6. CASE OldOpen /\ UNCHANGED <<pc, inserts>>
  <2>1. db' = [db EXCEPT !.ver = 1] /\ pc' = pc /\ first' = first
    BY <1>6 DEF OldOpen
  <2>2. /\ db'.log = db.log /\ db'.seq = db.seq /\ db'.tables = db.tables
        /\ db'.ver = 1 /\ db'.cols = db.cols /\ db'.index = db.index
    BY <2>1
  <2>3. 1 \in 0..SCHEMA_VERSION
    OBVIOUS
  <2>4. db' \in File
    BY <2>1, <2>3
  <2> QED BY <1>1, <2>1, <2>2, <2>4 DEF Shaped, Numbered, Once, Originally
<1>7. ASSUME NEW batch \in Batches, OldEvents(batch), UNCHANGED pc
      PROVE  IInv'
  <2> DEFINE events == Stored(batch)
  <2>1. ASSUME db.index
        PROVE  /\ \A e, f \in events : Key(e) = Key(f) => e = f
               /\ \A e \in events : Key(e) \notin Keys(db.log)
    <3>1. Unseen(events) = events
      BY <1>7, <2>1 DEF OldEvents
    <3>2. \A e \in events : Key(e) \notin Keys(db.log)
      BY <3>1 DEF Unseen
    <3>3. ASSUME NEW e \in events, NEW f \in events, Key(e) = Key(f)
          PROVE  e = f
      <4>1. e \in Originals(events) /\ f \in Originals(events)
        BY <3>1 DEF Unseen
      <4>2. e.id <= f.id /\ f.id <= e.id
        BY <3>3, <4>1 DEF Originals
      <4>3. e.id \in Nat /\ f.id \in Nat
        BY StoredRows DEF Event
      <4>4. e.id = f.id
        BY <4>2, <4>3
      <4> QED BY <4>4, StoredRows
    <3> QED BY <3>2, <3>3
  <2>2. Landing(events)
    BY <1>7 DEF OldEvents
  <2>3. events \in SUBSET Stored(batch)
    OBVIOUS
  <2> HIDE DEF events
  <2> QED BY <1>1, <1>7, <2>1, <2>2, <2>3, LandingKeeps
<1> QED BY <1>2, <1>3, <1>4, <1>5, <1>6, <1>7 DEF Write

LEMMA StepKeeps == IInv /\ [Next]_vars => IInv'
<1> SUFFICES ASSUME IInv, [Next]_vars PROVE IInv'
  OBVIOUS
<1>1. CASE Migrate
  BY <1>1, MigrateKeeps
<1>2. CASE Write
  BY <1>2, WriteKeeps
<1>3. CASE Tick
  <2>1. now' \in Instants
    BY <1>3 DEF Tick, IInv, Originally, Instants, ArchiveAssumption
  <2> QED BY <1>3, <2>1 DEF Tick, IInv, Migrated, Shaped, Numbered, Once, Originally
<1>4. CASE Export \/ Report \/ UNCHANGED vars
  <2>1. UNCHANGED recording
    BY <1>4 DEF Export, Report, vars, recording
  <2> QED BY <2>1 DEF recording, IInv, Migrated, Shaped, Numbered, Once, Originally
<1> QED BY <1>1, <1>2, <1>3, <1>4 DEF Next

LEMMA ArchiveInvariant == Spec => []IInv
BY ArchiveInit, StepKeeps, PTL DEF Spec

-----------------------------------------------------------------------------

\* A stamped version is the file's shape, wherever an open was killed and
\* whichever build stamped it last (init_schema).
THEOREM StampsAreTrue == Spec => []StampIsTrue
<1>1. IInv => StampIsTrue
  BY DEF IInv, StampIsTrue
<1> QED BY <1>1, ArchiveInvariant, PTL

\* Each narration stays as it was first told until its retention is over, and
\* is there once under the index (migrate_event_dedupe, insert_events, prune).
THEOREM NarrationsAreKept == Spec => []NarrationsKept
<1>1. IInv => NarrationsKept
  BY DEF IInv, NarrationsKept, OriginalsSurvive, ToldOnce, Originally
<1> QED BY <1>1, ArchiveInvariant, PTL

-----------------------------------------------------------------------------
(* Types *)

\* A window's start is never past now, however it is asked for.
LEMMA SinceIsPast ==
  ASSUME now \in Instants, NEW spec \in Asked
  PROVE  Since(spec) \in Int /\ Since(spec) <= now
<1>1. now \in Nat /\ Day \in Nat /\ Day > 0
  BY DEF Instants
<1>2. CASE spec = None
  BY <1>1, <1>2 DEF Since, Max0
<1>3. CASE spec # None /\ spec \in Ago
  <2>1. spec.ago \in Nat
    BY <1>3 DEF Ago
  <2> QED BY <1>1, <1>3, <2>1 DEF Since, ParseSpec, Max0
<1>4. CASE spec # None /\ spec \notin Ago
  <2>1. spec.at \in Nat /\ spec.at < Day
    BY <1>4 DEF Clock
  <2>2. now % Day \in Nat /\ now - (now % Day) <= now
    BY <1>1
  <2> DEFINE today == Midnight(now) + spec.at
  <2>3. today \in Int /\ today - Day < now
    BY <1>1, <2>1, <2>2 DEF Midnight
  <2>4. Since(spec) = IF today > now THEN Max0(today - Day) ELSE today
    BY <1>4 DEF Since, ParseSpec
  <2> HIDE DEF today
  <2> QED BY <1>1, <2>3, <2>4 DEF Max0
<1> QED BY <1>2, <1>3, <1>4

\* The first instant of a bucket is its own.
LEMMA BucketOfBucket ==
  ASSUME NEW tier \in Tiers, NEW t \in Nat
  PROVE  Bucket(tier, Bucket(tier, t)) = Bucket(tier, t)
<1>1. Width[tier] \in {1, 2}
  BY DEF Width
<1>2. t - (t % 1) - ((t - (t % 1)) % 1) = t - (t % 1)
  OBVIOUS
<1>3. t - (t % 2) - ((t - (t % 2)) % 2) = t - (t % 2)
  OBVIOUS
<1> QED BY <1>1, <1>2, <1>3 DEF Bucket

TypeRest ==
  /\ inserts \in 0..MaxInserts
  /\ Bucketed(db)
  /\ verdict \in {"none", "done", "failed", "died"}
  /\ exp # None =>
       /\ exp.from <= exp.to
       /\ exp = [pc |-> exp.pc, from |-> exp.from, to |-> exp.to, read |-> exp.read,
                 log |-> exp.log, rows |-> exp.rows]

LEMMA TypeRestInit == Init => TypeRest
BY DEF Init, TypeRest

LEMMA TypeRestStep == IInv /\ TypeRest /\ [Next]_vars => TypeRest'
<1> SUFFICES ASSUME IInv, TypeRest, [Next]_vars PROVE TypeRest'
  OBVIOUS
<1>0. now \in Instants /\ db \in File
  BY DEF IInv, Migrated, Originally
<1>1. CASE Migrate
  <2>1. db'.rows = db.rows
    BY <1>0, <1>1 DEF Migrate, Tables, Created, Dedupe, AddColumn, Stamp, Goes, File
  <2> QED BY <1>1, <2>1 DEF Migrate, export, TypeRest, Bucketed
<1>2. CASE Write
  <2>1. UNCHANGED export
    BY <1>2 DEF Write
  <2>2. inserts' \in 0..MaxInserts
    BY <1>2 DEF Write, InsertEvents, InsertRow, Prune, Inserts, TypeRest
  <2>3. Bucketed(db)'
    <3>1. ASSUME NEW tier \in Tiers, NEW said \in DOMAIN Counts, InsertRow(tier, said)
          PROVE  Bucketed(db)'
      <4>1. db'.rows = Replaced(tier, Reading(said))
        BY <1>0, <3>1 DEF InsertRow, File
      <4>2. now \in Nat
        BY <1>0 DEF Instants
      <4> QED BY <4>1, <4>2, BucketOfBucket DEF Replaced, Bucketed, TypeRest
    <3>2. ASSUME db'.rows \subseteq db.rows
          PROVE  Bucketed(db)'
      BY <3>2 DEF Bucketed, TypeRest
    <3>3. ASSUME NEW batch \in Batches, InsertEvents(batch) \/ OldEvents(batch)
          PROVE  db'.rows = db.rows
      BY <1>0, <3>3 DEF InsertEvents, OldEvents, Landing, File
    <3>4. CASE Open \/ Close \/ OldOpen
      <4>1. db'.rows = db.rows
        BY <1>0, <3>4 DEF Open, Close, OldOpen, File
      <4> QED BY <3>2, <4>1
    <3>5. CASE Prune
      <4>1. db'.rows = {r \in db.rows : r.bucket >= now - Retention[r.tier]}
        BY <1>0, <3>5 DEF Prune, File
      <4> QED BY <3>2, <4>1
    <3>6. ASSUME NEW batch \in Batches, InsertEvents(batch) \/ OldEvents(batch)
          PROVE  Bucketed(db)'
      BY <3>2, <3>3, <3>6
    <3> QED BY <1>2, <3>1, <3>4, <3>5, <3>6 DEF Write
  <2> QED BY <2>1, <2>2, <2>3 DEF export, TypeRest
<1>3. CASE Tick \/ Report \/ UNCHANGED vars
  BY <1>3 DEF Tick, Report, vars, recording, export, TypeRest, Bucketed
<1>4. CASE Export
  <2>1. inserts' = inserts /\ db' = db
    BY <1>4 DEF Export, recording
  <2>2. ASSUME NEW spec \in Asked, ExportStarts(spec)
        PROVE  TypeRest'
    BY <1>0, <2>1, <2>2, SinceIsPast DEF ExportStarts, TypeRest, Bucketed
  <2>3. CASE Removes
    BY <2>1, <2>3 DEF Removes, TypeRest, Bucketed
  <2>4. CASE exp # None /\ (Creates \/ Begins \/ CopiesRows \/ CopiesEvents)
    <3>1. verdict' = verdict
      BY <2>4 DEF Creates, Begins, CopiesRows, CopiesEvents
    <3>2. /\ exp'.from <= exp'.to
          /\ exp' = [pc |-> exp'.pc, from |-> exp'.from, to |-> exp'.to,
                     read |-> exp'.read, log |-> exp'.log, rows |-> exp'.rows]
      BY <2>4 DEF Creates, Begins, CopiesRows, CopiesEvents, TypeRest
    <3> QED BY <2>1, <3>1, <3>2 DEF TypeRest, Bucketed
  <2>5. CASE Commits \/ Fails \/ Dies
    BY <2>1, <2>5 DEF Commits, Fails, Dies, TypeRest, Bucketed
  <2> QED BY <1>4, <2>2, <2>3, <2>4, <2>5 DEF Export
<1> QED BY <1>1, <1>2, <1>3, <1>4 DEF Next

\* The recording, the export and the report stay in their types: ids are never
\* given twice, every row is under its bucket's first instant, and no window
\* ends before it starts, whatever spec is asked (parse_spec).
THEOREM ArchiveTypes == Spec => []TypeOK
<1>1. IInv /\ TypeRest => TypeOK
  BY DEF IInv, Migrated, Originally, TypeRest, TypeOK
<1> QED BY <1>1, ArchiveInvariant, TypeRestInit, TypeRestStep, PTL DEF Spec

-----------------------------------------------------------------------------
(* The export *)

Pairs(rows) == {<<r.tier, r.bucket>> : r \in rows}
Window(file, w) == {r \in file.rows : In(r.bucket, w)}

\* Each step of an export has written what the view it began with holds of its
\* window, and the file shows none of it until the commit.
Copying ==
  /\ verdict = "none"
  /\ exp.pc \in {"create", "meta", "10s", "1m", "events", "commit"}
  /\ exp.pc = "create" => out = None
  /\ exp.pc # "create" =>
       out = [log |-> {}, rows |-> {}, from |-> out.from, to |-> out.to, whole |-> FALSE]
  /\ exp.pc \in {"create", "meta", "10s"} => exp.rows = {}
  /\ exp.pc \notin {"create", "meta"} =>
       exp.read \in File /\ Held(exp.read, exp) \in moments
  /\ exp.pc = "1m" => Pairs(exp.rows) = Pairs(RowsIn(exp.read, "10s", exp))
  /\ exp.pc \in {"events", "commit"} => Pairs(exp.rows) = Pairs(Window(exp.read, exp))
  /\ exp.pc = "commit" => exp.log = Originals(EventsIn(exp.read, exp))

ExportInv == ExportIsOneMoment /\ (exp # None => Copying)

\* The narrations of a window, each as first told, are those that land.
LEMMA HeldTold ==
  ASSUME NEW file \in File, NEW w
  PROVE  /\ Held(file, w).told = Originals(EventsIn(file, w))
         /\ Held(file, w).rows = Pairs(Window(file, w))
<1>1. \A e \in EventsIn(file, w) : e.id \in Nat
  BY DEF File, Event, EventsIn
<1>2. ASSUME NEW e \in EventsIn(file, w)
      PROVE  (~\E f \in EventsIn(file, w) : Key(f) = Key(e) /\ f.id < e.id)
               <=> (\A f \in EventsIn(file, w) : Key(f) = Key(e) => e.id <= f.id)
  BY <1>1
<1>3. Held(file, w).told = Originals(EventsIn(file, w))
  BY <1>2 DEF Held, Content, Originals
<1>4. Held(file, w).rows = Pairs(Window(file, w))
  BY DEF Held, Content, Pairs, Window
<1> QED BY <1>3, <1>4

\* A copied row is in its recorded row's place.
LEMMA CopiedPairs ==
  ASSUME NEW file \in File, NEW tier, NEW w
  PROVE  Pairs({Copied(r) : r \in RowsIn(file, tier, w)}) = Pairs(RowsIn(file, tier, w))
<1>1. ASSUME NEW r \in RowsIn(file, tier, w)
      PROVE  Copied(r).tier = r.tier /\ Copied(r).bucket = r.bucket
  BY DEF Copied, RowsIn, File, Row
<1> QED BY <1>1 DEF Pairs

LEMMA PairsUnion ==
  ASSUME NEW S, NEW T
  PROVE  Pairs(S \union T) = Pairs(S) \union Pairs(T)
BY DEF Pairs

\* A window's rows are those of its tiers.
LEMMA WindowTiers ==
  ASSUME NEW file \in File, NEW w
  PROVE  Window(file, w) = RowsIn(file, "10s", w) \union RowsIn(file, "1m", w)
BY DEF Window, RowsIn, File, Row

LEMMA ExportInit == Init => ExportInv
BY DEF Init, ExportInv, ExportIsOneMoment

\* What is not the export's leaves it as it is; its moments only grow.
LEMMA OthersKeepExport ==
  ExportInv /\ UNCHANGED export /\ moments \subseteq moments' => ExportInv'
BY DEF ExportInv, ExportIsOneMoment, export, Copying

LEMMA ExportStep == IInv /\ TypeRest /\ ExportInv /\ [Next]_vars => ExportInv'
<1> SUFFICES ASSUME IInv, TypeRest, ExportInv, [Next]_vars PROVE ExportInv'
  OBVIOUS
<1>1. db \in File
  BY DEF IInv, Migrated
<1>2. CASE Migrate \/ Write
  <2>1. UNCHANGED export /\ moments \subseteq moments'
    BY <1>2 DEF Migrate, Write, Seen
  <2> QED BY <2>1, OthersKeepExport
<1>3. CASE Tick \/ Report \/ UNCHANGED vars
  <2>1. UNCHANGED export /\ moments \subseteq moments'
    BY <1>3 DEF Tick, Report, vars, export
  <2> QED BY <2>1, OthersKeepExport
<1>4. CASE Export
  <2>1. ASSUME NEW spec \in Asked, ExportStarts(spec)
        PROVE  ExportInv'
    BY <2>1 DEF ExportStarts, ExportInv, ExportIsOneMoment, Copying
  <2>2. CASE exp # None /\ Creates
    BY <2>2 DEF Creates, ExportInv, ExportIsOneMoment, Copying, TypeRest
  <2>3. CASE exp # None /\ Begins
    <3>1. /\ exp'.pc = "10s" /\ exp'.read = db /\ exp'.rows = exp.rows
          /\ exp'.from = exp.from /\ exp'.to = exp.to
          /\ out' = out /\ verdict' = verdict /\ moments' = {Held(db, exp)}
      BY <2>3 DEF Begins, TypeRest
    <3>2. Held(db, exp') = Held(db, exp)
      BY <3>1 DEF Held, EventsIn, In
    <3>3. Copying'
      BY <1>1, <2>3, <3>1, <3>2 DEF Begins, ExportInv, Copying
    <3>4. ExportIsOneMoment'
      BY <2>3, <3>1 DEF Begins, ExportInv, Copying, ExportIsOneMoment
    <3> QED BY <3>3, <3>4 DEF ExportInv
  <2>4. CASE exp # None /\ CopiesRows
    <3> DEFINE copied == {Copied(r) : r \in RowsIn(exp.read, exp.pc, exp)}
    <3>1. /\ exp.pc \in Tiers
          /\ exp'.pc = (IF exp.pc = "10s" THEN "1m" ELSE "events")
          /\ exp'.read = exp.read /\ exp'.rows = exp.rows \union copied
          /\ exp'.from = exp.from /\ exp'.to = exp.to
          /\ out' = out /\ verdict' = verdict /\ moments' = moments
      BY <2>4 DEF CopiesRows, TypeRest, View
    <3>2. /\ Held(exp.read, exp') = Held(exp.read, exp)
          /\ RowsIn(exp.read, "10s", exp') = RowsIn(exp.read, "10s", exp)
          /\ Window(exp.read, exp') = Window(exp.read, exp)
      BY <3>1 DEF Held, EventsIn, In, RowsIn, Window
    <3>3. Copying
      BY <2>4 DEF ExportInv
    <3>4. exp.read \in File
      BY <3>1, <3>3 DEF Copying
    <3>5. Pairs(copied) = Pairs(RowsIn(exp.read, exp.pc, exp))
      BY <3>4, CopiedPairs
    <3>6. Pairs(exp'.rows) = Pairs(exp.rows) \union Pairs(copied)
      BY <3>1, PairsUnion
    <3>7. exp.pc = "10s" => Pairs(exp'.rows) = Pairs(RowsIn(exp.read, "10s", exp))
      BY <3>3, <3>5, <3>6 DEF Copying, Pairs
    <3>8. exp.pc = "1m" => Pairs(exp'.rows) = Pairs(Window(exp.read, exp))
      BY <3>3, <3>4, <3>5, <3>6, WindowTiers, PairsUnion DEF Copying
    <3> HIDE DEF copied
    <3>9. Copying'
      BY <3>1, <3>2, <3>3, <3>7, <3>8 DEF Copying
    <3>10. ExportIsOneMoment'
      BY <3>1 DEF ExportInv, ExportIsOneMoment
    <3> QED BY <3>9, <3>10 DEF ExportInv
  <2>5. CASE exp # None /\ CopiesEvents
    <3>1. /\ exp.pc = "events" /\ exp'.pc = "commit"
          /\ exp'.read = exp.read /\ exp'.rows = exp.rows
          /\ exp'.log = Originals(EventsIn(exp.read, exp))
          /\ exp'.from = exp.from /\ exp'.to = exp.to
          /\ out' = out /\ verdict' = verdict /\ moments' = moments
      BY <2>5 DEF CopiesEvents, TypeRest, View
    <3>2. /\ Held(exp.read, exp') = Held(exp.read, exp)
          /\ EventsIn(exp.read, exp') = EventsIn(exp.read, exp)
          /\ Window(exp.read, exp') = Window(exp.read, exp)
      BY <3>1 DEF Held, EventsIn, In, Window
    <3>3. Copying'
      BY <2>5, <3>1, <3>2 DEF ExportInv, Copying
    <3>4. ExportIsOneMoment'
      BY <3>1 DEF ExportInv, ExportIsOneMoment
    <3> QED BY <3>3, <3>4 DEF ExportInv
  <2>6. CASE exp # None /\ Commits
    <3>1. /\ exp.pc = "commit" /\ exp' = None /\ verdict' = "done" /\ moments' = moments
          /\ out' = [out EXCEPT !.log = exp.log, !.rows = exp.rows, !.whole = TRUE]
      BY <2>6 DEF Commits
    <3>2. Copying
      BY <2>6 DEF ExportInv
    <3>3. out'.log = exp.log /\ out'.rows = exp.rows /\ out'.whole = TRUE
      BY <3>1, <3>2 DEF Copying
    <3>4. exp.read \in File /\ Held(exp.read, exp) \in moments
      BY <3>1, <3>2 DEF Copying
    <3>5. /\ Held(exp.read, exp).told = exp.log
          /\ Held(exp.read, exp).rows = Pairs(exp.rows)
      BY <3>1, <3>2, <3>4, HeldTold DEF Copying
    <3>6. Content(out'.log, out'.rows).rows = Pairs(exp.rows)
      BY <3>3 DEF Content, Pairs
    <3> QED BY <3>1, <3>3, <3>4, <3>5, <3>6 DEF ExportInv, ExportIsOneMoment
  <2>7. CASE exp # None /\ Fails
    BY <2>7 DEF Fails, ExportInv, ExportIsOneMoment
  <2>8. CASE exp # None /\ Dies
    BY <2>8 DEF Dies, ExportInv, ExportIsOneMoment
  <2>9. CASE Removes
    BY <2>9 DEF Removes, ExportInv, ExportIsOneMoment
  <2> QED BY <1>4, <2>1, <2>2, <2>3, <2>4, <2>5, <2>6, <2>7, <2>8, <2>9 DEF Export
<1> QED BY <1>2, <1>3, <1>4 DEF Next

\* A finished export is its window at the moment of its first read, whatever
\* was written, pruned or migrated while it copied; one that died shows none
\* of it, and one that failed is gone (export_to, copy_window).
THEOREM ExportsAreOneMoment == Spec => []ExportIsOneMoment
<1>1. ExportInv => ExportIsOneMoment
  BY DEF ExportInv
<1> QED BY <1>1, ArchiveInvariant, TypeRestInit, TypeRestStep, ExportInit, ExportStep, PTL
       DEF Spec

-----------------------------------------------------------------------------
(* The report *)

\* The recordings a report reads have been through the migrations, or are not
\* there at all.
Modern == \A f \in FirstFiles : f.tables => f.cols = Tiers

\* What stayed in the window is still in it, and each query that found nothing
\* of a kind leaves nothing of the kind to have stayed.
Reporting ==
  /\ rep.pc \in {"events", "any", "any10s", "1m", "10s", "told"}
  /\ rep = [pc |-> rep.pc, from |-> rep.from, to |-> rep.to, held |-> rep.held,
            tier |-> rep.tier]
  /\ rep.pc # "events" => db.tables
  /\ kept.events \subseteq EventsIn(db, rep)
  /\ kept.rows \subseteq Pairs(Window(db, rep))
  /\ rep.pc # "events" /\ "events" \notin rep.held => kept.events = {}
  /\ rep.pc \in {"any10s", "10s"} => \A p \in kept.rows : p[1] # "1m"
  /\ rep.pc \in {"1m", "10s", "told"} /\ "rows" \notin rep.held => kept.rows = {}
  /\ rep.pc = "told" /\ rep.tier = None => kept.rows = {}

ReportInv == (db.tables => db.cols = Tiers) /\ (rep # None => Reporting)

LEMMA KeptIs ==
  ASSUME NEW file, NEW w
  PROVE  Kept(file, w) = [events |-> EventsIn(file, w), rows |-> Pairs(Window(file, w))]
BY DEF Kept, Pairs, Window

\* A tier whose query finds nothing has nothing that stayed.
LEMMA NothingFound ==
  ASSUME db \in File, db.cols = Tiers, NEW tier \in Tiers, Queried(tier) = {},
         kept.rows \subseteq Pairs(Window(db, rep))
  PROVE  \A p \in kept.rows : p[1] \in Tiers /\ p[1] # tier
<1>1. RowsIn(db, tier, rep) = {}
  BY DEF Queried
<1>2. \A r \in Window(db, rep) : r.tier \in Tiers /\ r.tier # tier
  BY <1>1 DEF RowsIn, Window, File, Row
<1> QED BY <1>2 DEF Pairs

LEMMA ReportInit == Init /\ Modern => ReportInv
BY DEF Init, Modern, ReportInv

\* What the writers do to a window only takes from what stayed.
LEMMA SeenKeepsReport ==
  ASSUME Reporting, rep # None, Seen, rep' = rep, db.tables => db'.tables
  PROVE  Reporting'
<1>1. kept' = [events |-> kept.events \intersect EventsIn(db', rep),
               rows |-> kept.rows \intersect Pairs(Window(db', rep))]
  BY KeptIs DEF Seen
<1> QED BY <1>1 DEF Reporting

LEMMA ReportStep == IInv /\ ReportInv /\ [Next]_vars => ReportInv'
<1> SUFFICES ASSUME IInv, ReportInv, [Next]_vars PROVE ReportInv'
  OBVIOUS
<1>1. db \in File /\ (pc # "off" /\ pc # "tables" => db.tables)
  BY DEF IInv, Migrated
<1>2. ASSUME Migrate \/ Write
      PROVE  (db.tables => db'.tables) /\ (db'.tables => db'.cols = Tiers)
  <2>1. CASE Tables \/ Dedupe \/ AddColumn \/ Stamp
    <3>1. CASE Tables
      <4>1. db'.tables /\ db'.cols = (IF db.tables THEN db.cols ELSE Tiers)
        BY <1>1, <3>1 DEF Tables, Created, File
      <4> QED BY <4>1 DEF ReportInv
    <3>2. CASE Dedupe \/ Stamp
      <4>1. db'.tables = db.tables /\ db'.cols = db.cols
        BY <1>1, <3>2 DEF Dedupe, Stamp, File
      <4> QED BY <4>1 DEF ReportInv
    <3>3. CASE AddColumn
      <4>1. pc \in Tiers /\ db'.tables = db.tables /\ db'.cols = db.cols \union {pc}
        BY <1>1, <3>3 DEF AddColumn, Goes, File
      <4> QED BY <4>1 DEF ReportInv
    <3> QED BY <2>1, <3>1, <3>2, <3>3
  <2>2. CASE Open \/ Close \/ Prune \/ OldOpen
    BY <1>1, <2>2 DEF Open, Close, Prune, OldOpen, ReportInv, File
  <2>3. ASSUME NEW batch \in Batches, InsertEvents(batch) \/ OldEvents(batch)
        PROVE  db'.tables = db.tables /\ db'.cols = db.cols
    BY <1>1, <2>3 DEF InsertEvents, OldEvents, Landing, File
  <2>4. ASSUME NEW tier \in Tiers, NEW said \in DOMAIN Counts, InsertRow(tier, said)
        PROVE  db'.tables = db.tables /\ db'.cols = db.cols
    BY <1>1, <2>4 DEF InsertRow, File
  <2> QED BY <1>2, <2>1, <2>2, <2>3, <2>4 DEF Migrate, Write, ReportInv
<1>3. CASE Migrate \/ Write
  <2>1. Seen /\ rep' = rep
    BY <1>3 DEF Migrate, Write
  <2> QED BY <1>2, <1>3, <2>1, SeenKeepsReport DEF ReportInv
<1>4. CASE Tick \/ Export \/ UNCHANGED vars
  BY <1>4 DEF Tick, Export, vars, recording, ReportInv, Reporting
<1>5. CASE Report
  <2>1. db' = db
    BY <1>5 DEF Report, recording
  <2>2. ASSUME NEW since \in Asked, NEW until \in Asked, ReportStarts(since, until)
        PROVE  ReportInv'
    <3>1. /\ rep'.pc = "events" /\ kept' = Kept(db, rep')
          /\ rep' = [pc |-> rep'.pc, from |-> rep'.from, to |-> rep'.to,
                     held |-> rep'.held, tier |-> rep'.tier]
      BY <2>2 DEF ReportStarts
    <3>2. /\ kept'.events = EventsIn(db, rep')
          /\ kept'.rows = Pairs(Window(db, rep'))
      BY <3>1, KeptIs
    <3> QED BY <2>1, <3>1, <3>2 DEF ReportInv, Reporting
  <2>3. CASE rep # None /\ kept' = kept /\ (ReadsEvents \/ ReadsAny \/ Summarizes)
    <3>1. Reporting
      BY <2>3 DEF ReportInv
    <3>2. rep.pc # "events" => db.cols = Tiers
      BY <3>1 DEF ReportInv, Reporting
    <3>3. CASE ReadsEvents
      <4>1. CASE ~db.tables
        BY <2>1, <3>3, <4>1 DEF ReadsEvents, ReportInv
      <4>2. CASE db.tables
        <5>1. /\ rep.pc = "events" /\ rep'.pc = "any"
              /\ rep'.held = (IF EventsIn(db, rep) = {} THEN {} ELSE {"events"})
              /\ rep'.from = rep.from /\ rep'.to = rep.to
              /\ rep' = [pc |-> rep'.pc, from |-> rep'.from, to |-> rep'.to,
                         held |-> rep'.held, tier |-> rep'.tier]
          BY <3>1, <3>3, <4>2 DEF ReadsEvents, Reporting
        <5>2. EventsIn(db, rep') = EventsIn(db, rep) /\ Window(db, rep') = Window(db, rep)
          BY <5>1 DEF EventsIn, Window, In
        <5>3. "events" \notin rep'.held => kept.events = {}
          BY <3>1, <5>1 DEF Reporting
        <5> QED BY <2>1, <2>3, <3>1, <4>2, <5>1, <5>2, <5>3 DEF ReportInv, Reporting
      <4> QED BY <4>1, <4>2
    <3>4. CASE ReadsAny
      <4> DEFINE tier == IF rep.pc = "any" THEN "1m" ELSE "10s"
                 some == Queried(tier) # {}
      <4>1. /\ rep.pc \in {"any", "any10s"}
            /\ rep'.held = rep.held \union (IF some THEN {"rows"} ELSE {})
            /\ rep'.pc = (IF rep.pc = "any" /\ ~some THEN "any10s"
                          ELSE IF rep.held = {} /\ ~some THEN "told" ELSE "1m")
            /\ rep'.from = rep.from /\ rep'.to = rep.to
            /\ rep' = [pc |-> rep'.pc, from |-> rep'.from, to |-> rep'.to,
                       held |-> rep'.held, tier |-> rep'.tier]
        BY <3>1, <3>4 DEF ReadsAny, Reporting
      <4>2. EventsIn(db, rep') = EventsIn(db, rep) /\ Window(db, rep') = Window(db, rep)
        BY <4>1 DEF EventsIn, Window, In
      <4>3. tier \in Tiers /\ db.cols = Tiers /\ kept.rows \subseteq Pairs(Window(db, rep))
        BY <3>1, <3>2, <4>1 DEF Reporting
      <4>4. ~some => \A p \in kept.rows : p[1] \in Tiers /\ p[1] # tier
        <5> HIDE DEF tier
        <5> QED BY <1>1, <4>3, NothingFound
      <4> HIDE DEF some
      <4>5. rep'.pc = "any10s" => \A p \in kept.rows : p[1] # "1m"
        BY <4>1, <4>4
      <4>6. rep'.pc \in {"1m", "told"} /\ ~some => kept.rows = {}
        BY <3>1, <4>1, <4>4 DEF Reporting
      <4>7. rep'.pc = "told" => ~some
        BY <4>1
      <4>8. rep'.pc \in {"any10s", "told", "1m"}
        BY <4>1
      <4>9. "events" \notin rep'.held => kept.events = {}
        BY <3>1, <4>1 DEF Reporting
      <4>10. "rows" \notin rep'.held => ~some
        BY <4>1
      <4> HIDE DEF tier
      <4> QED BY <2>1, <2>3, <3>1, <4>1, <4>2, <4>5, <4>6, <4>7, <4>8, <4>9, <4>10
              DEF ReportInv, Reporting
    <3>5. CASE Summarizes
      <4> DEFINE some == Queried(rep.pc) # {}
      <4>1. /\ rep.pc \in Tiers
            /\ rep'.tier = (IF some THEN rep.pc ELSE None)
            /\ rep'.pc = (IF ~some /\ rep.pc = "1m" THEN "10s" ELSE "told")
            /\ rep'.held = rep.held /\ rep'.from = rep.from /\ rep'.to = rep.to
            /\ rep' = [pc |-> rep'.pc, from |-> rep'.from, to |-> rep'.to,
                       held |-> rep'.held, tier |-> rep'.tier]
        BY <3>1, <3>5 DEF Summarizes, Asks, Reporting
      <4>2. EventsIn(db, rep') = EventsIn(db, rep) /\ Window(db, rep') = Window(db, rep)
        BY <4>1 DEF EventsIn, Window, In
      <4>3. db.cols = Tiers /\ kept.rows \subseteq Pairs(Window(db, rep))
        BY <3>1, <3>2, <4>1 DEF Reporting
      <4>4. ~some => \A p \in kept.rows : p[1] \in Tiers /\ p[1] # rep.pc
        BY <1>1, <4>1, <4>3, NothingFound
      <4> HIDE DEF some
      <4>5. rep'.pc = "10s" => \A p \in kept.rows : p[1] # "1m"
        BY <4>1, <4>4
      <4>6. rep'.pc = "told" /\ rep'.tier = None => kept.rows = {}
        <5>1. CASE some
          BY <4>1, <5>1
        <5>2. CASE ~some
          BY <3>1, <4>1, <4>4, <5>2 DEF Reporting
        <5> QED BY <5>1, <5>2
      <4>7. /\ rep'.pc \in {"10s", "told"}
            /\ "rows" \notin rep'.held => kept.rows = {}
            /\ "events" \notin rep'.held => kept.events = {}
        BY <3>1, <4>1 DEF Reporting
      <4> QED BY <2>1, <2>3, <3>1, <4>1, <4>2, <4>5, <4>6, <4>7 DEF ReportInv, Reporting
    <3> QED BY <2>3, <3>3, <3>4, <3>5
  <2> QED BY <1>5, <2>2, <2>3 DEF Report
<1> QED BY <1>2, <1>3, <1>4, <1>5 DEF Next

\* Of a recording that has been through the migrations, a report never says
\* that there was nothing when something was in its window all the while it
\* read (build_report). One of before them lacks the columns its queries name,
\* and a query that fails reads as none.
THEOREM ReportsTellWhatStays ==
  ASSUME Modern
  PROVE  Spec => []ReportTellsWhatStays
<1>1. ReportInv => ReportTellsWhatStays
  BY DEF ReportInv, Reporting, ReportTellsWhatStays
<1>2. Init => ReportInv
  BY ReportInit
<1> QED BY <1>1, <1>2, ArchiveInvariant, ReportStep, PTL DEF Spec
=============================================================================
