# gpuviewer in TLA+

gpuviewer is a GPU monitor that calls itself a flight recorder: it samples every GPU of a host, keeps a
replayable history in SQLite, and tells a story of facts and inferences about what it saw. Its promise is
honesty: a hole in the recording is narrated as a hole, a fact is told only if it was observed. This
directory holds TLA+ models of the parts that keep that promise, the TLC runs that check them, and TLAPS
proofs of their main results.

## The system

| part | source (under `src/crates`) | state | operations |
|---|---|---|---|
| backends | `core/src/{nvidia,amd,intel,apple,wddm,mock}.rs`, `proc_meta.rs` | counters and watermarks for rates, CPU baselines, PDH snapshot | `discover`, `refresh_dynamic`, `refresh_processes` |
| registry, model | `core/src/{backend,model,lib}.rs` | none | which backends exist, one entry per PCI device |
| story engine | `core/src/events.rs` | `DevState` per device: last sample and process list, throttle, idle gap, hang, spillover windows, VRAM trend | `observe` |
| engine | `tui/src/collector.rs` (`Engine`) | probe health, pending session events, panic count, last tick's end | `with_backends`, `tick`, `tick_guarded`, `finish` |
| cadence | `tui/src/collector.rs` (`Backoff`) | idle streak, last good samples | `observe`, `skip` |
| collector | `tui/src/collector.rs` (`Collector`, `Shared`) | the thread, `Shared` behind a mutex, stop and pause flags | `start`, `shutdown` |
| event hook | `tui/src/collector.rs` (`EventSink`) | children, rolling window of spawns | `fire`, `reap` |
| recorder | `history/src/lib.rs` (`Recorder`) | accumulating buckets per device and tier, write streak, pending edge | `observe`, `record_events`, `flush`, `take_write_transition` |
| memory rings | `history/src/lib.rs` (`HistoryStore`) | bounded deques | `push_sample`, `push_events` |
| store | `history/src/store.rs` (`SqliteStore`) | database, instance lock | `open`, `open_recording`, inserts, `prune`, reads, `copy_window` |
| application | `tui/src/{app,ui}.rs` | selection, replay cursor, cached timeline window | `on_key`, drawing |
| command line | `tui/src/main.rs` | none | TUI, `--json` stream, report, demo, export, view |

**How they interact.** The UI thread and the collection thread share `Shared` (mutex) and three atomics. A
tick probes the devices in turn, hands each answer to the story engine and the recorder, takes the
recorder's write edge, persists the tick's events, fires the hook, and returns a frame that the loop folds
into `Shared`; then it sleeps what `Backoff` asks for. Several processes share one database through a kernel
lock on a sidecar file. The UI reads the database while the thread writes it.

**What is hard in it.**

* A panic inside a tick is caught, but the tick has already changed state: probe health, taken pending events.
* Three places say whether a device is lost: the engine, `Shared`, and the database.
* The loop's own sleep, a pause, and a blocked probe all look like time between ticks.
* A write may fail at any of a crossing's four writes; the outcome reaches the user as at most one edge per tick.
* The wall clock, which names buckets and orders session marks, may be stepped.
* A process may be killed between any two steps of opening or recording; another waits for its lock.
* A process list that could not be read is not an empty list, and the story engine must forget exactly what
  rested on it.
* A screen is built of several queries, a clock and a counter that the collection moves between them; a report
  and an export read a file that is written meanwhile.
* A migration may be killed between two statements, or run beside a build that knows no lock.
* Counters reset, wrap and outlive the process they were read from; three backends list the same board.

**What makes each part correct**, in one line each: the *cadence* never lets a failing device be polled
slowly and never takes its own sleep for a stall; the *recorder* stores whole buckets, each frame once, and
counts each failed write once, and its *rows* say of their frames what they were; the *collector* agrees with
its UI and its disk about every device, never dies in silence, and a clean quit is on disk; *sessions* have
one writer, never mix real with simulated rows, keep history, and report crashes truthfully; the *story*
replays to what was observed, and its inferences rest on unbroken observation; the *console* paints what was
recorded, catches up by itself, and keeps the user where the user looks; an *archive* is never stamped with a
shape it lacks, keeps the first telling of each event, and is exported as it was at one moment; a *backend*
shows no rate of what did not happen, no throttling nobody saw, and each board once.

## Modules

Modules marked with a star hold proofs.

| module | models | state and actions ↔ code |
|---|---|---|
| `Cadence` / `MCCadence` / `LoopProofs`* | `Backoff`, stall detection, the loop around them | a step is one pass of the loop in `Collector::start`: `CleanTick`, `PanickedTick`, `PausedPass`; `sinceEnd` is `now - last_tick_end` at the next pass |
| `WriteEdges` | `note_write`, `take_write_transition` | the record `w` of `Recorder`: `failing`, `fails_in_streak`, `pending` and its count; pure operators |
| `Recorder` / `MCRecorder` / `MCRecorderSettings` / `RecorderProofs`* | `Recorder` over the store's rollup tables, with sessions | `Observe` is `Recorder::observe` for one device (two tiers, process batch, prune), `EndTick` the end of `Engine::tick`, `Finish` is `Engine::finish`, `Crash` and `Start` bound sessions, `Clock` moves the wall clock |
| `Rollup` | `Agg`, `SampleAccum`, `ProcAccum`: what is in a row | `Observe` folds one frame into both tiers and the process bucket, `Flush` writes the partial ones |
| `Collector` / `CollectorProofs`* | collection thread beside UI thread | `BeginTick`, one `Answer` or `Fail` per device, `Panic`, `EndTick` (persist), `FoldFrame`/`FoldPanic` (under the lock), `Wake`, `StopSeen`, `Mark`, `Flush`; UI: `TogglePause`, `Quit`, `Join`, `GiveUp` |
| `LossLog` | abstract: what the collection promises of a lost device | `last` edge and `shown` marker per device; `Collector` implements it |
| `Sessions` / `MCSessions` / `MCSessionsSettings` / `SessionsProofs`* | invocations over one database file | one action per step of `SqliteStore::open` (`Lock`, `Guard`, `InitDb`, `Quarantine`, `Reinit`), `Claim`, then `MarkStart`, `Tick`, `Stop`; `Kill` anywhere, `Damage`, `Disk`, `Clock` |
| `Archive` / `MCArchive` / `ArchiveProofs`* | one recording file through its life | `init_schema` and its migrations statement by statement, the inserts and `prune`, an older build without locks, `export_to`/`copy_window` and `run_report` query by query |
| `Story` / `MCStorySettings` / `StoryProofs`* | `EventEngine::observe` on one device | `Observe` runs the six derivations in the code's order, `ObserveBlind` is `processes: None`, `Missed` a tick without a sample |
| `Strips` | what `ui.rs` paints of a window | pure operators: columns of a strip, event lane, chart segments, whether a bucket throttled |
| `Console` / `MCConsole` / `ConsoleProofs`* | `app.rs`: the loop of draw, poll and key beside the thread, and `view` | `ReadSeq`, `ReadRows`, `ReadWindow`, `ReadReplay` are the queries of `timeline_refresh` and `seek`, `Draw` and `Idle` the loop, `handle_key` one disjunct per key; `Thread` is the collection, which persists, as far as the writes succeed, and then folds its frame |
| `Stream` | `run_json`, `tick_guarded`, `finish`, `EventSink` | a tick, its lines one by one, the consumer's hang-up, the stop mark; hooks under their rolling cap |
| `Registry` | `all_backends`, the backends' ids, `with_backends` | `InitNvidia`, `InitDrm`, `InitWddm`, `InitApple`, `FallBackToMock`, then `Register` per id |
| `Probes` | `refresh_processes` of NVIDIA, AMD and Intel, Intel's power, `CpuTracker` | a refresh of one device is one action, which may be refused any of the files it reads; between them clients open (afresh, or passed on with a past), close and work, counters reset, pids change hands, the wall clock is set back |
| `Throttle` | decoding of throttle state in three backends | NVML's mask and `gpu_metrics` in one read, Intel's files one by one while the driver moves on |
| `Pdh` | `SharedPdh` and the process list joined from it | `Reuse` serves the cache, `Collect` collects and expands again; instances `Churn`, collections fail, paths are not added, items or arrays not read, the clock is set back |
| `Figures` | `device_util`, `engtype_util`, `per_pid_*`, `adapter_bytes`, the NVML join | `RefreshWddm`, `RefreshNvidia` on any snapshot |
| `Soc` | the maths of Apple's raw counters | `Read` is one sample of an interval |
| `Mock` | `TrainSim`, `DesktopSim` | `Step` is one tick of both |
| `Demo` | `run_demo`, `seed_demo` | probe, drop, two deletions, the seeder's open, its ticks, the live session; others come in between, any is killed |
| `MCEngine` / `LoopProofs`*, `BackendProofs`* | the small parts above, one per behaviour | instantiates `Cadence`, `Stream`, `Registry`, `Probes`, `Throttle`, `Pdh`, `Figures`, `Soc`, `Mock`, `Rollup`, `Demo` |

`Recorder` uses `WriteEdges` and `Console` uses `Strips` by `EXTENDS`. `Cadence`, `Collector` and `Recorder`
are three views of one tick: how long it takes, who sees what of it, and what of it reaches disk; `Console`
takes the fourth, what the user sees of it. Each takes from the others only their visible outcome, so that
none of them multiplies the others' states. The `...Settings` modules and `MCArchive` choose in `Init` which
faults or actors a behaviour has, so that the product of all need not be explored.

**Refinement.** `LossLog` says what the collection promises of a device that stops answering: a log that
alternates losses and returns, and a marker on screen that follows it. `Collector` implements it under the
mapping of `last` to the edges on disk and `shown` to the UI's marker (property `KeepsLossLog`; proved as
`CollectorKeepsLossLog`).

**Abstractions.** A sample is the record of what the component tells apart (utilization below or above the
idle threshold, two levels of memory and clock further apart than the jitter). In `Recorder` a row is the set
of frames it aggregates (the code keeps their number), in `Console` its frame count and throttle counters; what
else is in it follows the same fold, which is `Rollup`'s subject. Time is milliseconds in `Cadence`, 10-second buckets in `Recorder`, seconds in `Console`, instants in
`Sessions` and `Archive`, ticks in `Story` and `Mock`. A database is what the module reads and writes of it.
Definitions described as mutants are mutated forms of another: they stand for a plausible slip, and the run of
a property must fail with them.

What single modules leave out:

* `Console`: pause, the store handle's lifetime, failed queries; the cached fields of a view are forgotten when
  it is left; `MaxCursor` bounds scrubbing into the future. The clock only runs, so the log is in time order and
  a window's events (`ORDER BY ts_ms, id`) are a stretch of it. Each of a tick's writes may fail (`held` keeps
  which events were stored), but a 10s row and its process batch do so together, and a prune that fails is one
  that was not due.
* `Probes`: the cap of a rate at 100 % (a lesser claim is as true). A baseline does not account for a client that
  could not be read for it or that came with a past: `known`, a history variable, says which it does, and the
  amount of a rate is judged only when it is measured from one of those ("The backends" below).
* `Pdh`: what could not be added to an expanded stream (`blind`) or read of a collection (`skipped`) is absent from
  the list, as it is in the code; the promise is of the other instances.
* `Archive`: one device; process rows, which are pruned and copied as 10s rows are. Fresh ids of an export
  compare as the source's did.
* `Stream`, `Collector`: ticks panic while they probe, before their events are recorded (after that a tick fires
  hooks, whose failures it swallows, and returns its frame). `Stream` leaves out the TUI's own path.
* `Throttle`: a cause of Intel may rest on a reason file that still says 1 while the status is 1 for another.
* `Registry`: the PCI domain is 0 on Windows, as NVML prints it there.
* `Figures`: both refreshes of a frame read one snapshot; the busy times of one engine add up to at most 100 %.
* `Soc`: its readings feed a tier that is a stub in this build.
* `Demo`: deletion is POSIX's (a deleted file stays with whoever has it open); disk failures and the reading of
  the seeded range are left out.

## Runs

Passing runs:

| run | shows | bounds |
|---|---|---|
| `Engine_parts` | eleven small parts, one per behaviour (below) | below |
| `Recorder_disk` | `RowsAreTheFrames`: each frame once, rows whole and complete while the clock runs; `EdgesAreHonest`: the pending edge is current and counts each lost write once; `RunningPruneKeeps`; `RowWrittenOnce` | 1 device, 4 buckets of 10 s, 2 to a minute; 3 ticks; setting *disk*: any subset of writes fails; setting *clock*: any clock steps, 2 sessions, a crash between |
| `Collector_threads` | `LossAgreed`: UI, engine and disk agree on losses; `KeepsLossLog`; `LossReachesUI`; `EndIsStated`: no death in silence, clean quits recorded; `QuitReturns` | 2 devices, 2 failed probes, the code's 3 panics, probes that hang |
| `Sessions_shared` | `OneOwner`: one writer, one source; `NewerUntouched`; `SharedVerdicts`: only damage is quarantined, no false crash; `SharedHistoryKept` | 2 invocations at once, 4 runs, any first file; in a second setting the disk fills and drains at any step, 2 runs |
| `Story_lists` | `FactsFollowState`: attach, exit and throttle facts replay to the last observation; `InferencesHold`: they rest on unbroken lists; `TrendIsOneClimb`; `GapsAreTroughs` | 2 processes and 5 ticks with lists unobserved; 1 device, 6 ticks with samples missing; one process' troughs, 8 ticks |
| `Console_ui` | `PaintsTheRecording`: what is on screen is what was recorded around the cursor, each moment once; `WindowIsCurrent`; `LookingIsHeld`: refreshes leave cursor and selection where they were put, Enter finds what is highlighted if it was stored, Esc does what the footer said; `OverviewCatchesUp` | every key; a live session of 3 ticks over a fresh, a resumed and an unreadable store, three recording files; a minute of two 10s buckets, 3 columns, 2 story rows; each tick fails no write, its events', its 10s row's or all |
| `Archive_file` | `StampIsTrue`, `NarrationsKept`, `ExportIsOneMoment`, `ReportTellsWhatStays` | files of versions 0 to 3, two narrations, 4 instants; migrations beside an older build, exports and reports beside the present one |

`Engine_parts`, by setting:

| setting | property | bounds |
|---|---|---|
| cadence | `RateIsKept`, `StallNeverFromOwnSleep` | 2 devices at 6 s, where both the 10 s cap and the threshold of three intervals bind; streak of 3 |
| stream | `SessionIsToldOnce`: recording, hook and stream tell one story, no rolling minute has more hooks than the cap | 4 ticks, cap 2 per window of 2, fatal at 2 panics |
| registry | `EachBoardOnce` | six boards of four vendors, in any order a source lists them, three systems, any `static_info` fails |
| counters, energy | `RatesAreReal`: a rate claims what happened on that device since the reading it is measured from | one device and pid, two descriptors, each readable or not at each refresh, counters to 2 from any start, each dialect |
| throttle | `ReadingsAreTrue` (with the next): a reading is of a moment while it was taken; a word never written is no observation | two limits at once, five revisions |
| pdh | an entry that left is gone, one that stayed and could be added and read is there, within cache and re-expansion | one instance (instances are independent), 5 instants, reuse 1, re-expansion 2 |
| figures | `FiguresAreTrue` (with the next two): figures of a snapshot agree and are of one adapter | two adapters printed in opposite orders and one unreadable name, two processes, two readings |
| soc | a sample says what the chip did, in whatever units it encodes it | three clocks in three units, up to three states |
| rollup | extremes, counters and processes of a row are those of its frames, absent is not zero, and a minute is the sum of its ten seconds | two ticks to a ten, two tens to a minute, 5 ticks, four frames |
| mock, demo | `DemoHolds`: the script comes round as written; only the probe-to-lock gap, which the code accepts, takes a file from under its writer | 20 ticks of constants scaled to 2 to 6; two demos, a `--mock --db` session, one kill, a seed of one tick |

The bounds are small because each hazard needs few actors: two devices for one to fail beside another, two
invocations to race, two processes for one to anchor while the other leaves, a 1m bucket of two 10s buckets
for the tiers to disagree, an idle streak of 3 instead of 60, a loss after 2 failed probes instead of 5. A
device's rows depend on no other device but through the prune, whose cutoff the clock alone moves, so one is
enough for the disk. Thresholds that the properties are about keep the code's values (5 s floor, x5, 10 s cap,
3 panics, all of `events.rs`' percentages and sizes); only durations of `Story`, `Stream`, `Pdh` and `Mock`
are scaled. Deadlock is checked in `Cadence_default_interval`; elsewhere behaviours end (a process exits, a
clock or another bound is reached), so `CHECK_DEADLOCK FALSE`.

**Fairness** is assumed in `Collector` and `Console`. In `Collector`: weak fairness of what the thread does
between two probes (`Loop`) and of the UI's bounded wait (`Shutdown`), since both threads are scheduled by the
OS and the wait has a deadline. No probe is assumed to return: quitting is shown to return all the same, and
that a loss reaches the UI is stated of behaviours in which no tick hangs for ever (`[]<>(pc # "probe")`). In
`Console`: weak fairness of `Loop`, the draws, queries and timed-out polls of the UI's loop, which returns from
`poll` by itself; no key is assumed to be pressed.

**A panicked tick** loses the events it had derived: the history variable `dropped` of `Collector` names the
devices whose last edge went that way, and the loss properties are about every other device. They become
exact again with the device's next edge.

Runs that refute a claim of the code's comments (each is a finding in `PROJECT.json`):

| run | claim | what happens instead |
|---|---|---|
| `Cadence_default_interval` | a gap past the threshold means a blocked probe | at 1 s the stretched sleep is 5 s, exactly the threshold, so each pass's overhead makes an idle GPU read as one |
| `Recorder_restart` | the last window is not lost | a restart within the bucket replaces its row |
| `Sessions_preflight_reset` | a reset is narrated | the `--db` preflight quarantines and drops the verdict |
| `Probes_shared_baselines` | later sightings of a process return its CPU rate | on two devices of one backend each refresh prunes the other's baselines, so none ever does |
| `Archive_throttle_columns` | an observed all-clear survives an export | the throttle columns are copied by position into a table that has them in another order |

### Other divergences met while modelling

Each is a behaviour of the code; none has a run of its own. The first group appears when a passing run's
constants are changed as said.

* `NeverFasterThanConfigured` fails at an interval of 15000: above 10 s the cap polls an idle GPU faster than
  configured (`collector.rs:1241`).
* `RowsAreWholeBuckets` and `RowsComplete` fail with `ClockMayStep`: after a backward step, frames of earlier
  buckets are folded into the open one (`history/src/lib.rs:397`); one frame stamped far in the future moves
  the retention cutoff for good (`lib.rs:386`).
* `OnlyDamagedQuarantined` and `HistoryKept` fail with `DiskMayFill`: an open that a full disk fails
  quarantines a healthy file, and a second one in the same second renames the next file over it
  (`store.rs:403`, `store.rs:613`).
* `NoFalseCrash` fails with `ClockMayStep`: a clock stepped back inside a session reads as its crash
  (`collector.rs:519`).
* `OncePerTrough` (within 9 ticks) and `ActivityIsSustained` fail with `MayBlind`: a tick without a process
  list drops the gap, but neither `idle_eligible` nor the activity clock (`events.rs:275`, against line 150).

The collection:

* A tick that a probe blocks is not narrated: `last_tick_end` is set after it (`collector.rs:772`), while a
  long pause is narrated as a blocked probe, since a paused pass leaves it alone (`collector.rs:1502`).
* An empty event batch is `Ok` without touching the disk and counts as a recovery (`lib.rs:471`); a new
  degradation replaces a recovery nobody took yet, and its count (`lib.rs:354`).
* The stop mark is written before the tail it says was flushed, and a stop mark that a full disk refuses makes
  the next session report a crash (`collector.rs:925`).
* A panicked tick loses a loss, a return or the pending reset for good (`collector.rs:637`, `670`, `688`,
  `818`); so does a first tick with its `HistoryReset` and start line.
* `session_start_ms` is read before the lock is won, so overlapping invocations can hide a crash
  (`collector.rs:451`, `519`).
* `EventSink.children` grows while hooks do not end (`collector.rs:1082`).
* If every device of an initialised backend fails `static_info`, no device is shown and no mock takes over
  (`backend.rs:55`).

The story:

* A throttle first visible after an unobservable sample is told as starting (`events.rs:323`).
* A hang asks for its anchor's pid and for any quiet holder, not for a quiet anchor (`events.rs:569`); ticks
  without a sample count towards it (`events.rs:579`). The evidence of an idle gap says its holder held its
  memory "for the whole gap", but only the pid is checked (`events.rs:455`).
* A backward clock step makes `saturating_sub` zero in every duration (`events.rs:465`).
* Failed NVML list queries become an empty list (`nvidia.rs:574`), as an adapter absent from a PDH snapshot
  does, so the story tells exits nobody saw (against `events.rs:239` and `collector.rs:655`).

The console and its queries:

* `timeline_refresh` clamps a cursor between bounds that are in the wrong order when the clock is behind the
  earliest bucket, which panics (`app.rs:593`); `now` is read before `tick_seq`.
* "The newest key across tiers is always a 10s key" is false of an export older than the 10s retention.
* Enter in replay goes to an event's time and selects the first event of that tick (`app.rs:425`); Enter in
  the live view maps the highlighted line onto the feed of that moment.
* An event whose write failed is in the live feed alone, by design (`collector.rs:752`, `lib.rs:470`). Enter on it
  opens the replay around its time all the same, and finds nothing of it there.

The archive:

* Two exports to one path at once: the loser's cleanup removes the winner's file (`store.rs:1105`). A crash in
  an export leaves a file that blocks the retry.
* An export of a file from before version 3 always fails, for want of a column, against `store.rs:1182`;
  `report` on one says there is no history and `view` shows none. An export's `meta` keeps the source's version.
* The report's "mem max" is the maximum of means (`main.rs:741`), it reads 1m rows whenever there are any, so the
  newest minute is missing, and its mean of means is unweighted.

The backends:

* A baseline younger than a millisecond: a pid on two devices gets a rate over the time between two refreshes.
* A pid twice in one NVML list is `Both` (`nvidia.rs:613`). A PDH cache is frozen while the clock is behind it
  (`wddm.rs:543`); its doc says `None` means PDH never opened, but other failures return it (`wddm.rs:583`).
  Each re-expansion adds rate counters that need two collections, so a tick has no utilization.
* A clock step between two refreshes distorts the rates of fdinfo, never to more than what happened.
* A pid's baseline is of the clients that could be read then. If a busier one could not (`amd.rs:851`,
  `intel.rs:722` skip each file by itself), or is handed over later with what it has counted, the next rate is
  the difference of two clients' counters: busy time from before the baseline (capped at 100 %).
  `EngineRateIsReal` without `Accounted` fails in both ways.
* Windows: a process of which the memory counter is not added (`wddm.rs:674`) or not read (`wddm.rs:690`) is missing
  from a fresh list, unless the engine stream has it, however long it has been there; the story tells its exit.
* Intel: a reason file that still says 1 beside another live limit is named as a cause.
* Apple: an interval without ticks has no utilization ("a blind spot") but a clock of 0 ("a measurement, not
  absence"; `apple.rs:297`); a clock of exactly 10 000 MHz reads as 10 in MHz and in kHz (`apple.rs:325`).

The demo and the mock:

* `seed_demo` ignores failed writes: on a full disk it says it seeded eight hours (`main.rs:973`). A seeded
  file has no start mark, though it is "indistinguishable from a recording that ran all morning".
* A demo that loses the race after its probe has deleted the file before it says so.
* The mock's gaps of 8 or 9 ticks are below `IDLE_GAP_MIN_MS` and are not narrated.

## Proofs

All theorems hold for every value of the constants that the named `...Assumption` of the module allows;
further hypotheses are in the statement. `TLAPS` checks every leaf; nothing is taken on trust. There is a
theorem for every safety property the passing runs check; only liveness is left to TLC. The proofs about
`MCEngine` fill two modules: `BackendProofs` extends `LoopProofs`.

| theorem | property | argument |
|---|---|---|
| `LoopProofs!TypeCorrect` | `TypeOK` | inductive with the panic budget: a loop that runs has panics below it |
| `FailedProbeIsWatched`, `BackoffOnlyLengthens`, `RateKept` | `RateIsKept` and its parts | a failing reading is not idle, so the streak is 0; a panic skips; the rest from the type, if the interval is at most the cap (15 s shows why) |
| `StallIsNotOwnSleep` | `StallNeverFromOwnSleep` | if sleep and overhead fit the threshold: `QuietGapBounded`, an uninterrupted age is at most sleep plus overhead (`Cadence_default_interval` shows why) |
| `RecorderProofs!EdgeIsCurrent`, `LostNeverOvercounted`, `EdgesToldHonestly` | `EdgesAreHonest` and its parts | `EdgeIInv` joins the edge and its count; a lemma carries it over one noted write, and each action is a chain of these |
| `RowsWrittenOnce` | `RowWrittenOnce` | `RowInv`: keys a session wrote lie strictly before its open bucket |
| `RecorderTypes` | `TypeOK` | `RowInv`, `EdgeIInv` and `RestInv`: flushes since a prune stay below its period |
| `RunningClockKeepsRetention` | `RunningPruneKeeps` | `PruneInv`: no frame is later than the clock, so the cutoff is not either; a bucket that accumulates holds a frame, so no flush empties a row (`ClockMayStep` shows why the clock must run) |
| `FramesCountedOnce`, `RowsTellEveryFrame` | `RowsAreTheFrames` | `CountInv`, under any clock: the frame observed next is one no row has (`FramesArePast`), and a crossing hands the accumulator's frames to one row. `DiskInv`, under a clock that runs: what accumulates is all the frames of its bucket, none is of a later one (`Accumulates`), and rows are of earlier ones; `BucketsRun`, buckets do not go back, and `KeptShrinks`, nor does retention, are the arithmetic |
| `CollectorProofs!NeverDeadInSilence`, `CleanQuitIsRecorded`, `EndsAreStated` | `EndIsStated` and its parts | `EndInv`: what is on disk at each program counter of the thread |
| `LossMarkersAgree` | `LossAgreed` | `LossInv` states per device what the tick in progress owes the marker and the disk, and what a panicked one still owes (`dropped`) |
| `CollectorKeepsLossLog` | `KeepsLossLog` | the refinement: initial states map to the log's, and under `LossInv` each step maps to a step of `LossLog` or a stutter |
| `CollectorTypes` | `TypeOK` | with `Budget`: a loop that probes has panics left, and the fatal panic ends it |
| `SessionsProofs!OneWriter`, `NeverMixed`, `OwnedByOne`, `NewerFilesSurvive` | `OneOwner` and its parts, `NewerUntouched` | `SessionInv`: who is inside holds the lock, what each step has established of the file, and a claimed stamp equals the claimant's source |
| `SessionTypes` | `TypeOK` | `RestInv`: the lock is free or with somebody inside |
| `HistorySurvives` | `SharedHistoryKept` | `AsideInv`: only the file found at first is ever damaged, and until it is moved nothing is aside that a rename could replace |
| `VerdictsAreRight` | `SharedVerdicts` | `VerdictInv`: no start mark is later than now, an open session has its invocation, and only a file whose session died has a dangling mark. Assumes `HonestFiles` (the first file's marks say so too) and a clock that runs |
| `StoryProofs!EndsHaveStarts`, `RosterIsTold`, `FactsAreTrue` | `FactsFollowState` and its parts | a small invariant per derivation |
| `InferencesRestOnLists`, `SpilloversOfArrivals`, `InferencesAreSound` | `InferencesHold` and its parts | holders are ordered against `present`, which only moves at a gap in observation |
| `TrendsAreOneClimb` | `TrendIsOneClimb` | `TrendInv`: later entries of the window are later and none is a sharp drop from the one before; lemmas say what dropping old entries, a break and a new sample keep of that |
| `StoryTypes` | `TypeOK` | `TypeInv`: a spillover window has counted no more ticks than it has lived |
| `GapsTellTroughs` | `GapsAreTroughs` | `TroughInv`: a trough whose hang was told stays muted until the device works again, and the clock of activity runs no longer than the work |
| `ArchiveProofs!StampsAreTrue`, `NarrationsAreKept` | `StampIsTrue`, `NarrationsKept` | `IInv`: what each statement of a migration has established (`Migrated`), the shape of the version (`Shaped`), ids below the sequence (`Numbered`), one narration per key with the index (`Once`), and who told it first (`Originally`) |
| `ArchiveTypes` | `TypeOK` | `TypeRest` beside `IInv` |
| `ExportsAreOneMoment` | `ExportIsOneMoment` | `ExportInv`: each statement has copied what the view of the first read holds of its table, and the file shows none of it until the commit |
| `ReportsTellWhatStays` | `ReportTellsWhatStays` | `ReportInv`: what stayed is still in the window, so a query that found nothing of a kind leaves none to have stayed. Assumes `Modern`: a recording from before the throttle columns fails the report's queries, and a failed query reads as none (see "The archive" above) |
| `BackendProofs!RatesAreNeverMadeUp` | `RatesAreReal` | `ProbeInv`: a baseline belongs to the present stay of its pid, the clients it accounts for are open, and none of their counters has run ahead of it by more than the work done since; the fold over the readable clients is only used through the one it stands for |
| `BoardsAreListedOnce` | `EachBoardOnce` | `RegistryInv`: the addresses seen are exactly the registered devices', no two devices share one, what was skipped or answered is registered; for any finite set of boards with distinct addresses, in any order |
| `ReadingsAlwaysTrue` | `ReadingsAreTrue` | `ThrottleInv`: what is asserted was seen by the reading in progress, and a cause it told has a bit that was asserted or latched; Windows: `PdhInv`, an instance the memory stream has no handle of, but for one that failed to be added, came after the expansion, and what a serving cache lacks came after the one before or is `Missed` |
| `SessionsAreToldOnce` | `SessionIsToldOnce` | `SinkInv`: the rolling window is a suffix of all spawns that holds the last minute; `StreamInv`: no line is made again by a tick to come (`ToldOnce`), stream and recording hold the same events (`Agreed`), the stop mark is last (`StopsOnce`) |
| `DemoAlwaysHolds` | `DemoHolds` | `MockInv`: gaps, stays and what is shown follow the script's counters; `DemoInv`: who holds the lock while a demo is in its gap came in the gap, and so did the writers of a file it finds |
| `FiguresAlwaysTrue` | `FiguresAreTrue` | three parts. `RollupInv`: the accumulators tell exactly the frames of the open bucket and its minute, rows those of theirs, and the open ones lie after all of disk. `FiguresInv`: a snapshot has one reading per instance and at most `Full` per engine, so joined figures are bounded by and agree with the adapter's. `SocInv`: a share is active of total, a mean clock lies between the least and greatest of the states that ran, a power is the counter's energy in its unit |
| `TypesAlwaysOK` | `TypesOK` | the invariants above, and per part what they leave open (`SidesTyped`, `MemoryTyped`, `ThrottleTyped`, `PdhTyped`, `RegistryTyped`, `ProbeTyped`, `LoopTyped`); the rolling window of the sink is a tail of what was spawned (`TailIsSuffix`) |
| `ConsoleProofs!ConsoleTypes` | `TypeOK` | `ConsoleInv`, which has two halves. `ThreadInv`: the log is in time order, nothing on disk is later than a live clock or of a tick past the next, an event in memory or under way is on disk if it was stored, and a row's counters tell its readings. `UiInv`: where a query under way came from and what it has read (`RefreshInv`), what the two cached windows hold (`OverviewInv`, `ReplayInv`), and what was drawn (`ScreenInv`) |
| `WindowStaysCurrent` | `WindowIsCurrent` | rows are read after the tick's number, so those of a tick up to it are in the window; a tick that lands later is above the number. The panes by the arithmetic of `Skip`; the file's end by `EndIs` |
| `LookingStaysHeld` | `LookingIsHeld` | per disjunct of a key: what was drawn is the feed still, unless a tick came (`ScreenInv`); an event of the feed is on disk if its write succeeded (`Mirrored`), so the window around it holds it |
| `PaintingIsTrue` | `PaintsTheRecording` | points are the buckets in order (ranks of a finite set); buckets start on multiples of ten, so those within the bridge touch and a run is one bucket (`RunsAre`), and dots two apart leave no blank (`TraceCovers`); columns grow with time (`ColumnsGrow`) and none is skipped when each has an instant (`ColumnIsOwned`) |

**Sums.** `MapThenSumSet` folds over a set with a recursive function that chooses an element at a time, and the
library's facts about such definitions need an operator as parameter. `LoopProofs` goes round it: an iterate of
the fold is a function on the subsets of its set (`Iterated`), two iterates agree where both are defined
(`IterationsAgree`, by the least subset on which they would not), and one exists for every finite set
(`FoldsExist`, by the least subset without one). So a sum takes its elements in any order (`SumTakesAny`), and
is one over equal values (`SumsAgree`), of parts, and monotone; `RollupInv` and `FiguresInv` rest on these.

None of the properties is inductive alone. The strengthenings say what a reader of the code keeps in mind:
what is established at each step of an open or a migration, which state a tick has already changed, and that
open buckets lie after written ones.

**Specifications of the theorems.** Where a run chooses faults or actors in `Init` (the `...Settings` modules
and `MCEngine`), a theorem whose property names the setting is about that specification, `Spec2`; the others
are about `Spec`, with all actors and faults at once. The settings only restrict `Next`, so nothing is lost.

**What is assumed of constants** beyond their types: `None` is none of the values beside it; boards have
distinct addresses (`RegistryAssumption`; a PCI address is one slot); a minute is whole tens, and a frame's power
and memory are naturals or absent (`RollupAssumption`); a LUID is a pair of naturals and instance names are finitely
many (`FiguresAssumption`); Apple's clocks are 10 to 9999 MHz, the range in which `normalize_mhz` tells units apart
(`SocAssumption`); a session survives one panic at least, and the simulation's memory starts within its range
(`LimitsAssumption`; the code has 3, and 19.2 of 16.5 to 22.8 GiB); a script's gap and its spread fit before
the next gap (`GapMin + GapSpread <= GapEvery`; `mock.rs` has 8, 13 and 90); the first files of
`Archive` and `Sessions` are ones a build could have left; a database `Console` opens has events in time order and
buckets on their tier's width, and a live session's holds nothing later than its clock (`Begins`). `REEXPAND_MS <= MaxClock` asks only that the
model's clock runs for one re-expansion.

**Only model-checked** is liveness (`QuitReturns`, `LossReachesUI`, `OverviewCatchesUp`): fairness and `ENABLED`
are beyond the prover. The five runs that expect a violation are TLC's as well.

## Not modelled

* Rendering beyond what is painted where: layout, colour, wording, device tabs, chart style.
* Text: command-line parsing, cgroup and stat lines, PDH instance names, IOReport and `ioreg` dumps, the event
  titles and evidence, the NDJSON and report formats, the enum tokens of the database. They are sequential
  conversions with tables of tests; no property here depends on their letters.
* Stateless readings of a sample (one query or sysfs file per field), which every model takes as any value.
* The sample ring of `HistoryStore` (a bounded deque the live chart reads) and the build script.
* A failed query of the UI, and disk failures of the demo.
* `Story`'s clock only runs, and its devices are independent. Two properties of the kernel's lock are assumed:
  it is exclusive, and it dies with its process.

## Plan

Every safety property of the runs is proved. What would extend the project:

1. Disk failures in `Demo` and failed queries in `Console`, both left out above.
2. The sample ring of `HistoryStore`, if the live chart comes to read it beside the thread.
3. The process list of NVIDIA: a failed query becomes an empty list (`nvidia.rs:575`), which `Story` reads as
   exits. No property covers it, since nothing in the code promises otherwise.
