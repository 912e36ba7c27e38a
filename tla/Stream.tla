------------------------------- MODULE Stream -------------------------------
(***************************************************************************)
(* A session on its way out: the --json loop (tui/src/main.rs, `run_json`),*)
(* the ticks behind their panic firewall, `Engine::finish`, and the three  *)
(* places an event goes - the recording, the --on-event hook under its     *)
(* rate cap (`EventSink`), the NDJSON stream, whose consumer may hang up   *)
(* between any two lines.                                                  *)
(*                                                                         *)
(* An event is <<kind, n>>; a line is an event or a frame <<"frame", n>>.  *)
(* Ticks that panic do so before their events are recorded.                *)
(***************************************************************************)
EXTENDS Integers, Sequences, SequencesExt, FiniteSets, FiniteSetsExt

CONSTANTS
  MAX_CONSECUTIVE_PANICS,
  SINK_MAX_PER_MIN,
  Minute,    \* the rolling window of the sink
  MaxTicks,  \* bound of the ticks
  MaxFacts,  \* events a tick derives at most (a bound of the model)
  None

VARIABLES
  once,      \* --once
  recorder,  \* the engine has a recorder
  pending,   \* pending_reset and pending_session_start
  ticks,     \* ticks begun (a history of frames_folded and the panicked ones)
  panicked,  \* consecutive_panics
  finished,  \* Engine::finished
  pc,        \* "tick", "emit", "sleep", "finish", "ended" or "dropped"
  queue,     \* lines still to emit
  then,      \* where the loop goes when they are out
  gone,      \* the consumer hung up
  now,       \* the sink's clock
  window,    \* the sink's spawns of the last minute
  lines,     \* what the consumer read
  recorded,  \* events given to the recorder
  spawns     \* when each hook was spawned (history)

sink == <<now, window, spawns>>
vars == <<once, recorder, pending, ticks, panicked, finished, pc, queue, then, gone,
          sink, lines, recorded>>

-----------------------------------------------------------------------------
(* EventSink *)

\* retain: the window is in order of time, so what is too old is at its front.
Recent(w) ==
  LET young == {i \in DOMAIN w : now - w[i] < Minute}
  IN IF young = {} THEN <<>> ELSE SubSeq(w, Min(young), Len(w))

\* fire for n events in a row, of which `failed` do not spawn: those over the
\* cap are dropped, and a spawn that fails is not counted.
Fire(n, failed) ==
  LET w == Recent(window)
      room == SINK_MAX_PER_MIN - Len(w)
      tried == Min({n - Min({failed, n}), room})
      fresh == [i \in 1..tried |-> now]
  IN /\ window' = w \o fresh
     /\ spawns' = spawns \o fresh
     /\ now' = now

-----------------------------------------------------------------------------
Init ==
  /\ once \in BOOLEAN /\ recorder \in BOOLEAN
  /\ pending \in IF recorder THEN {<<<<"start", 0>>>>,
                                   <<<<"reset", 0>>, <<"start", 0>>>>} ELSE {<<>>}
  /\ ticks = 0 /\ panicked = 0 /\ finished = FALSE
  /\ pc = "tick" /\ queue = <<>> /\ then = None
  /\ gone = FALSE
  /\ now = Minute /\ window = <<>> /\ spawns = <<>>
  /\ lines = <<>>
  /\ recorded = IF recorder THEN {<<"start", 0>>} ELSE {}

Record(events) ==
  recorded' = IF recorder THEN recorded \union Range(events) ELSE recorded

\* A clean tick: what is pending, then what the tick derived, is recorded, fired
\* and put on the stream behind its frame.
Tick(facts, failed) ==
  LET events == pending \o [i \in 1..facts |-> <<"fact", MaxFacts * ticks + i>>]
  IN /\ pc = "tick" /\ ticks < MaxTicks
     /\ ticks' = ticks + 1
     /\ panicked' = 0
     /\ pending' = <<>>
     /\ Record(events)
     /\ Fire(Len(events), failed)
     /\ queue' = <<<<"frame", ticks>>>> \o events
     /\ then' = IF once THEN "finish" ELSE "sleep"
     /\ pc' = "emit"
     /\ UNCHANGED <<once, recorder, finished, gone, lines>>

\* A tick that panicked: what was pending is taken and lost with the tick; the
\* stall goes the way of an event.
PanickedTick(failed) ==
  /\ pc = "tick" /\ ticks < MaxTicks
  /\ ticks' = ticks + 1
  /\ panicked' = panicked + 1
  /\ pending' = <<>>
  /\ Record(<<<<"panic", ticks>>>>)
  /\ Fire(1, failed)
  /\ queue' = <<<<"panic", ticks>>>>
  /\ then' = IF panicked' >= MAX_CONSECUTIVE_PANICS THEN "finish" ELSE "sleep"
  /\ pc' = "emit"
  /\ UNCHANGED <<once, recorder, finished, gone, lines>>

\* Mutant: the session is finished as often as it is told to.
AlwaysWritesStop == recorder

\* The stop mark is written once, and only into a recording.
WritesStop == recorder /\ ~finished

Stops == {e \in recorded : e[1] = "stop"}
StopMark == <<"stop", Cardinality(Stops)>>

\* Engine::finish. Its event is emitted when stdout is still there.
Finish(emitted, failed) ==
  /\ finished' = (finished \/ recorder)
  /\ IF WritesStop THEN Record(<<StopMark>>) /\ Fire(1, failed)
     ELSE UNCHANGED <<recorded, sink>>
  /\ queue' = IF WritesStop /\ emitted THEN <<StopMark>> ELSE <<>>

\* emit_line: the next line is out, or the consumer is gone - and then the loop
\* finishes the session, recording only, unless this was its last line anyway.
EmitLine(failed) ==
  /\ pc = "emit" /\ queue # <<>>
  /\ IF gone
     THEN /\ pc' = "ended" /\ then' = None
          /\ IF then = "ended"
             THEN queue' = <<>> /\ UNCHANGED <<recorded, sink, finished>>
             ELSE Finish(FALSE, failed)
          /\ UNCHANGED lines
     ELSE /\ lines' = Append(lines, Head(queue))
          /\ queue' = Tail(queue)
          /\ UNCHANGED <<pc, then, recorded, sink, finished>>
  /\ UNCHANGED <<once, recorder, pending, ticks, panicked, gone>>

\* The lines are out: back to sleep, or on to the stop mark and the end.
Emitted ==
  /\ pc = "emit" /\ queue = <<>>
  /\ pc' = then /\ then' = None
  /\ UNCHANGED <<once, recorder, pending, ticks, panicked, finished, queue, gone,
                 sink, lines, recorded>>

\* emit_stop_mark.
EmitStopMark(failed) ==
  /\ pc = "finish"
  /\ Finish(TRUE, failed)
  /\ pc' = "emit" /\ then' = "ended"
  /\ UNCHANGED <<once, recorder, pending, ticks, panicked, gone, lines>>

Sleep ==
  /\ pc = "sleep"
  /\ now' = now + 1
  /\ pc' = "tick"
  /\ UNCHANGED <<once, recorder, pending, ticks, panicked, finished, queue, then,
                 gone, window, spawns, lines, recorded>>

\* Engine::drop on every way out.
Drop(failed) ==
  /\ pc = "ended" /\ queue = <<>>
  /\ pc' = "dropped"
  /\ Finish(FALSE, failed)
  /\ UNCHANGED <<once, recorder, pending, ticks, panicked, then, gone, lines>>

HangUp ==
  /\ ~gone
  /\ gone' = TRUE
  /\ UNCHANGED <<once, recorder, pending, ticks, panicked, finished, pc, queue,
                 then, sink, lines, recorded>>

Next ==
  \/ \E failed \in 0..1 :
       \/ \E facts \in 0..MaxFacts : Tick(facts, failed)
       \/ PanickedTick(failed)
       \/ EmitLine(failed) \/ EmitStopMark(failed) \/ Drop(failed)
  \/ Emitted
  \/ Sleep
  \/ HangUp

Spec == Init /\ [][Next]_vars

-----------------------------------------------------------------------------
(* Properties *)

\* The queue is for emitting; the window is the sink's memory of its spawns.
TypeOK ==
  /\ pc \in {"tick", "emit", "sleep", "finish", "ended", "dropped"}
  /\ then \in {None, "sleep", "finish", "ended"}
  /\ pc # "emit" => queue = <<>>
  /\ IsSuffix(Recent(window), spawns)
  /\ panicked \in 0..MAX_CONSECUTIVE_PANICS

Events(ls) == {l \in Range(ls) : l[1] # "frame"}

\* What the stream says the recording says, line by line at most once - and
\* while the consumer listens, the other way round, but for a start mark whose
\* tick panicked.
StreamAgrees ==
  /\ IsInjective(lines)
  /\ recorder => /\ Events(lines) \subseteq recorded
                 /\ ~gone /\ pc # "emit" =>
                      recorded \ (Stops \union {<<"start", 0>>})
                        \subseteq Events(lines)

\* The stop mark comes once and last, on the stream as in the recording; a
\* session that is over has one if it was recorded at all (finish: "the
\* session's end must land exactly once").
StopIsLast ==
  /\ Cardinality(Stops) <= 1
  /\ \A i \in DOMAIN lines : lines[i] \in Stops => i = Len(lines)
  /\ pc = "dropped" /\ recorder => Stops # {}
  /\ pc = "dropped" /\ recorder /\ ~gone => Last(lines) \in Stops

\* No rolling minute sees more hooks than the cap, however ticks, panics and
\* failed spawns fall ("Rate-capped at SINK_MAX_PER_MIN spawns per rolling
\* minute").
HooksWithinCap ==
  \A i \in DOMAIN spawns :
    i + SINK_MAX_PER_MIN \in DOMAIN spawns =>
      spawns[i + SINK_MAX_PER_MIN] - spawns[i] >= Minute

\* A session tells the same story to its recording, its hook and its stream.
SessionIsToldOnce == StreamAgrees /\ StopIsLast /\ HooksWithinCap
=============================================================================
