------------------------------ MODULE EngineBridge ------------------------------
(***************************************************************************)
(* The engine of the browser: the client (lib/analysis/stockfishClient.ts), *)
(* the bridge worker that runs one search at a time                         *)
(* (vendor/stockfish/backranq-engine.worker.js), and the engines that it    *)
(* starts inside of it.                                                     *)
(*                                                                          *)
(* An engine speaks UCI: its best move does not name the search that it     *)
(* ends.  A stop may find no search, an engine may be late, silent or       *)
(* crash, and the start of one may fail.  Steps of the worker that wait for *)
(* the engine go on, in their order, before it takes the next message.      *)
(***************************************************************************)
EXTENDS Integers, Sequences, FiniteSets, FiniteSetsExt

CONSTANTS Calls,        \* 1..n, in the order in which they are made
          MaxEngines, MaxCrashes, MaxStreams

VARIABLES
  call,       \* the client's calls
  latest,     \* activeJobId
  requests,   \* messages to the worker
  bridge,     \* the worker: its variables, engines and replies; and, as
              \* history, whether a start-up ended late, whether a line of an
              \* engine it no longer uses was heard, and the jobs it dropped
  crashes

bridgeVars == <<call, latest, requests, bridge, crashes>>

None == 0
NoJob == [id |-> None, stopped |-> FALSE, cancelled |-> FALSE]
Starting == [state |-> "starting", inbox |-> <<>>, search |-> None, outbox |-> <<>>, ears |-> 0]

-----------------------------------------------------------------------------
\* The worker, as functions of its state.

Tell(w, kind, c, of) ==
  [w EXCEPT !.replies = Append(@, [kind |-> kind, for |-> c, of |-> of])]

EnsureEngine(w) ==
  IF w.promise # None THEN w
  ELSE [w EXCEPT !.engines = Append(@, Starting), !.promise = Len(w.engines) + 1]

\* A step waits for the engine of the promise; a direct one reports its failure.
Waits(w, at, c, direct) ==
  LET e == EnsureEngine(w) IN
  [e EXCEPT !.tasks = Append(@, [at |-> at, on |-> e.promise, for |-> c, direct |-> direct])]

StartJob(w, c, direct) ==
  Waits([w EXCEPT !.timer = None, !.active = [NoJob EXCEPT !.id = c]], "startup", c, direct)

NextJob(w) ==
  LET free == [w EXCEPT !.active = NoJob, !.queued = None] IN
  IF w.queued = None THEN free ELSE StartJob(free, w.queued, FALSE)

ScheduleForceStop(w) ==
  IF w.active.stopped THEN [w EXCEPT !.timer = w.active.id] ELSE w

StopActive(w, c) ==
  Waits([w EXCEPT !.active.stopped = TRUE, !.active.cancelled = TRUE], "stop", c, TRUE)

RequestStart(w, c) ==
  IF w.active = NoJob THEN StartJob([w EXCEPT !.queued = None], c, TRUE)
  ELSE LET told == IF w.queued = None THEN w ELSE Tell(w, "cancelled", w.queued, None)
           next == [told EXCEPT !.queued = c]
       IN IF w.active.stopped THEN ScheduleForceStop(next) ELSE StopActive(next, c)

RequestStop(w, c) ==
  IF w.queued = c THEN [Tell(w, "cancelled", c, None) EXCEPT !.queued = None]
  ELSE IF w.active.id = c THEN StopActive(w, c) ELSE w

\* A line that a job hears from an engine that is not the worker's, or hears twice.
Overhear(w, r) ==
  [w EXCEPT !.strayed = @ \/ (w.active # NoJob /\ w.engines[r].ears > 0
                               /\ (r # w.promise \/ w.engines[r].ears > 1))]

\* The best move of a search ends the job that is active.
FinishJob(w, search) ==
  IF w.active = NoJob THEN w
  ELSE NextJob([Tell(w, IF w.active.cancelled THEN "cancelled" ELSE "done", w.active.id, search)
                 EXCEPT !.timer = None])

\* Every listener of an engine hears its line.
Hear(w, r, search) ==
  LET h == Overhear(w, r) IN
  CASE w.engines[r].ears = 0 -> w
    [] w.engines[r].ears = 1 -> FinishJob(h, search)
    [] OTHER -> FinishJob(FinishJob(h, search), search)

Post(w, r, command) ==
  IF w.engines[r].state = "up" THEN [w EXCEPT !.engines[r].inbox = Append(@, command)] ELSE w

\* Mutant: the next search uses the engine that did not answer the stop.
KeepEngine(w) == w

\* The engine is terminated, and what waits for it fails.
DropEngine(w) ==
  LET gone == [w EXCEPT !.engine = None, !.promise = None, !.listened = None] IN
  IF w.engine = None THEN gone
  ELSE [gone EXCEPT
         !.engines[w.engine] = [Starting EXCEPT !.state = "dead"],
         !.tasks = [i \in DOMAIN @ |-> IF @[i].on = w.engine /\ @[i].at = "ready"
                                       THEN [@[i] EXCEPT !.at = "lost"] ELSE @[i]]]

\* A job that stopped itself has no reason to be told, and gets no answer.
ForceStop(w) ==
  IF w.active.id # w.timer THEN [w EXCEPT !.timer = None]
  ELSE LET reset == [DropEngine(w) EXCEPT !.timer = None] IN
       NextJob(IF w.active.cancelled THEN Tell(reset, "cancelled", w.active.id, None)
               ELSE [reset EXCEPT !.dropped = @ \cup {w.active.id}])

-----------------------------------------------------------------------------
\* Steps of the worker that go on.

Ready(t) ==
  \/ t.at \in {"go", "lost"}
  \/ t.at \in {"startup", "stop"} /\ bridge.engines[t.on].state # "starting"

Quiet == ~ \E i \in DOMAIN bridge.tasks : Ready(bridge.tasks[i])

Current(w, t) == w.active.id = t.for /\ ~w.active.stopped

Attach(w, r) ==
  IF w.listened = r THEN w
  ELSE [w EXCEPT !.listened = r, !.engines[r].ears = @ + 1]

\* A search that fails before it goes is over, its error told if it was asked for.
FailJob(w, t) ==
  LET over == IF w.active.id = t.for THEN [w EXCEPT !.active = NoJob] ELSE w IN
  IF t.direct THEN Tell(over, "error", t.for, None) ELSE over

Continue(w, t) ==
  LET up == w.engines[t.on].state # "failed"
      heard == Attach(w, t.on)
  IN CASE t.at = "stop" -> IF up THEN ScheduleForceStop(Post(w, t.on, [kind |-> "stop", job |-> None]))
                           ELSE Tell(w, "error", t.for, None)
       [] t.at = "startup" ->
            IF ~up THEN FailJob(w, t)
            ELSE IF ~Current(heard, t) THEN heard
            ELSE [Post(heard, t.on, [kind |-> "ready", job |-> None])
                    EXCEPT !.tasks = Append(@, [t EXCEPT !.at = "ready"])]
       [] t.at = "go" -> IF Current(w, t) THEN Post(w, t.on, [kind |-> "go", job |-> t.for]) ELSE w
       [] t.at = "lost" -> FailJob(w, t)

GoesOn ==
  /\ ~Quiet
  /\ LET i == Min({j \in DOMAIN bridge.tasks : Ready(bridge.tasks[j])})
         rest == [bridge EXCEPT !.tasks = SubSeq(@, 1, i - 1) \o SubSeq(@, i + 1, Len(@))]
     IN bridge' = Continue(rest, bridge.tasks[i])
  /\ UNCHANGED <<call, latest, requests, crashes>>

Receives ==
  /\ Quiet /\ requests # <<>>
  /\ LET m == Head(requests) IN
     bridge' = IF m.kind = "start" THEN RequestStart(bridge, m.of) ELSE RequestStop(bridge, m.of)
  /\ requests' = Tail(requests)
  /\ Len(bridge'.engines) <= MaxEngines
  /\ UNCHANGED <<call, latest, crashes>>

TimerFires ==
  /\ Quiet /\ bridge.timer # None
  /\ bridge' = ForceStop(bridge)
  /\ Len(bridge'.engines) <= MaxEngines
  /\ UNCHANGED <<call, latest, requests, crashes>>

-----------------------------------------------------------------------------
\* The engines.

\* The watchdog does not terminate an engine that still starts: its start-up
\* ends late, and the worker takes the engine, or its failure, for the newer one's.
EngineStarts(r) ==
  /\ Quiet /\ bridge.engines[r].state = "starting"
  /\ bridge' = [bridge EXCEPT !.engines[r].state = "up", !.engine = r, !.late = @ \/ bridge.promise # r]
  /\ UNCHANGED <<call, latest, requests, crashes>>

\* It takes too long, or its worker fails, which is told to the job that is active.
EngineFails(r) ==
  /\ Quiet /\ bridge.engines[r].state = "starting"
  /\ LET w == [bridge EXCEPT !.engines[r].state = "failed", !.engine = None, !.promise = None,
                             !.late = @ \/ bridge.promise # r]
     IN bridge' \in {w} \cup (IF w.active = NoJob THEN {} ELSE {Tell(w, "error", w.active.id, None)})
  /\ UNCHANGED <<call, latest, requests, crashes>>

EngineReads(r) ==
  /\ bridge.engines[r].inbox # <<>>
  /\ LET e == bridge.engines[r]
         m == Head(e.inbox)
         says == CASE m.kind = "ready" -> <<[kind |-> "ready", job |-> None]>>
                   [] m.kind = "stop" /\ e.search # None -> <<[kind |-> "best", job |-> e.search]>>
                   [] OTHER -> <<>>
     IN bridge' = [bridge EXCEPT !.engines[r] =
          [e EXCEPT !.inbox = Tail(@), !.outbox = @ \o says,
                    !.search = CASE m.kind = "go" -> m.job [] m.kind = "stop" -> None [] OTHER -> @]]
  /\ UNCHANGED <<call, latest, requests, crashes>>

EngineEnds(r) ==
  /\ bridge.engines[r].search # None
  /\ bridge' = [bridge EXCEPT !.engines[r].search = None,
       !.engines[r].outbox = Append(@, [kind |-> "best", job |-> bridge.engines[r].search])]
  /\ UNCHANGED <<call, latest, requests, crashes>>

EngineSpeaks(r) ==
  /\ Quiet /\ bridge.engines[r].outbox # <<>>
  /\ LET line == Head(bridge.engines[r].outbox)
         w == [bridge EXCEPT !.engines[r].outbox = Tail(@)]
     IN bridge' = IF line.kind = "best" THEN Hear(w, r, line.job)
                  ELSE [w EXCEPT !.tasks = [i \in DOMAIN @ |->
                          IF @[i].on = r /\ @[i].at = "ready" THEN [@[i] EXCEPT !.at = "go"] ELSE @[i]]]
  /\ Len(bridge'.engines) <= MaxEngines
  /\ UNCHANGED <<call, latest, requests, crashes>>

\* A stream with two limits stops itself when a line of a search says that one is reached.
StopsItself(r) ==
  LET e == bridge.engines[r] IN
  /\ Quiet /\ e.ears > 0
  /\ IF e.outbox = <<>> THEN e.search # None ELSE Head(e.outbox).kind = "best"
  /\ bridge.active # NoJob /\ ~bridge.active.stopped
  /\ call[bridge.active.id].kind = "stream"
  /\ bridge' = Post([Overhear(bridge, r) EXCEPT !.active.stopped = TRUE], r, [kind |-> "stop", job |-> None])
  /\ UNCHANGED <<call, latest, requests, crashes>>

\* A crash is told to the job that is active, whichever engine it uses.
EngineCrashes(r) ==
  /\ Quiet /\ crashes < MaxCrashes /\ bridge.engines[r].state = "up"
  /\ crashes' = crashes + 1
  /\ LET w == [bridge EXCEPT !.engines[r] = [@ EXCEPT !.state = "crashed", !.inbox = <<>>, !.search = None]]
     IN bridge' = IF w.active = NoJob THEN w ELSE Tell(w, "error", w.active.id, None)
  /\ UNCHANGED <<call, latest, requests>>

\* Ten seconds without an answer, long after the watchdog: of a crashed engine.
ReadyTimesOut ==
  /\ Quiet /\ bridge.timer = None
  /\ \E i \in DOMAIN bridge.tasks :
       /\ bridge.tasks[i].at = "ready" /\ bridge.engines[bridge.tasks[i].on].state = "crashed"
       /\ bridge' = [bridge EXCEPT !.tasks[i].at = "lost"]
  /\ UNCHANGED <<call, latest, requests, crashes>>

-----------------------------------------------------------------------------
\* The client.

Pending(kinds) == {c \in DOMAIN call : call[c].state = "pending" /\ call[c].kind \in kinds}
IsNext(c) == c = Min({d \in Calls : call[d].state = "new"} \cup {c}) /\ call[c].state = "new"
Start(c) == <<[kind |-> "start", of |-> c]>>
Stop(c) == <<[kind |-> "stop", of |-> c]>>

Search(c) ==
  /\ IsNext(c)
  /\ call' = [call EXCEPT ![c] = [kind |-> "search", state |-> "pending", got |-> None]]
  /\ latest' = c
  /\ requests' = requests \o Start(c)
  /\ UNCHANGED <<bridge, crashes>>

\* A stream takes the worker over: whatever was asked for is cancelled.
Stream(c) ==
  /\ IsNext(c) /\ Cardinality({d \in Calls : call[d].kind = "stream"}) < MaxStreams
  /\ LET streams == Pending({"stream"}) IN
     requests' = requests \o (IF latest = None THEN <<>> ELSE Stop(latest))
                          \o (IF streams = {} THEN <<>> ELSE Stop(Max(streams))) \o Start(c)
  /\ call' = [d \in Calls |->
       CASE d = c -> [kind |-> "stream", state |-> "pending", got |-> None]
         [] call[d].state = "pending" -> [call[d] EXCEPT !.state = "failed"]
         [] OTHER -> call[d]]
  /\ latest' = c
  /\ UNCHANGED <<bridge, crashes>>

\* A timeout, an abort, or the stop of a stream.
GivesUp(c) ==
  /\ call[c].state = "pending"
  /\ call' = [call EXCEPT ![c].state = "failed"]
  /\ latest' = IF latest = c THEN None ELSE latest
  /\ requests' = requests \o Stop(c)
  /\ UNCHANGED <<bridge, crashes>>

Hears ==
  /\ bridge.replies # <<>>
  /\ LET m == Head(bridge.replies)
         c == m.for
     IN /\ call' = IF call[c].state # "pending" THEN call
                   ELSE [call EXCEPT ![c].state = IF m.kind = "done" THEN "done" ELSE "failed",
                                     ![c].got = m.of]
        /\ latest' = IF latest = c THEN None ELSE latest
  /\ bridge' = [bridge EXCEPT !.replies = Tail(@)]
  /\ UNCHANGED <<requests, crashes>>

-----------------------------------------------------------------------------
BridgeInit ==
  /\ call = [c \in Calls |-> [kind |-> "search", state |-> "new", got |-> None]]
  /\ latest = None /\ requests = <<>> /\ crashes = 0
  /\ bridge = [promise |-> None, engine |-> None, listened |-> None, active |-> NoJob, queued |-> None,
               timer |-> None, tasks |-> <<>>, engines |-> <<>>, replies |-> <<>>,
               late |-> FALSE, strayed |-> FALSE, dropped |-> {}]

BridgeNext ==
  \/ GoesOn \/ Receives \/ TimerFires \/ ReadyTimesOut \/ Hears
  \/ \E r \in DOMAIN bridge.engines :
       \/ EngineStarts(r) \/ EngineFails(r) \/ EngineReads(r) \/ EngineEnds(r)
       \/ EngineSpeaks(r) \/ StopsItself(r) \/ EngineCrashes(r)
  \/ \E c \in Calls : Search(c) \/ Stream(c) \/ GivesUp(c)

-----------------------------------------------------------------------------
\* A call is answered with the search that it asked for, never with the late
\* best move of one that was given up; but for the lines of an engine that the
\* worker no longer uses and still hears, and then only because that engine's
\* start-up ended after the watchdog had given it up.
AnswersAreOwn ==
  /\ ~bridge.strayed => \A c \in DOMAIN call : call[c].state = "done" => call[c].got = c
  /\ bridge.strayed => bridge.late

\* When nothing moves any more in the worker and its engines, every call has
\* been answered, without the client's own timeouts; but for an engine that
\* fails to start or crashes, and a stream that stopped itself and was dropped
\* by the watchdog of the next call.
AllAnswered ==
  (/\ crashes = 0 /\ requests = <<>> /\ bridge.replies = <<>>
   /\ bridge.tasks = <<>> /\ bridge.timer = None
   /\ \A r \in DOMAIN bridge.engines :
        LET e == bridge.engines[r] IN
        e.search = None /\ e.inbox = <<>> /\ e.outbox = <<>> /\ e.state \in {"up", "dead"})
    => Pending({"search", "stream"}) \subseteq bridge.dropped

\* What the bridge keeps of its calls (backranq-engine.worker.js): each is answered, with its own search.
EngineHolds == AnswersAreOwn /\ AllAnswered
=============================================================================
