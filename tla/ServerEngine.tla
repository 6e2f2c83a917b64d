------------------------------ MODULE ServerEngine ------------------------------
(***************************************************************************)
(* The engine of the server (lib/analysis/serverStockfishClient.ts) and its *)
(* child process (lib/analysis/serverStockfishRuntime.ts): a chain of       *)
(* searches, one at a time, on a process that is replaced when it does not  *)
(* answer a stop, or dies.                                                  *)
(*                                                                          *)
(* A step that waits for the process goes on before the next line is read.  *)
(* The engine is terminated by its owner when nothing uses it any more.     *)
(***************************************************************************)
EXTENDS Integers, Sequences, FiniteSets, FiniteSetsExt

CONSTANTS Analyses,      \* 1..n, in the order in which they are asked for
          MaxProcesses, MaxDeaths, NoAnalysis

ASSUME AnalysesAssumption == NoAnalysis \notin Analyses

VARIABLES
  analysis,    \* the calls: state, result and the cancellations before them
  chain,       \* those that have not run yet
  turn,        \* the one that runs, and what it waits for
  searching,   \* the search under way (active)
  cancellations,  \* cancellationGeneration
  watchdog,    \* the search whose stop is watched over
  process,     \* the child processes
  child,       \* the process of enginePromise
  deaths

engineVars == <<analysis, chain, turn, searching, cancellations, watchdog, process, child, deaths>>

Nothing == 0
Resting == [id |-> NoAnalysis, stage |-> "idle", on |-> Nothing]
NoSearch == [id |-> NoAnalysis, settled |-> FALSE]
Child == [state |-> "starting", inbox |-> <<>>, search |-> NoAnalysis, outbox |-> <<>>]
Settle(a, state, got) == analysis' = [analysis EXCEPT ![a].state = state, ![a].got = got]

\* waitForIdle
IsIdle == searching = NoSearch

\* No step of the chain is ready to go on.
Up == process[turn.on].state # "starting"
Rests ==
  CASE turn.stage = "idle" -> chain = <<>>
    [] turn.stage = "engine" -> ~Up \/ ~IsIdle
    [] turn.stage = "again" -> ~Up
    [] OTHER -> turn.stage \notin {"start", "go"}

-----------------------------------------------------------------------------
\* Calls.

AsksForAnalysis(a) ==
  /\ analysis[a].state = "new" /\ \A b \in Analyses : b < a => analysis[b].state # "new"
  /\ analysis' = [analysis EXCEPT ![a] = [state |-> "pending", got |-> NoAnalysis, of |-> cancellations]]
  /\ chain' = Append(chain, a)
  /\ UNCHANGED <<turn, searching, cancellations, watchdog, process, child, deaths>>

\* A search that a newer cancellation concerns is not run.
Begins ==
  /\ turn = Resting /\ chain # <<>>
  /\ chain' = Tail(chain)
  /\ LET a == Head(chain) IN
     IF analysis[a].of # cancellations
     THEN Settle(a, "failed", NoAnalysis) /\ UNCHANGED turn
     ELSE turn' = [Resting EXCEPT !.id = a, !.stage = "start"] /\ UNCHANGED analysis
  /\ UNCHANGED <<searching, cancellations, watchdog, process, child, deaths>>

\* ensureEngine: the process that is there, or a new one.
Ensures(stage) ==
  IF child # Nothing
  THEN /\ turn' = [turn EXCEPT !.stage = stage, !.on = child]
       /\ UNCHANGED <<process, child>>
  ELSE /\ Len(process) < MaxProcesses
       /\ process' = Append(process, Child)
       /\ child' = Len(process) + 1
       /\ turn' = [turn EXCEPT !.stage = stage, !.on = Len(process) + 1]

StartsEngine ==
  /\ turn.stage = "start"
  /\ Ensures("engine")
  /\ UNCHANGED <<analysis, chain, searching, cancellations, watchdog, deaths>>

WaitsForIdle ==
  /\ turn.stage = "engine" /\ Up /\ IsIdle
  /\ Ensures("again")
  /\ UNCHANGED <<analysis, chain, searching, cancellations, watchdog, deaths>>

Writes(r, commands) == process' = [process EXCEPT ![r].inbox = @ \o commands]

\* The process may have been replaced while the search waited.
AsksReady ==
  /\ turn.stage = "again" /\ Up
  /\ IF process[turn.on].state = "up"
     THEN /\ Writes(turn.on, <<[kind |-> "ready", job |-> NoAnalysis]>>)
          /\ turn' = [turn EXCEPT !.stage = "ready"]
          /\ UNCHANGED analysis
     ELSE /\ Settle(turn.id, "failed", NoAnalysis)
          /\ turn' = Resting
          /\ UNCHANGED process
  /\ UNCHANGED <<chain, searching, cancellations, watchdog, child, deaths>>

\* The process is ready: the search goes, unless it was aborted meanwhile.
Goes ==
  /\ turn.stage = "go"
  /\ \/ /\ searching' = [id |-> turn.id, settled |-> FALSE]
        /\ Writes(turn.on, <<[kind |-> "go", job |-> turn.id]>>)
        /\ turn' = [turn EXCEPT !.stage = "search"]
        /\ UNCHANGED analysis
     \/ /\ Settle(turn.id, "failed", NoAnalysis)
        /\ turn' = Resting
        /\ UNCHANGED <<searching, process>>
  /\ UNCHANGED <<chain, cancellations, watchdog, child, deaths>>

\* stopAndReject, of a timeout, an abort, or cancelAll.
StopAndReject ==
  /\ Rests /\ searching # NoSearch
  /\ searching' = [searching EXCEPT !.settled = TRUE]
  /\ watchdog' = searching.id
  /\ IF searching.settled THEN UNCHANGED <<analysis, turn>>
     ELSE Settle(searching.id, "failed", NoAnalysis) /\ turn' = Resting
  /\ IF process[child].state = "up"
     THEN Writes(child, <<[kind |-> "stop", job |-> NoAnalysis]>>) ELSE UNCHANGED process
  /\ UNCHANGED <<chain, child, deaths>>

SearchTimesOut == ~searching.settled /\ StopAndReject /\ UNCHANGED cancellations

CancelsAll ==
  /\ Rests /\ cancellations < 1
  /\ cancellations' = cancellations + 1
  /\ \/ StopAndReject
     \/ /\ searching = NoSearch
        /\ UNCHANGED <<analysis, chain, turn, searching, watchdog, process, child, deaths>>

\* Mutant: the watchdog clears the search and keeps its process.
KeepProcess == UNCHANGED <<process, child>>

DropProcess ==
  /\ process' = [process EXCEPT ![child] = [Child EXCEPT !.state = "dead"]]
  /\ child' = Nothing

WatchdogFires ==
  /\ Rests /\ watchdog # NoAnalysis
  /\ watchdog' = NoAnalysis
  /\ IF searching.id = watchdog THEN DropProcess /\ searching' = NoSearch
     ELSE UNCHANGED <<process, child, searching>>
  /\ UNCHANGED <<analysis, chain, turn, cancellations, deaths>>

-----------------------------------------------------------------------------
\* The process.

ProcessStarts(r) ==
  /\ Rests /\ process[r].state = "starting"
  /\ process' = [process EXCEPT ![r].state = "up"]
  /\ UNCHANGED <<analysis, chain, turn, searching, cancellations, watchdog, child, deaths>>

\* resetFailedRuntime: at start-up or later; whatever waits for it fails.
ProcessDies(r) ==
  /\ Rests /\ deaths < MaxDeaths /\ r = child /\ process[r].state \in {"starting", "up"}
  /\ deaths' = deaths + 1
  /\ DropProcess
  /\ IF turn.on = r /\ turn.stage \in {"engine", "again", "ready", "search"} /\ ~searching.settled
     THEN Settle(turn.id, "failed", NoAnalysis) /\ turn' = Resting
     ELSE UNCHANGED <<analysis, turn>>
  /\ searching' = NoSearch
  /\ watchdog' = NoAnalysis
  /\ UNCHANGED <<chain, cancellations>>

ProcessReads(r) ==
  /\ process[r].state = "up" /\ process[r].inbox # <<>>
  /\ LET p == process[r]
         m == Head(p.inbox)
         says == CASE m.kind = "ready" -> <<[kind |-> "ready", job |-> NoAnalysis]>>
                   [] m.kind = "stop" /\ p.search # NoAnalysis -> <<[kind |-> "best", job |-> p.search]>>
                   [] OTHER -> <<>>
     IN process' = [process EXCEPT ![r] =
          [p EXCEPT !.inbox = Tail(@), !.outbox = @ \o says,
             !.search = CASE m.kind = "go" -> m.job [] m.kind = "stop" -> NoAnalysis [] OTHER -> @]]
  /\ UNCHANGED <<analysis, chain, turn, searching, cancellations, watchdog, child, deaths>>

ProcessEnds(r) ==
  /\ process[r].search # NoAnalysis
  /\ process' = [process EXCEPT ![r].search = NoAnalysis,
       ![r].outbox = Append(@, [kind |-> "best", job |-> process[r].search])]
  /\ UNCHANGED <<analysis, chain, turn, searching, cancellations, watchdog, child, deaths>>

\* onLine: the best move ends the search under way, whatever search it is of.
Line(r) ==
  /\ Rests /\ process[r].outbox # <<>>
  /\ LET line == Head(process[r].outbox) IN
     IF line.kind = "ready"
     THEN /\ turn' = IF turn.stage = "ready" /\ turn.on = r THEN [turn EXCEPT !.stage = "go"] ELSE turn
          /\ UNCHANGED <<analysis, searching, watchdog>>
     ELSE /\ IF searching = NoSearch \/ searching.settled THEN UNCHANGED <<analysis, turn>>
             ELSE Settle(searching.id, "done", line.job) /\ turn' = Resting
          /\ searching' = NoSearch
          /\ watchdog' = IF watchdog = searching.id THEN NoAnalysis ELSE watchdog
  /\ process' = [process EXCEPT ![r].outbox = Tail(@)]
  /\ UNCHANGED <<chain, cancellations, child, deaths>>

-----------------------------------------------------------------------------
EngineInit ==
  /\ analysis = [a \in Analyses |-> [state |-> "new", got |-> NoAnalysis, of |-> 0]]
  /\ chain = <<>> /\ turn = Resting /\ searching = NoSearch
  /\ cancellations = 0 /\ watchdog = NoAnalysis
  /\ process = <<>> /\ child = Nothing /\ deaths = 0

EngineNext ==
  \/ \E a \in Analyses : AsksForAnalysis(a)
  \/ Begins \/ StartsEngine \/ WaitsForIdle \/ AsksReady \/ Goes
  \/ SearchTimesOut \/ CancelsAll \/ WatchdogFires
  \/ \E r \in DOMAIN process :
       ProcessStarts(r) \/ ProcessDies(r) \/ ProcessReads(r) \/ ProcessEnds(r) \/ Line(r)

ServerEngineSpec == EngineInit /\ [][EngineNext]_engineVars

-----------------------------------------------------------------------------
\* An analysis is of the position that was asked for, though a stopped search
\* may still end after the next one was asked for.
AnalysesAreOwn == \A a \in Analyses : analysis[a].state = "done" => analysis[a].got = a
=============================================================================
