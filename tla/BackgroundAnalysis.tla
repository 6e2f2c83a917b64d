--------------------------- MODULE BackgroundAnalysis ---------------------------
(***************************************************************************)
(* The analysis of games in a tab of the browser                            *)
(* (lib/analysis/backgroundAnalysisManager.ts, analysisCompletion.ts) and   *)
(* the route that saves it (api/games/[id]/analysis).                       *)
(*                                                                          *)
(* A run is a chain of steps with waits between them; the tab may cancel    *)
(* it, or change its account, at any wait.  The cookie of the browser may   *)
(* belong to another account before the tab knows.                          *)
(***************************************************************************)
EXTENDS Integers, Sequences, FiniteSets, SequencesExt

CONSTANTS Accounts, Games,
          GameOwner,    \* [Games -> Accounts]
          MaxRuns, MaxRequests, MaxSignIns, MaxRunFailures, NoOne

VARIABLES
  cookie,      \* the account of the session, as the services see it
  manager,     \* ownerId, activeRun, lastCompletion, pending request for games
  runs,        \* the runs of this tab, those that ended too
  completion,  \* the last completion stored for each account
  saved,       \* what the service saved: <<run, its how manieth, game, account>>
  failures, signIns, timesAsked

tabVars == <<cookie, manager, runs, completion, saved, failures, signIns, timesAsked>>

ASSUME GamesAssumption == IsFiniteSet(Games) /\ GameOwner \in [Games -> Accounts]

NoRun == 0
NoCompletion == [of |-> NoRun, owner |-> NoOne, requested |-> 0, succeeded |-> 0, failed |-> 0]
NoBacklog == [games |-> {}]

NewRun(owner, games) ==
  [owner |-> owner, queue |-> games, scheduled |-> Range(games), game |-> Head(games), total |-> Len(games),
   completed |-> 0, failed |-> 0, engine |-> "none", engineCleaned |-> FALSE, given |-> FALSE,
   leftAt |-> "nowhere", at |-> "preferences"]

\* isCurrentRun: a run that was given up is not the active one any more.
IsCurrentRun(r) == manager.active = r

-----------------------------------------------------------------------------
\* The tab.

\* Once for a run.
CleanupRunEngine(run) ==
  IF run.engineCleaned THEN run
  ELSE [run EXCEPT !.engineCleaned = TRUE, !.engine = IF @ = "up" THEN "terminated" ELSE @]
\* `leftAt` is history: where the run was when it was given up.
GiveUp(run) == CleanupRunEngine([run EXCEPT !.queue = <<>>, !.scheduled = {}, !.leftAt = run.at])
RunsGivenUp ==
  IF manager.active = NoRun THEN runs ELSE [runs EXCEPT ![manager.active] = GiveUp(@)]

\* setOwner: the session that the tab knows of has changed.
SetOwner ==
  /\ manager.owner # cookie
  /\ runs' = RunsGivenUp
  /\ manager' = [owner |-> cookie, active |-> NoRun, last |-> NoCompletion, backlog |-> NoBacklog]
  /\ UNCHANGED <<cookie, completion, saved, failures, signIns, timesAsked>>

SignsInElsewhere ==
  /\ signIns < MaxSignIns
  /\ signIns' = signIns + 1
  /\ \E o \in Accounts \ {cookie} : cookie' = o
  /\ UNCHANGED <<manager, runs, completion, saved, failures, timesAsked>>

Cancel ==
  /\ manager.active # NoRun
  /\ runs' = RunsGivenUp
  /\ manager' = [manager EXCEPT !.active = NoRun, !.backlog = NoBacklog]
  /\ UNCHANGED <<cookie, completion, saved, failures, signIns, timesAsked>>

\* The order of the games of one answer is left open.
GamesTaken(games) ==
  SetToSeq({g \in games : manager.active = NoRun \/ g \notin runs[manager.active].scheduled})

\* enqueueGameDbIdsWithOptions: a run that is there takes the games that it
\* does not hold yet; a new one makes the answer to an older request stale.
Enqueues(games, answered) ==
  LET r == manager.active
      accepted == GamesTaken(games)
  IN /\ accepted # <<>>
     /\ IF r # NoRun
        THEN /\ runs' = [runs EXCEPT ![r].queue = @ \o accepted,
                                     ![r].scheduled = @ \cup Range(accepted),
                                     ![r].total = @ + Len(accepted)]
             /\ manager' = IF answered THEN [manager EXCEPT !.backlog = NoBacklog] ELSE manager
             /\ UNCHANGED completion
        ELSE /\ Len(runs) < MaxRuns
             /\ runs' = Append(runs, NewRun(manager.owner, accepted))
             /\ manager' = [manager EXCEPT !.active = Len(runs) + 1, !.last = NoCompletion, !.backlog = NoBacklog]
             /\ completion' = [completion EXCEPT ![manager.owner] = NoCompletion]

EnqueueGames ==
  /\ manager.owner # NoOne /\ timesAsked < MaxRequests
  /\ timesAsked' = timesAsked + 1
  /\ \E g \in {h \in Games : GameOwner[h] = manager.owner} : Enqueues({g}, FALSE)
  /\ UNCHANGED <<cookie, saved, failures, signIns>>

\* enqueuePendingUnanalyzed: the service lists the games of its session.
AsksForBacklog ==
  /\ manager.owner # NoOne /\ manager.backlog = NoBacklog /\ timesAsked < MaxRequests
  /\ LET open == {g \in Games : GameOwner[g] = cookie /\ \A s \in saved : s[3] # g} IN
     /\ open # {}
     /\ manager' = [manager EXCEPT !.backlog = [games |-> open]]
  /\ timesAsked' = timesAsked + 1
  /\ UNCHANGED <<cookie, runs, completion, saved, failures, signIns>>

EnqueueBacklog ==
  /\ manager.backlog # NoBacklog
  /\ Enqueues(manager.backlog.games, TRUE)
  /\ UNCHANGED <<cookie, saved, failures, signIns, timesAsked>>

DropsBacklog ==
  /\ manager.backlog # NoBacklog
  /\ manager' = [manager EXCEPT !.backlog = NoBacklog]
  /\ UNCHANGED <<cookie, runs, completion, saved, failures, signIns, timesAsked>>

-----------------------------------------------------------------------------
\* A run.  Each step goes on after a wait, and returns if the run was given up.

Step(r, from) == runs[r].at = from
Becomes(r, run) == runs' = [runs EXCEPT ![r] = run]
RunOver(r) == Becomes(r, [CleanupRunEngine(runs[r]) EXCEPT !.at = "over"])

\* The game of the run is done with, one way or the other.
Done(run, how) ==
  [run EXCEPT !.completed = @ + (IF how = "completed" THEN 1 ELSE 0),
              !.failed = @ + (IF how = "failed" THEN 1 ELSE 0),
              !.scheduled = @ \ {run.game}, !.at = "next"]

PreferencesLoad(r) ==
  /\ Step(r, "preferences")
  /\ IF IsCurrentRun(r) THEN Becomes(r, [runs[r] EXCEPT !.at = "next"]) ELSE RunOver(r)
  /\ UNCHANGED <<cookie, manager, completion, saved, failures, signIns, timesAsked>>

NextGame(r) ==
  /\ Step(r, "next")
  /\ CASE ~IsCurrentRun(r) -> RunOver(r)
       [] IsCurrentRun(r) /\ runs[r].queue # <<>> ->
            Becomes(r, [runs[r] EXCEPT !.queue = Tail(@), !.game = Head(runs[r].queue), !.at = "load"])
       [] OTHER -> Becomes(r, [runs[r] EXCEPT !.at = "counting"])
  /\ UNCHANGED <<cookie, manager, completion, saved, failures, signIns, timesAsked>>

\* The service gives a game to its owner only.
Reads(r) == Becomes(r, [runs[r] EXCEPT !.given = (GameOwner[runs[r].game] = cookie), !.at = "reading"])

\* Mutant: the run is not looked at again when its game has loaded.
ReadsAnyway(r) == Reads(r)

ReadsGame(r) == IF IsCurrentRun(r) THEN Reads(r) ELSE RunOver(r)

GameLoads(r) ==
  /\ Step(r, "load")
  /\ ReadsGame(r)
  /\ UNCHANGED <<cookie, manager, completion, saved, failures, signIns, timesAsked>>

\* The answer has been read: the engine is started without another look at the run.
GameRead(r) ==
  /\ Step(r, "reading")
  /\ CASE runs[r].given -> Becomes(r, [runs[r] EXCEPT !.engine = "up", !.at = "analysis"])
       [] ~runs[r].given /\ IsCurrentRun(r) -> Becomes(r, Done(runs[r], "failed"))
       [] OTHER -> RunOver(r)
  /\ UNCHANGED <<cookie, manager, completion, saved, failures, signIns, timesAsked>>

\* The analysis and the identity of the engine, then the request goes.
GameAnalysed(r) ==
  /\ Step(r, "analysis")
  /\ IF IsCurrentRun(r) THEN Becomes(r, [runs[r] EXCEPT !.at = "saving"]) ELSE RunOver(r)
  /\ UNCHANGED <<cookie, manager, completion, saved, failures, signIns, timesAsked>>

\* OWNER_MISMATCH
SessionExpected(r) == cookie = runs[r].owner

\* The analysis of the how manieth game of a run, saved for the session's account.
SavedOf(r) == <<r, runs[r].completed + runs[r].failed + 1, runs[r].game, cookie>>

\* The request of a run that was given up still arrives.
Save(r) ==
  /\ Step(r, "saving")
  /\ LET run == runs[r] IN
     IF SessionExpected(r) /\ GameOwner[run.game] = cookie
     THEN /\ saved' = saved \cup {SavedOf(r)}
          /\ Becomes(r, [run EXCEPT !.at = "answered"])
     ELSE /\ Becomes(r, [run EXCEPT !.at = "refused"])
          /\ UNCHANGED saved
  /\ UNCHANGED <<cookie, manager, completion, failures, signIns, timesAsked>>

SaveAnswered(r) ==
  /\ runs[r].at \in {"answered", "refused"}
  /\ IF ~IsCurrentRun(r) THEN RunOver(r)
     ELSE Becomes(r, Done(runs[r], IF Step(r, "answered") THEN "completed" ELSE "failed"))
  /\ UNCHANGED <<cookie, manager, completion, saved, failures, signIns, timesAsked>>

\* A request, the analysis or an answer fails; of the answer the service knows nothing.
Fails(r) ==
  /\ failures < MaxRunFailures
  /\ runs[r].at \in {"load", "reading", "analysis", "saving", "answered"}
  /\ failures' = failures + 1
  /\ IF IsCurrentRun(r) THEN Becomes(r, Done(runs[r], "failed")) ELSE RunOver(r)
  /\ UNCHANGED <<cookie, manager, completion, saved, signIns, timesAsked>>

QueueIsEmpty(r) == runs[r].queue = <<>>

\* The open games are counted, then the run ends, unless more were asked for.
Counted(r) ==
  /\ Step(r, "counting")
  /\ CASE ~IsCurrentRun(r) -> RunOver(r) /\ UNCHANGED <<manager, completion>>
       [] IsCurrentRun(r) /\ ~QueueIsEmpty(r) ->
            Becomes(r, [runs[r] EXCEPT !.at = "next"]) /\ UNCHANGED <<manager, completion>>
       [] OTHER ->
            LET summary == [of |-> r, owner |-> runs[r].owner, requested |-> runs[r].total,
                            succeeded |-> runs[r].completed, failed |-> runs[r].failed]
            IN /\ manager' = [manager EXCEPT !.active = NoRun, !.last = summary]
               /\ completion' = [completion EXCEPT ![runs[r].owner] = summary]
               /\ Becomes(r, [GiveUp(runs[r]) EXCEPT !.at = "over"])
  /\ UNCHANGED <<cookie, saved, failures, signIns, timesAsked>>

-----------------------------------------------------------------------------
TabInit ==
  /\ cookie \in Accounts
  /\ manager = [owner |-> NoOne, active |-> NoRun, last |-> NoCompletion, backlog |-> NoBacklog]
  /\ runs = <<>> /\ saved = {}
  /\ completion = [o \in Accounts |-> NoCompletion]
  /\ failures = 0 /\ signIns = 0 /\ timesAsked = 0

TabNext ==
  \/ SetOwner \/ SignsInElsewhere \/ Cancel
  \/ EnqueueGames \/ AsksForBacklog \/ EnqueueBacklog \/ DropsBacklog
  \/ \E r \in DOMAIN runs :
       \/ PreferencesLoad(r) \/ NextGame(r) \/ GameLoads(r) \/ GameRead(r)
       \/ GameAnalysed(r) \/ Save(r) \/ SaveAnswered(r) \/ Fails(r) \/ Counted(r)

TabSpec == TabInit /\ [][TabNext]_tabVars

-----------------------------------------------------------------------------
\* What a run saves, it saves for the account that it was started for, whoever
\* is signed in meanwhile.
SavedAnalysesAreOwn ==
  \A s \in saved : s[4] = runs[s[1]].owner /\ s[4] = GameOwner[s[3]]

\* A stored completion accounts for every game that was asked of its run, up
\* to its last moment; those it calls analysed were saved.
CompletionIsTrue ==
  /\ \A o \in Accounts : LET c == completion[o] IN
       /\ c # NoCompletion => c.owner = o
       /\ c.succeeded + c.failed = c.requested
       /\ c.succeeded <= Cardinality({s \in saved : s[1] = c.of})
  /\ manager.last # NoCompletion => manager.last.owner = manager.owner

\* A run that is not the active one any more leaves no engine behind, unless it was given up while
\* it read a game: the engine that it starts then is made after the only cleanup.
EnginesEnd ==
  \A r \in DOMAIN runs : runs[r].engine = "up" => IsCurrentRun(r) \/ runs[r].leftAt = "reading"

\* What the tab keeps of its runs (backgroundAnalysisManager.ts): results of the right account,
\* counts that are true, and no engine left behind.
TabHolds == SavedAnalysesAreOwn /\ CompletionIsTrue /\ EnginesEnd
=============================================================================
