------------------------------- MODULE BrowserMC -------------------------------
(***************************************************************************)
(* The tab, the coach, the engines and the pages on small instances.  A     *)
(* behaviour is of one part.                                                *)
(***************************************************************************)
EXTENDS EngineBridge, ServerEngine, BackgroundAnalysis, ServerRequests, CoachGame, CoachSignOut,
        MaiaOpponent, AnalysisWorkspace, SyncMonitor, Preferences

VARIABLE part

\* Two calls, and an engine that crashes and is started again.
Crashing == INSTANCE EngineBridge WITH Calls <- {1, 2}, MaxEngines <- 2, MaxCrashes <- 1
\* Engines that are given up while they start.
Replacing == INSTANCE EngineBridge WITH MaxEngines <- 3, MaxStreams <- 0
\* A choice of moves while nothing fails; longer games, and an answer that is lost.
Choosing == INSTANCE CoachGame WITH Moves <- {"a", "b"}, MaxFailures <- 0
LongGame == INSTANCE CoachGame WITH MaxPlies <- 3, MaxSessions <- 1, MaxLost <- 1

\* Two tabs share what Maia keeps on the device, and nothing fails.
TwoTabs == INSTANCE MaiaOpponent WITH MaiaTabs <- {"t1", "t2"}, MaxMaiaFaults <- 0,
                                    MaxCorruptions <- 0

OneMove == <<"a">>
TwoMoves == <<"b", "a">>

\* Drafts of two positions, of which the device keeps one; the live engine, which is called; a
\* workspace that is opened again.
TwoDrafts == INSTANCE AnalysisWorkspace WITH Prompts <- {"p", "q"}, MaxOpened <- 3, MaxTreeEdits <- 1,
                                             MaxDraftFaults <- 1
Calling == INSTANCE AnalysisWorkspace WITH MaxTreeEdits <- 1, MaxEngineCalls <- 3
Reopened == INSTANCE AnalysisWorkspace WITH MaxOpened <- 2, MaxTreeEdits <- 2

\* Fewer clicks, but something fails, or two accounts have the page in turn.
Failing == INSTANCE SyncMonitor WITH MaxManual <- 1, MaxSyncFaults <- 1
Succeeding == INSTANCE SyncMonitor WITH MaxManual <- 1, MaxOwners <- 2, MaxReads <- 4

\* One account, with games or with more edits.
WithGames == INSTANCE Preferences WITH People <- {"me"}, MaxPrefSignIns <- 0, MaxPrefGames <- 2
WithEdits == INSTANCE Preferences WITH People <- {"me"}, MaxPrefSignIns <- 0, MaxPrefEdits <- 3

MCGameOwner == [g \in Games |-> IF g = "y" THEN "you" ELSE "me"]

MCInit ==
  /\ part \in {"bridge", "crashing", "replacing", "engine", "tab", "requests", "coach", "choosing", "long game", "sign-out",
              "maia", "two tabs", "tree", "two drafts", "engine calls", "reopened", "monitor", "failing",
              "two owners", "settings", "games", "edits"}
  /\ IF part = "crashing" THEN Crashing!BridgeInit ELSE BridgeInit
  /\ EngineInit
  /\ TabInit
  /\ part # "tab" => cookie = "me"
  /\ RequestsInit
  /\ CoachInit
  /\ SignOutInit
  /\ IF part = "two tabs" THEN TwoTabs!MaiaInit ELSE MaiaInit
  /\ IF part = "two drafts" THEN TwoDrafts!WorkspaceInit ELSE WorkspaceInit
  /\ IF part = "two owners" THEN Succeeding!MonitorInit ELSE MonitorInit
  /\ IF part \in {"games", "edits"} THEN WithGames!PrefInit ELSE PrefInit

engines == <<bridgeVars, engineVars>>
tabs == <<tabVars, requestVars>>
coach == <<coachVars, signOutVars, maiaVars>>
pages == <<workspaceVars, monitorVars, prefVars>>

\* One disjunct for each part; the others do not move.
MCNext ==
  \/ /\ \/ part = "bridge" /\ BridgeNext
        \/ part = "crashing" /\ Crashing!BridgeNext
        \/ part = "replacing" /\ Replacing!BridgeNext
     /\ UNCHANGED <<part, engineVars, tabs, coach, pages>>
  \/ part = "engine" /\ EngineNext /\ UNCHANGED <<part, bridgeVars, tabs, coach, pages>>
  \/ part = "tab" /\ TabNext /\ UNCHANGED <<part, engines, requestVars, coach, pages>>
  \/ part = "requests" /\ RequestsNext /\ UNCHANGED <<part, engines, tabVars, coach, pages>>
  \/ /\ \/ part = "coach" /\ CoachNext
        \/ part = "choosing" /\ Choosing!CoachNext
        \/ part = "long game" /\ LongGame!CoachNext
     /\ UNCHANGED <<part, engines, tabs, signOutVars, maiaVars, pages>>
  \/ part = "sign-out" /\ SignOutNext /\ UNCHANGED <<part, engines, tabs, coachVars, maiaVars, pages>>
  \/ /\ \/ part = "maia" /\ MaiaNext
        \/ part = "two tabs" /\ TwoTabs!MaiaNext
     /\ UNCHANGED <<part, engines, tabs, coachVars, signOutVars, pages>>
  \/ /\ \/ part = "tree" /\ WorkspaceNext
        \/ part = "two drafts" /\ TwoDrafts!WorkspaceNext
        \/ part = "engine calls" /\ Calling!WorkspaceNext
        \/ part = "reopened" /\ Reopened!WorkspaceNext
     /\ UNCHANGED <<part, engines, tabs, coach, monitorVars, prefVars>>
  \/ /\ \/ part = "monitor" /\ MonitorNext
        \/ part = "failing" /\ Failing!MonitorNext
        \/ part = "two owners" /\ Succeeding!MonitorNext
     /\ UNCHANGED <<part, engines, tabs, coach, workspaceVars, prefVars>>
  \/ /\ \/ part = "settings" /\ PrefNext
        \/ part = "games" /\ WithGames!PrefNext
        \/ part = "edits" /\ WithEdits!PrefNext
     /\ UNCHANGED <<part, engines, tabs, coach, workspaceVars, monitorVars>>

MCSpec == MCInit /\ [][MCNext]_<<part, engines, tabs, coach, pages>>

=============================================================================
