CONSTANTS
  Calls = {1, 2, 3} MaxEngines = 1 MaxCrashes = 0 MaxStreams = 3
  Analyses = {1, 2, 3} MaxProcesses = 3 MaxDeaths = 1 NoAnalysis = 0
  Accounts = {"me", "you"} Games = {"a", "y"} GameOwner <- MCGameOwner
  MaxRuns = 2 MaxRequests = 2 MaxSignIns = 1 MaxRunFailures = 1 NoOne = "none"
  Tabs = {"t1", "t2"} Requests = {1, 2} Selections = {"p"} MaxAttempts = 1 MaxBegun = 3 MaxLosses = 2
  Moves = {"a"} MaxPlies = 2 MaxSessions = 2 MaxFailures = 1 MaxWaiting = 0 MaxReloads = 1
  MaxLost = 0
  Pages = {"p1", "p2"} MaxVisits = 3 MaxSignOuts = 2 MaxAsked = 1
  MaiaTabs = {"t1"} MaiaClients = {1, 2} MaxMaiaFaults = 1 MaxRemovals = 1 MaxCorruptions = 1
  TreeMoves = {"a", "b"} SourceLine <- OneMove GameMove = "a" BestLine <- TwoMoves
  MaxNodes = 7 MaxLine = 4 Prompts = {"p"} MaxDrafts = 1 MaxTreeEdits = 3 MaxOpened = 1
  MaxDraftFaults = 0 MaxEngineCalls = 0
  Providers = {"l", "c"} Automatic = {"l"} MaxOwners = 1 MaxSyncJobs = 2 MaxPolls = 2 MaxManual = 2
  MaxReads = 3 MaxSyncFaults = 0
  SettingsPages = {"p1", "p2"} People = {"me", "you"} FirstPerson = "me" MaxPrefAttempts = 2
  MaxPrefEdits = 2 MaxPrefSignIns = 1 MaxPrefGames = 0
SPECIFICATION MCSpec
INVARIANTS EngineHolds AnalysesAreOwn TabHolds RequestsHold SignedOutIsCleared MaiaIsSound
  WorkspaceHolds SyncIsTold PreferencesHold
PROPERTY CoachHolds
CHECK_DEADLOCK FALSE
