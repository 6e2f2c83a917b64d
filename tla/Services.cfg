CONSTANTS
  Deliveries = {"due", "again"} Practice = {"due", "again"} Priority = {"bill"}
  Workers = {"w", "v"} DailyLimit = 2 Reserve = 1 MaxAttempts = 2 MaxDays = 1 MaxDispatches = 1
  NoReservation = NoReservation
  Learners = {1, 2} StatesOf <- MCStatesOf SweepSlice = 2 NotifyPage = 1 LastDay = 1
  MaxReviewed = 0 Handlers = {x, y} NoMessage = NoMessage
  Tabs = {t1, t2} Hooks = {"k1"} MaxReservations = 2 MaxContracts = 2 MaxEvents = 1
  MaxGrants = 2 MaxClaims = 1
  Devices = {a, b} PlayedAt <- MCPlayedAt HistoryPageSize = 2 RowLimit = 2 ChunkSize = 1
  ImportLimit = 3 MaxSynced = 1 MaxFailures = 0 NoCursorLeft = NoCursorLeft
  Players = {2} BacklogOf <- MCBacklogOf Long = {2} ClassOf <- MCClassOf Fresh = {}
  ScanLimit = 1 SweepPage = 1 MaxTries = 2 Allowances = {1} MaxChanges = 1 MaxFaults = 1
  Postmen = {"p"} MaxInvitations = 2 MaxSends = 2 MaxReceipts = 2 NoPostman = NoPostman
  LastCandidate = 2 Hard = {1, 2} Masters = {"m"} MaxMasterRuns = 2 MaxClaimsOfRun = 1
  MaxAttemptsOfRun = 1 LastWeek = 2 MaxEdits = 0 MaxStale = 0
SPECIFICATION MCSpec
INVARIANTS DueIsTold StripeHolds HistoryHolds BacklogHolds InvitationsHold PuzzleHolds
PROPERTY MailHolds
CHECK_DEADLOCK FALSE
