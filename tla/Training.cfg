CONSTANTS
  NoLoss = NoLoss NoEvidence = NoEvidence NoCheckpoint = NoCheckpoint
  NoManifest = NoManifest NoFirstMove = 99 NoScore = NoScore NoFrontier = NoFrontier
  LastPly = 3 UserParity = 1 Passes = 2 Losses = {0, 1, 3, 4}
  MinLoss = 2 Tolerance = 1 Margin = 0
  MaxTreePlies = 2 MaxPositions = 2 MultiPv = 2 MaxMultiPv = 3 MaxBranches = 3
  MaxAccepted = 3 MaxLegal = 3 LineLosses = {0, 90, 110}
  Policy <- GradingPolicy
  MaxPlies = 4 MaxPrompts = 2 MaxUnresolved = 1 Reveals = FALSE NoMove = NoMove
  LastPosition = 3 Major = {2} SliceSize = 1 MaxSlices = 2 PageLimit = 1 LowWater = 0
  MaxChanges = 1 MaxResets = 1 NoCursor = NoCursor NoPage = NoPage
  Results = {r1, r2} Tabs = {t1, t2} Hashes = {h1, h2} Successes = {r1}
  MaxQueue = 1 MaxRevisions = 2 MaxTime = 1 MaxRetries = 1
  NoReview = NoReview NoCall = NoCall
SPECIFICATION MCSpec
SYMMETRY Symmetry
INVARIANTS GameIsDecided MomentsAreSound SessionHolds
PROPERTIES RecordsHold FeedHolds
CHECK_DEADLOCK FALSE
