SPECIFICATION FairSpec
CONSTANTS
  NumItems = 2
  PageSize = 1
  Pages = {p1}
  Forced = TRUE
  MayDisable = TRUE
  HardStop = TRUE
  Patient = TRUE
  MaxRuns = 1
  MaxPlans = 4
  MaxRequests = 0
  MaxFaults = 2
  None = None
INVARIANT GivenUpIsTold
PROPERTY BatchEnds
CHECK_DEADLOCK FALSE
