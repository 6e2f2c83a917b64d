SPECIFICATION Spec
CONSTANTS
  NumItems = 1
  PageSize = 1
  Pages = {p1, p2}
  Forced = FALSE
  MayDisable = FALSE
  HardStop = FALSE
  Patient = FALSE
  MaxRuns = 2
  MaxPlans = 2
  MaxRequests = 2
  MaxFaults = 1
  None = None
SYMMETRY Interchangeable
PROPERTY BatchHolds
CHECK_DEADLOCK FALSE
