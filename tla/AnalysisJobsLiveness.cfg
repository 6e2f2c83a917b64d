SPECIFICATION FairSpec
CONSTANTS
  Games = {g1}
  Runs = {r1, r2}
  Workers = {w1}
  Reasons = {"auto-sync"}
  None = None
  MaxAttempts = 2
  HardStop = TRUE
  MaxSlices = 1
  MaxEdits = 0
  MaxFaults = 1
PROPERTY JobsSettle
CHECK_DEADLOCK FALSE
