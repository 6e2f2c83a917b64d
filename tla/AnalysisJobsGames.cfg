SPECIFICATION Spec
CONSTANTS
  Games = {g1, g2}
  Runs = {r1, r2}
  Workers = {w1, w2}
  Reasons = {"manual", "auto-sync"}
  None = None
  MaxAttempts = 1
  HardStop = FALSE
  MaxSlices = 0
  MaxEdits = 1
  MaxFaults = 0
SYMMETRY Interchangeable
INVARIANTS OneLiveLease PublishedFromCurrentPgn
CHECK_DEADLOCK FALSE
