SPECIFICATION Spec
CONSTANTS
  Games = {g1}
  Runs = {r1, r2}
  Workers = {w1, w2}
  Reasons = {"auto-sync"}
  None = None
  MaxAttempts = 2
  HardStop = FALSE
  MaxSlices = 1
  MaxEdits = 0
  MaxFaults = 1
SYMMETRY Interchangeable
INVARIANTS HoldersSafe ReservationsSafe UnchargedIsMarked
PROPERTIES StaleLeavesJob CheckpointKept ReservationsSettleOnce
CHECK_DEADLOCK FALSE
