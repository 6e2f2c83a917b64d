CONSTANTS
  a1 = a1
  a2 = a2
  p1 = p1
  p2 = p2
  g1 = g1
  g2 = g2
  g3 = g3
  Accounts = {a1, a2}
  NoAccount = NoAccount
  Policies = {p1, p2}
  Games = {g1, g2, g3}
  Owner <- MCOwner
  Played <- MCPlayed
  Wanted <- MCWanted
  Workers = {w1, w2}
  Page = 2
  Overlap = 1
  Delay = 1
  MaxAttempts = 2
  MaxNow = 3
  MaxChanges = 1
  MaxFaults = 1
SPECIFICATION MCSpec
PROPERTIES SyncHolds CatchesUp JobsEnd
CHECK_DEADLOCK FALSE
