SPECIFICATION FairSpec
CONSTANTS
  Rows = {k1, k2}
  Flushers = {f1, f2}
  Limit = 2
  MayDisable = TRUE
  MaxAttempts = 3
  MaxFaults = 2
  NoRow = NoRow
PROPERTIES OutboxHolds MailboxKept
CHECK_DEADLOCK FALSE
