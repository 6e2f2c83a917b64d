CONSTANTS
  MaxPlies = 2 MaxPrompts = 2 MaxUnresolved = 1 Reveals = FALSE NoMove = NoMove
INIT SessionInit
NEXT SessionNext
INVARIANT EveryLineIsRecorded
CHECK_DEADLOCK FALSE
