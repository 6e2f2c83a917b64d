SPECIFICATION Spec
CONSTANTS
  Runs = {r1, r2}
  MaxPrice = 2
  Plans <- PlansDef
  Limit <- LimitDef
  Floors = {0, 1}
  Month = 1
  MaxNow = 2
  NoPeriod = NoPeriod
SYMMETRY Interchangeable
PROPERTY AccountsHold
CHECK_DEADLOCK FALSE
