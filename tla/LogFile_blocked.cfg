SPECIFICATION Spec
CONSTANTS
  Writers = {w1, w2}
  Main = main
  Logger = logger
  None = none
  Capacity = 2
  MaxLines = 5
  MaxOpens = 2
CHECK_DEADLOCK FALSE
INVARIANTS
  BlockedOnlyWhileFull
