SPECIFICATION Spec
CONSTANTS
  Kinds <- MCKinds
  Configs <- MCConfigs
  MayFree = {"in", "out"}
  MayFreeQueue = TRUE
  Orderly = {TRUE}
  ProducerFirst = FALSE
  MaxEofs = 2
  None = none
CHECK_DEADLOCK FALSE
INVARIANTS
  FilterMayGo
