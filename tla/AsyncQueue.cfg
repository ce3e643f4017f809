SPECIFICATION FairSpec
CONSTANTS
  Kinds <- MCKinds
  Configs <- MCConfigs
  MayFree = {"in", "out"}
  MayFreeQueue = TRUE
  Orderly = {TRUE, FALSE}
  ProducerFirst = TRUE
  MaxEofs = 2
  None = none
CHECK_DEADLOCK FALSE
INVARIANTS
  SizesMatch
  ProducerAwake
  ConsumerAwake
  NotifierAwake
  AliveWhileUsed
  NothingStale
PROPERTIES
  ImplementsStream
  ConsumerServed
