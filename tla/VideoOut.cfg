SPECIFICATION FairSpec
CONSTANTS
  None = None
  Lead = 1
  MaxTime = 4
  Vsyncs = {0, 2}
  Budgets <- SmallBudgets
INVARIANTS
  RenderSafe
  PausedFrameDrawn
PROPERTIES
  NothingStale
  CoreServed
  CallsReturn
CHECK_DEADLOCK FALSE
