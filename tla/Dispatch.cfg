SPECIFICATION FairSpec
CONSTANTS
  Clients = {c1, c2}
  Target = target
  NoClient = none
  Fns = {f1}
  WakeupFns = {TRUE, FALSE}
  MaxQueue = 3
INVARIANTS
  ExclusiveAccess
  NoLostWakeup
  RunItemOwned
  NotificationPending
  DestroySafe
PROPERTIES
  ImplementsMonitor
  RunReturns
