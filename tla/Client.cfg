SPECIFICATION FairSpec
CONSTANTS
  Props = {p, q}
  Plain = {q}
  Foreign = {p, q}
  Values = {v1, v2}
  None = None
  Cmds = {c, d}
  Abortable = {c}
  MaxEvents = 2
  Budgets <- SmallBudgets
INVARIANTS
  ReplyHasPlace
  NothingMissed
  ChangeOnItsWay
  AliveWhileUsed
PROPERTIES
  HookAfterChanges
  HookEnds
  DestroyReturns
CHECK_DEADLOCK FALSE
