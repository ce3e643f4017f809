SPECIFICATION Spec
CONSTANTS
  Props = {p}
  Plain = {}
  Foreign = {p}
  Values = {v1, v2}
  None = None
  Cmds = {c}
  Abortable = {c}
  MaxEvents = 2
  Budgets <- SmallBudgets
INVARIANTS
  ValueNotStale
CHECK_DEADLOCK FALSE
