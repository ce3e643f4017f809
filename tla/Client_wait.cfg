SPECIFICATION Spec
CONSTANTS
  Props = {p}
  Plain = {}
  Foreign = {}
  Values = {v1, v2}
  None = None
  Cmds = {c}
  Abortable = {c}
  MaxEvents = 2
  Budgets <- SmallBudgets
INVARIANTS
  WaitsForRequests
CHECK_DEADLOCK FALSE
