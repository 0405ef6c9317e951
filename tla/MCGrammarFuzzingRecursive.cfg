CONSTANTS
  Selected = {"recursive"}
  Budgets = {6}
  Use <- Uses
  Terminal = {"a", "b"}
  MAX_REPETITIONS = 2
SPECIFICATION Spec
INVARIANT WithinBudget
CHECK_DEADLOCK FALSE
