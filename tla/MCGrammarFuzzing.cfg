CONSTANTS
  Selected = {"nested", "late", "repeated", "counted"}
  Budgets = {0, 5, 8, 11, 14, 17, 20}
  Use <- Uses
  Terminal = {"a", "b"}
  MAX_REPETITIONS = 3
SPECIFICATION FairSpec
INVARIANTS TreeIsDerivation WithinBudget RepetitionsAreMarked
PROPERTY FuzzEnds
CHECK_DEADLOCK FALSE
