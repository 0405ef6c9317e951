CONSTANTS
    MaxHard = 5
    MaxRepetition = 2
SPECIFICATION Spec
INVARIANTS SatisfiedIsSolution
CHECK_DEADLOCK FALSE
