CONSTANTS
    t1 = t1
    t2 = t2
    t3 = t3
    t4 = t4
    Individual = {t1, t2, t3, t4}
    Problem <- Problems
    Expected = 2
    NoFitness = NoFitness
    PopulationSize = 2
    EliteCount = 1
    SurvivorCount = 1
    AttemptsPerSlot = 1
    InitialRepetition = 2
    MaxRepetition = 4
    RepetitionRate = 50
    MaxNodes = 3
    NodeRate = 50
    MaxGeneration = 2
    MaxCall = 2
SPECIFICATION FairSpec
INVARIANTS YieldedOnce SolutionsAccounted EvaluationIsCurrent
PROPERTIES DroppedForReason SolutionsKept GenerationEnds
CHECK_DEADLOCK FALSE
