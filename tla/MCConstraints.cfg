CONSTANTS
    Tree <- Nodes
    Individual <- Roots
    Symbol <- Symbols
    SymbolOf <- NodeSymbol
    Children <- NodeChildren
    Subtrees <- NodeSubtrees
    Shape <- NodeShape
    Name <- Names
    Constraint = {"nested", "within", "isA", "either", "compared", "each", "some", "related",
                  "implied", "allA", "cannot", "both", "mixed", "less", "position", "sibling"}
    Kind <- Kinds
    Parts <- PartsOf
    Bound <- BoundVariable
    Search <- RangeOver
    Searches <- SearchedBy
    Outcome <- Value
    Goal = {"nested", "either", "implied", "both", "mixed"}
    Laziness = {TRUE, FALSE}
    CacheSize = 3
    MaxEvaluation = 2
SPECIFICATION Spec
INVARIANTS PerfectIsSatisfied CheckIsMeaning
CHECK_DEADLOCK FALSE
