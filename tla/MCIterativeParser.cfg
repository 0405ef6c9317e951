CONSTANTS
    Selected = {"ambiguous", "optionals", "left", "counted", "early", "bits", "three",
                "ambiguousPrefix", "countedPrefix", "earlyPrefix", "longPrefix"}
    MaxLength = 4
    Use <- Uses
    Chunk <- Chunks
    LiteralText <- Texts
SPECIFICATION Spec
INVARIANTS ForestIsExact ContinuesExactly PrefixIsParsed
CHECK_DEADLOCK FALSE
