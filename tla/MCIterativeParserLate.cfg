CONSTANTS
    Selected = {"late"}
    MaxLength = 4
    Use <- Uses
    Chunk <- Chunks
    LiteralText <- Texts
SPECIFICATION Spec
INVARIANTS ForestIsExact
CHECK_DEADLOCK FALSE
