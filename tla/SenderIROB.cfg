SPECIFICATION Spec
CONSTANTS
    CSocks = {c1, c2}
    Single = Single
    MaxBytes = 4
    MaxChunk = 4
    MinChunk = 3
SYMMETRY Symmetry
INVARIANTS
    TypeOK
    ChunksTile
    PositionsOnBoundaries
    CopiesAgree
    EndsAgree
CHECK_DEADLOCK FALSE
