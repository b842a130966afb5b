SPECIFICATION Spec
CONSTANTS
    Dimensions = {32, 64}
    Rows = 2
    Contents <- SomeContents
    TinySquare = 2
INVARIANTS
    TypeOK
    ResultIsRight
    ScaledOnce
    AccessesInBounds
