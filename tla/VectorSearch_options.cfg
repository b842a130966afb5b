SPECIFICATION Spec
CONSTANTS
    VectorCounts = {0, 1, 2, 3, 4, 5}
    ChunkSizes = {1, 2, 3}
    Scores <- FewScores
    Garbage <- FewGarbage
    NaN = NaN
    Repetitions = 2
    WorkerCount = 3
INVARIANTS
    TypeOK
    VectorsInPlace
    ResultsAreExpected
    NoMissingChunk
    ScanFindsExpected
    SelectionIsRight
    WorkerFindsExpected
    SlotsAreCounted
