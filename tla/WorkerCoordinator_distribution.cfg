SPECIFICATION Spec
CONSTANTS
    NoQuery = NoQuery
    WorkerCount = 2
    Chunks = {1, 2}
    Queries = {q1}
INVARIANTS
    EachChunkScannedOnce
