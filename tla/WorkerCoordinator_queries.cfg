SPECIFICATION FairSpec
CONSTANTS
    NoQuery = NoQuery
    WorkerCount = 2
    Chunks = {1, 2}
    Queries = {q1, q2}
INVARIANTS
    TypeOK
    EverySlotCounted
    NoCommandAbandoned
PROPERTIES
    ScansAreStable
    EveryQueryReturns
    DestructorReturns
