SPECIFICATION FairSpec
CONSTANTS
    VerbosityNames = {"info", "loud"}
    ExitCodes = {0, 105}
    VectorCounts = {0, 3}
    WorkerCounts = {0, 3}
    ChunkSizesMb = {0, 1, 3, 4}
    Megabyte = 4
    VectorBytes = 2
    SizeModulus = 16
    HardwareConcurrency = 0
    DefaultWorkerCount = 2
    VariantCount = 2
    Dimensions = 2
    Seeds = {0, 1337}
    OwnSeed = 1337
    NoValue = NoValue
    NoCall = NoCall
    Job = Job
    NullInfo = NullInfo
    MaxDequeue = 2
    Chunks = {1, 2, 3}
    NumVectors = 5
    SlotsPerChunk = 2
INVARIANTS
    TypeOK
    ServerSucceeds
    ScansSeeVectors
    ExitZeroMeansDone
    SeedDeterminesVector
PROPERTIES
    ProgramEnds
