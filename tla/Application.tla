----------------------------- MODULE Application -----------------------------
(***************************************************************************)
(* The program around the engine: main (main.cpp) reads the command line,    *)
(* sets up logging, and runs either the server or the benchmark, of which    *)
(* this module has the frame (run_benchmark in benchmark.cpp); what its      *)
(* rounds do is the subject of VectorSearch.                                *)
(*                                                                         *)
(* Sizes are size_t, here modulo SizeModulus.                               *)
(***************************************************************************)
EXTENDS Naturals

CONSTANTS
    VerbosityNames,     \* the values given to --verbosity
    ExitCodes,          \* what app.exit returns: 0 for --help, others for errors
    VectorCounts,       \* the values of --vectors
    WorkerCounts,       \* the values of --workers
    ChunkSizesMb,       \* the values of --chunk-size
    Megabyte,           \* bytes, 2^20
    VectorBytes,        \* sizeof(float) * BENCHMARK_NUM_DIMENSIONS, 2^13
    SizeModulus,        \* 2^64
    HardwareConcurrency,    \* thread::hardware_concurrency(), 0 if not known
    DefaultWorkerCount,     \* 8 in the code
    VariantCount        \* the dot products of this build; naive and unrolled always are

ASSUME SizesAssumption ==
    /\ {Megabyte, VectorBytes, SizeModulus} \subseteq Nat \ {0}
    /\ Megabyte % VectorBytes = 0
    /\ SizeModulus % Megabyte = 0
ASSUME CountsAssumption ==
    /\ VectorCounts \union WorkerCounts \union ChunkSizesMb \union ExitCodes \subseteq Nat
    /\ HardwareConcurrency \in Nat
    /\ DefaultWorkerCount \in Nat \ {0}
    /\ VariantCount \in Nat \ {0}

LevelNames == {"trace", "debug", "info", "warn", "error"}

\* What follows the program's name: the subcommand with its options, or nothing.
BenchmarkOptions ==
    [parsed : {TRUE}, vectors : VectorCounts, workers : WorkerCounts, chunkSizeMb : ChunkSizesMb]
NoOptions == [parsed |-> FALSE, vectors |-> 0, workers |-> 0, chunkSizeMb |-> 0]

\* run_test_round, and run_test_round_worker with a worker and with a coordinator
Kinds == 3

VARIABLES
    main,           \* where the main thread is
    options,        \* benchmark->parsed(), num_vectors, num_workers and chunk_size_mb
    concurrency,    \* the number of workers, once it is known
    rounds,         \* how many rounds were run
    exitCode        \* what main returns

applicationVars == <<main, options, concurrency, rounds, exitCode>>

Places == {"parsing", "configuring", "choosing", "benchmark", "initializing", "rounds",
           "server", "exited", "terminated"}

ApplicationInit ==
    /\ main = "parsing"
    /\ options = NoOptions
    /\ concurrency = 0
    /\ rounds = 0
    /\ exitCode = 0

-----------------------------------------------------------------------------
(* main.                                                                     *)

Exit(code) == main' = "exited" /\ exitCode' = code

\* CLI11_PARSE prints an error or the help and returns.
RefuseCommandLine ==
    /\ main = "parsing"
    /\ \E code \in ExitCodes : Exit(code)
    /\ UNCHANGED <<options, concurrency, rounds>>

\* stringToLevel.at throws for a name it does not have, and CLI11_PARSE catches
\* only the errors of the parser.
ReadVerbosity(name) ==
    main' = IF name \in LevelNames THEN "configuring" ELSE "terminated"

ParseOptions ==
    /\ main = "parsing"
    /\ \E name \in VerbosityNames : ReadVerbosity(name)
    /\ options' \in BenchmarkOptions \union {NoOptions}
    /\ UNCHANGED <<concurrency, rounds, exitCode>>

\* configure_logging returns nothing when spdlog throws.
ConfigureLogging ==
    /\ main = "configuring"
    /\ \/ main' = "choosing" /\ UNCHANGED exitCode
       \/ Exit(1)
    /\ UNCHANGED <<options, concurrency, rounds>>

OrDefault(count) == IF count = 0 THEN DefaultWorkerCount ELSE count

\* The option, of which main makes none if it is 0, or what the hardware has.
StartBenchmark ==
    /\ main = "choosing"
    /\ options.parsed
    /\ main' = "benchmark"
    /\ concurrency' = OrDefault(IF options.workers > 0 THEN options.workers ELSE HardwareConcurrency)
    /\ UNCHANGED <<options, rounds, exitCode>>

\* run_server asks the hardware only.
StartServer ==
    /\ main = "choosing"
    /\ ~options.parsed
    /\ main' = "server"
    /\ concurrency' = OrDefault(HardwareConcurrency)
    /\ UNCHANGED <<options, rounds, exitCode>>

\* Mutant: the option is taken for bytes.
ChunkSizeInBytes(mb) == mb % SizeModulus

\* chunk_size_mb * 1024UL * 1024UL
ChunkSize(mb) == (mb * Megabyte) % SizeModulus

-----------------------------------------------------------------------------
(* run_benchmark.                                                            *)

\* A chunk that vectors do not fill is refused; main returns 0 all the same.
CheckChunkSize ==
    /\ main = "benchmark"
    /\ IF ChunkSize(options.chunkSizeMb) % VectorBytes # 0
       THEN Exit(0)
       ELSE main' = "initializing" /\ UNCHANGED exitCode
    /\ UNCHANGED <<options, concurrency, rounds>>

\* The vectors are written to the chunks, whose size the first of them asserts.
InitializeVectors ==
    /\ main = "initializing"
    /\ main' = IF options.vectors > 0 /\ ChunkSize(options.chunkSizeMb) < VectorBytes
               THEN "terminated" ELSE "rounds"
    /\ UNCHANGED <<options, concurrency, rounds, exitCode>>

\* Each variant is run by run_test_round, by a worker and by the coordinator.
\* run_test_round reads the first chunk, and throws when there is none.
RunRound ==
    /\ main = "rounds"
    /\ rounds < Kinds * VariantCount
    /\ IF rounds % Kinds = 0 /\ options.vectors = 0
       THEN main' = "terminated" /\ UNCHANGED rounds
       ELSE rounds' = rounds + 1 /\ UNCHANGED main
    /\ UNCHANGED <<options, concurrency, exitCode>>

FinishBenchmark ==
    /\ main = "rounds"
    /\ rounds = Kinds * VariantCount
    /\ Exit(0)
    /\ UNCHANGED <<options, concurrency, rounds>>

ApplicationStep ==
    \/ RefuseCommandLine \/ ParseOptions
    \/ ConfigureLogging
    \/ StartBenchmark \/ StartServer
    \/ CheckChunkSize \/ InitializeVectors
    \/ RunRound \/ FinishBenchmark

\* run_server comes back with the code that main returns.
ReturnFromServer(code) ==
    /\ main = "server"
    /\ Exit(code)
    /\ UNCHANGED <<options, concurrency, rounds>>

=============================================================================
