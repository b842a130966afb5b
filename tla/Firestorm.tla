------------------------------ MODULE Firestorm ------------------------------
(***************************************************************************)
(* The server (run_server and generate_vectors in server.cpp), composed of   *)
(* the job coordinator, the worker thread coordinator, the chunk manager and *)
(* the vector generator, under the main of Application.                      *)
(*                                                                         *)
(* The main thread is the client of the only job: inside query the local     *)
(* executor runs worker_thread_coordinator::process on it.  The update       *)
(* thread and the worker threads run beside it.                              *)
(***************************************************************************)
EXTENDS Application, VectorGenerator, SequencesExt

CONSTANTS
    Job,            \* the query of the server
    NullInfo,       \* the nullptr of ~job_coordinator, and no command of a worker
    MaxDequeue,     \* max_dequeue_count
    Chunks,         \* the addresses chunks may have
    NumVectors,     \* BENCHMARK_NUM_VECTORS
    SlotsPerChunk   \* num_vectors_per_chunk

ASSUME ServerAssumption ==
    /\ NumVectors \in Nat
    /\ SlotsPerChunk \in Nat \ {0}
    /\ 0 \in Seeds
    /\ NullInfo # Job
    /\ MaxDequeue \in Nat \ {0}
    /\ Chunks \subseteq Nat \ {0}

VARIABLES
    server,         \* where run_server is
    managed,        \* chunks of the chunk_manager
    written,        \* per address, the slots that hold a vector
    remaining,      \* remaining_chunk_size
    vectorIdx,      \* j
    queryVector,    \* query_vector
    returnCode,     \* what run_server returns
    client, cursor, jobs, entries, slot, owed, addingComplete, alreadyProcessed, promise,
    outcome, signals, updater, batch, current, torn, toUpdate, shutdown, destructor, crash,
    chunks, alive, assigned, dealing, caller, workerCursor, results, reduced, inbox, worker,
    command, position, combined, answer, answered, destroying, quiet

serverVars == <<server, managed, written, remaining, vectorIdx, queryVector, returnCode>>
jobVars == <<client, cursor, jobs, entries, slot, owed, addingComplete, alreadyProcessed, promise,
             outcome, signals, updater, batch, current, torn, toUpdate, shutdown, destructor, crash>>
workVars == <<chunks, alive, assigned, dealing, caller, workerCursor, results, reduced, inbox,
              worker, command, position, combined, answer, answered, destroying, quiet>>
vars == <<applicationVars, serverVars, generatorVars, jobVars, workVars>>

\* One local executor: the job coordinator of the server has no other.
JC == INSTANCE JobCoordinator WITH
    Jobs <- {Job}, ExecutorCount <- 1, InstanceOf <- <<"this process">>, KindOf <- <<"local">>,
    DeferredAnswers <- {}, InsertMayThrow <- FALSE, CarriesResult <- {"succeeded"}

\* As many workers as the hardware has threads.
WC == INSTANCE WorkerCoordinator WITH
    WorkerCount <- OrDefault(HardwareConcurrency), Queries <- {Job}, NoQuery <- NullInfo,
    cursor <- workerCursor

ServerPlaces == {"absent", "generating", "assigning", "dealing", "filling", "drawing_query",
                 "querying", "waiting", "counting", "releasing", "stopping_jobs",
                 "stopping_workers", "returned"}

Init ==
    /\ ApplicationInit
    /\ GeneratorInit
    /\ JC!Init
    /\ WC!Init
    /\ server = "absent"
    /\ managed = <<>>
    /\ written = [c \in Chunks |-> 0]
    /\ remaining = 0
    /\ vectorIdx = 0
    /\ queryVector = <<>>
    /\ returnCode = 0

-----------------------------------------------------------------------------
(* generate_vectors.                                                         *)

\* The coordinators are constructed, which starts their threads.
Construct ==
    /\ main = "server"
    /\ server = "absent"
    /\ server' = "generating"
    /\ UNCHANGED <<applicationVars, managed, written, remaining, vectorIdx, queryVector, returnCode,
                   generatorVars, jobVars, workVars>>

\* A full chunk is followed by a new one, at whatever address the allocator has.
AllocateChunk ==
    /\ server = "generating"
    /\ vectorIdx < NumVectors
    /\ remaining = 0
    /\ \E c \in Chunks \ Range(managed) : managed' = Append(managed, c)
    /\ remaining' = SlotsPerChunk
    /\ server' = "assigning"
    /\ UNCHANGED <<applicationVars, written, vectorIdx, queryVector, returnCode, generatorVars,
                   jobVars, workVars>>

\* wtc->assign_chunk, from the registration ...
AssignChunk ==
    /\ server = "assigning"
    /\ WC!AssignChunk(Last(managed))
    /\ server' = "dealing"
    /\ UNCHANGED <<applicationVars, managed, written, remaining, vectorIdx, queryVector, returnCode,
                   generatorVars, jobVars>>

\* ... to the end of the redistribution.
DealChunks ==
    /\ server = "dealing"
    /\ WC!DealToNext
    /\ server' = IF dealing' = 0 THEN "generating" ELSE "dealing"
    /\ UNCHANGED <<applicationVars, managed, written, remaining, vectorIdx, queryVector, returnCode,
                   generatorVars, jobVars>>

\* Mutant: the room that is left in the chunk is not counted.
BeginVectorAnyway ==
    /\ server = "generating"
    /\ vectorIdx < NumVectors
    /\ managed # <<>>
    /\ BeginOwn
    /\ server' = "filling"
    /\ UNCHANGED <<applicationVars, managed, written, remaining, vectorIdx, queryVector, returnCode,
                   jobVars, workVars>>

\* vec_gen.fill_vector(a)
BeginVector ==
    /\ server = "generating"
    /\ vectorIdx < NumVectors
    /\ remaining > 0
    /\ remaining' = remaining - 1
    /\ BeginOwn
    /\ server' = "filling"
    /\ UNCHANGED <<applicationVars, managed, written, vectorIdx, queryVector, returnCode,
                   jobVars, workVars>>

Draw ==
    /\ server \in {"filling", "drawing_query"}
    /\ DrawElement
    /\ UNCHANGED <<applicationVars, serverVars, jobVars, workVars>>

EndVector ==
    /\ server = "filling"
    /\ Return
    /\ written' = [written EXCEPT ![Last(managed)] = @ + 1]
    /\ vectorIdx' = vectorIdx + 1
    /\ server' = "generating"
    /\ UNCHANGED <<applicationVars, managed, remaining, queryVector, returnCode, jobVars, workVars>>

\* Mutant: the loop over the vectors ends one too early.
BeginQueryVectorEarly ==
    /\ server = "generating"
    /\ vectorIdx + 1 >= NumVectors
    /\ BeginSeeded(0)
    /\ server' = "drawing_query"
    /\ UNCHANGED <<applicationVars, managed, written, remaining, vectorIdx, queryVector, returnCode,
                   jobVars, workVars>>

\* vec_gen.create_vector(0L)
BeginQueryVector ==
    /\ server = "generating"
    /\ vectorIdx = NumVectors
    /\ BeginSeeded(0)
    /\ server' = "drawing_query"
    /\ UNCHANGED <<applicationVars, managed, written, remaining, vectorIdx, queryVector, returnCode,
                   jobVars, workVars>>

EndQueryVector ==
    /\ server = "drawing_query"
    /\ Return
    /\ queryVector' = target
    /\ server' = "querying"
    /\ UNCHANGED <<applicationVars, managed, written, remaining, vectorIdx, returnCode,
                   jobVars, workVars>>

-----------------------------------------------------------------------------
(* The query.                                                                *)

\* local_executor_t::process has handed the callback to process, which calls it
\* when it is done.
ExecutorRuns == client[Job] = "dispatching" /\ caller[Job] # "done"

\* coordinator.query on the main thread, outside the executor ...
QueryStep ==
    /\ server = "querying"
    /\ ~ExecutorRuns
    /\ JC!ClientStep(Job)
    /\ server' = IF client'[Job] = "returned" THEN "waiting" ELSE "querying"
    /\ UNCHANGED <<applicationVars, managed, written, remaining, vectorIdx, queryVector, returnCode,
                   generatorVars, workVars>>

\* ... and inside it.
ExecutorStep ==
    /\ server = "querying"
    /\ ExecutorRuns
    /\ WC!Process(Job) \/ WC!CallerStep(Job)
    /\ UNCHANGED <<applicationVars, serverVars, generatorVars, jobVars>>

\* future.get() comes back with a job_result; another outcome than `succeeded',
\* or no result, ends the server with an error.
GetResult ==
    /\ server = "waiting"
    /\ promise[Job] = "value"
    /\ IF outcome[Job].completion = "succeeded" /\ outcome[Job].reduced # {}
       THEN server' = "counting" /\ UNCHANGED returnCode
       ELSE server' = "releasing" /\ returnCode' = 1
    /\ UNCHANGED <<applicationVars, managed, written, remaining, vectorIdx, queryVector,
                   generatorVars, jobVars, workVars>>

\* assert(results.size() == expected_num_vectors): both sides count slots.
CountResults ==
    /\ server = "counting"
    /\ IF Len(reduced[Job]) * SlotsPerChunk = Len(managed) * SlotsPerChunk
       THEN server' = "releasing" /\ UNCHANGED <<main, exitCode>>
       ELSE main' = "terminated" /\ UNCHANGED <<server, exitCode>>
    /\ UNCHANGED <<options, concurrency, rounds, managed, written, remaining, vectorIdx, queryVector,
                   returnCode, generatorVars, jobVars, workVars>>

-----------------------------------------------------------------------------
(* The locals of run_server are destroyed in the reverse of their order.     *)

\* The chunk manager goes first, and with it the chunks.
ReleaseChunk ==
    /\ server = "releasing"
    /\ managed # <<>>
    /\ WC!Expire(Head(managed))
    /\ managed' = Tail(managed)
    /\ UNCHANGED <<applicationVars, server, written, remaining, vectorIdx, queryVector, returnCode,
                   generatorVars, jobVars>>

\* ~job_coordinator
StopJobs ==
    /\ server \in {"releasing", "stopping_jobs"}
    /\ managed = <<>>
    /\ JC!StoreShutdown \/ JC!NotifyNull \/ JC!Join
    /\ server' = IF destructor' = "joined" THEN "stopping_workers" ELSE "stopping_jobs"
    /\ UNCHANGED <<applicationVars, managed, written, remaining, vectorIdx, queryVector, returnCode,
                   generatorVars, workVars>>

\* ~worker_thread_coordinator, when the local executor has let it go.
StopWorkers ==
    /\ server = "stopping_workers"
    /\ WC!DestroyNext
    /\ server' = IF destroying' > OrDefault(HardwareConcurrency) THEN "returned" ELSE server
    /\ UNCHANGED <<applicationVars, managed, written, remaining, vectorIdx, queryVector, returnCode,
                   generatorVars, jobVars>>

ReturnCode ==
    /\ server = "returned"
    /\ ReturnFromServer(returnCode)
    /\ UNCHANGED <<serverVars, generatorVars, jobVars, workVars>>

MainStep ==
    \/ ApplicationStep /\ UNCHANGED <<serverVars, generatorVars, jobVars, workVars>>
    \/ Construct
    \/ AllocateChunk \/ AssignChunk \/ DealChunks
    \/ BeginVector \/ Draw \/ EndVector
    \/ BeginQueryVector \/ EndQueryVector
    \/ QueryStep \/ ExecutorStep \/ GetResult \/ CountResults
    \/ ReleaseChunk \/ StopJobs \/ StopWorkers
    \/ ReturnCode

-----------------------------------------------------------------------------

HasThreads == server # "absent"

\* The update thread; its dequeue may time out.
UpdateThreadStep ==
    /\ HasThreads
    /\ JC!UpdaterStep
    /\ UNCHANGED <<applicationVars, serverVars, generatorVars, workVars>>

UpdateThreadTimeout ==
    /\ HasThreads
    /\ JC!DequeueTimeout
    /\ UNCHANGED <<applicationVars, serverVars, generatorVars, workVars>>

WorkerThreadStep(w) ==
    /\ HasThreads
    /\ WC!WorkerStep(w)
    /\ UNCHANGED <<applicationVars, serverVars, generatorVars, jobVars>>

HasEnded == main \in {"exited", "terminated"} \/ crash # "none"

Next ==
    \/ /\ ~HasEnded
       /\ \/ MainStep
          \/ UpdateThreadStep
          \/ UpdateThreadTimeout
          \/ \E w \in WC!Workers : WorkerThreadStep(w)
    \/ HasEnded /\ UNCHANGED vars

Spec == Init /\ [][Next]_vars

\* Every thread keeps running.  The timeout of the update thread is not needed.
Fairness ==
    /\ WF_vars(~HasEnded /\ MainStep)
    /\ WF_vars(~HasEnded /\ UpdateThreadStep)
    /\ \A w \in WC!Workers : WF_vars(~HasEnded /\ WorkerThreadStep(w))

FairSpec == Spec /\ Fairness

-----------------------------------------------------------------------------
(* Properties.                                                               *)

\* The counters of the main thread keep their ranges: a chunk is never written
\* past its end (the assertions in server.cpp:64-65), and no two chunks of the
\* chunk manager have the same address.
TypeOK ==
    /\ main \in Places
    /\ options \in BenchmarkOptions \union {NoOptions}
    /\ main \notin {"parsing", "configuring", "choosing", "exited", "terminated"} => concurrency > 0
    /\ rounds \in 0..(Kinds * VariantCount)
    /\ exitCode \in Nat
    /\ GeneratorTypeOK
    /\ server \in ServerPlaces
    /\ managed \in Seq(Chunks) /\ IsInjective(managed)
    /\ written \in [Chunks -> 0..SlotsPerChunk]
    /\ remaining \in 0..SlotsPerChunk
    /\ vectorIdx \in 0..NumVectors
    /\ queryVector \in Seq(Randoms)
    /\ returnCode \in {0, 1}

\* The server does what run_server expects: its only query succeeds, it gets
\* one result for each slot of each chunk (the assertion in server.cpp:131),
\* and no thread dies, up to the end of the destructors.
ServerSucceeds ==
    server # "absent" => main # "terminated" /\ returnCode = 0 /\ crash = "none"

\* How many vectors the i-th chunk gets: the last one may not be full.
VectorsOf(i) ==
    IF i * SlotsPerChunk <= NumVectors THEN SlotsPerChunk ELSE NumVectors - (i - 1) * SlotsPerChunk

\* generate_vectors hands a chunk to the workers before it writes it: that no
\* worker scans while there are vectors to write relies on the order of the
\* main thread alone.
ScansSeeVectors ==
    (\E w \in WC!Workers : worker[w] = "scanning") =>
        /\ server = "querying"
        /\ \A i \in DOMAIN managed : written[managed[i]] = VectorsOf(i)

\* An exit code of 0 means that the rounds of the benchmark were run, or that
\* the results of the server were counted, although main returns 0 when
\* run_benchmark refuses the size of the chunks: no size that main computes
\* from its option is refused.  --help also returns 0.
ExitZeroMeansDone ==
    main = "exited" /\ exitCode = 0 /\ concurrency > 0 =>
        IF options.parsed THEN rounds = Kinds * VariantCount
        ELSE caller[Job] = "done" /\ Len(reduced[Job]) = Len(chunks)

\* The program ends, whatever the threads are doing when the destructors join
\* them.
ProgramEnds == <>(main \in {"exited", "terminated"})

=============================================================================
