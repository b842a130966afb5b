# A TLA+ model of firestorm

firestorm is an in-memory vector search engine in C++17. A *query* becomes a *job*; the job
coordinator gives it to *executors*; the local executor passes it to the *worker threads*, each
of which maps a query over the memory chunks it was assigned; the partial results are reduced on
the way back and the caller finds them in a future. This directory holds TLA+ modules of that
machinery, TLC configurations that check them on small instances, and TLAPS proofs. Paths below
are relative to the root of the repository; `libfirestorm/` stands for `src/libfirestorm/`.

## Inventory

| Part | State | Operations | Talks to |
|---|---|---|---|
| job coordinator (`libfirestorm/src/job/job_coordinator.cpp`) | `_executors`, `_jobs`, `_shutdown`, `_mutex`, `_queue`, the update thread and its local `infos`, `trackers_to_update` | `query`, `update_thread`, destructor | creates trackers, reads the queue, calls `should_update`/`update` |
| job tracker (`job_tracker.h/.cpp`) | `_promise`, `_future`, `_executor_results`, `_adding_complete`, `_already_processed` | `process_on`, `complete_adding`, `should_update`, `update`, `fail_*`, destructor | hands a callback to each executor, notifies the queue |
| notification queue (`job_status_notification.h`) | a moodycamel `BlockingConcurrentQueue` of `job_info_t` pointers | `notify`, bulk dequeue with timeout | written by callbacks, `query` and the destructor; read by the update thread |
| job data (`include/firestorm/engine/job/`) | status, completion, result | constructors, accessors | carried by callbacks |
| executors (`include/firestorm/engine/executor/`) | instance, worker thread coordinator | `process(job, callback)` | local: synchronous call of the worker coordinator; remote: drops the callback |
| worker thread coordinator (`libfirestorm/src/worker/worker_thread_coordinator.cpp`) | `_workers`, `_chunks`, `_management_lock` | `assign_chunk`, `internal_redistribute_chunks`, `process`, destructor | fills the inboxes of the workers, waits for their promises |
| worker threads, workers (`worker_thread.h`, `worker_t.cpp`) | inbox, `_assigned_chunks`, `_shutdown` | `process_loop`, `query_vector_sync`, `accept` | take the read lock, set the promise of the command |
| map/reduce (`mapreduce/`) | collected scores | `map`, `combine`, `reduce`, `finish` | called by workers, `process` and the tracker |
| memory and types (`memory/`, `types/`) | chunks, chunk index | `allocate` | chunks are owned by the manager, workers hold weak pointers |
| vector operations (`vector_ops/`) | none | dot product, norm, normalisation | called by the mapper, the rounds and the generator of vectors |
| instance identifier, GUIDs | a GUID | comparison by address | key of `_executor_results` |
| cancellation (`libfirestorm-utils/src/cancellation_token_source.cpp`) | signal, tokens, callbacks, two locks | `cancel`, `create_token`, `register_callback`, `unregister_callback`; a timed source cancels itself on a detached thread | sources, tokens and callbacks call each other under locks; not used by the rest yet |
| synchronisation primitives (`libfirestorm-utils/include/firestorm/synchronization/`) | flag, mutex, condition variable | `wait`, `wait_for`, `wait_until`, `set`, `reset`, `notify_completed` | an `execution_completion_promise` may signal an `auto_reset_event`; `completion_signal_t` is a base class for others |
| program and server (`src/firestorm/src/main.cpp`, `server.cpp`) | options, the coordinators, chunks and the query vector as locals | reads options, runs server or benchmark; generates vectors, one query, checks and picks the scores, destroys its locals | owns one local executor, both coordinators, the chunk manager and a vector generator |
| benchmark (`src/libfirestorm-benchmark/`) | chunks, expected scores, results of a round; engine and distribution of the vector generator | three kinds of rounds per variant of the dot product; random vectors | calls the scan, a worker, and the worker coordinator |
| logging, thread support | | | output and platform calls |

What makes each part correct, and what is hard about it:

- **Job coordinator, tracker, queue.** A future is settled exactly once, only when every executor
  has answered, with a status that says what they answered; no notification is forgotten; the
  destructor returns. Hard: three kinds of threads touch a tracker without a common lock, the
  notification and the state it announces are stored separately, a null pointer serves as a wake-up
  call, and every exception inside a `noexcept` function ends the process.
- **Worker coordinator.** A query scans each registered chunk once, every query returns, the
  destructor loses no command. Hard: `process` reads the workers' chunk counts without the lock,
  chunks expire while they are registered, shutdown is noticed by timeout only.
- **Cancellation.** Every token and callback of a cancelled source is cancelled, once; a callback
  that was unregistered is not called; nobody waits for himself.
- **Events, promises.** No wake-up is lost, a signal releases one waiter, and a future that is
  returned is settled.
- **Program.** The server's query succeeds, nobody scans before the vectors are there, the query
  vector is the same in every run, the program ends, and exits with 0 only when its work is done.
- **Chunks, scores, vector operations, benchmark.** Every vector
  is compared once, at the right index.

`PROJECT.json` lists the hazards line by line, with the properties that cover them, or a note.

## Modules

| Module | What it is |
|---|---|
| `JobStatus` | completions, and how the answers of executors combine (`Outcome`) |
| `JobService` | abstract specification: what a caller of `job_coordinator::query` may rely on |
| `JobCoordinator` | coordinator, trackers, queue and executors in detail; refines `JobService` |
| `MCJobCoordinator` | the executors of the instances TLC checks |
| `JobCoordinator_proofs` | theorems about `JobCoordinator`, the refinement of `JobService` among them |
| `ChunkDistribution` | how `internal_redistribute_chunks` deals chunks (`Deal`) |
| `ChunkDistribution_proofs` | lemmas about the chunks that are dealt: how many they are, and that all are |
| `WorkerCoordinator` | worker coordinator, worker threads and workers |
| `WorkerCoordinator_proofs` | theorems about `WorkerCoordinator` |
| `Cancellation` | sources, tokens and callbacks used by several threads |
| `MCCancellation` | the sources, tokens and callbacks of the instances TLC checks |
| `Cancellation_proofs` | theorems about `Cancellation` |
| `CompletionSignal` | the waits and the notification of `completion_signal_t` |
| `Completion` | the auto-reset event, and the promises of the forms of `process` that return a future |
| `Completion_proofs` | theorems about `Completion` |
| `MapReduce` | what mappers, combiners and reducers hand to each other (operators) |
| `VectorSearch` | how vectors are stored in chunks, scanned by three kinds of rounds, and the best one selected |
| `MCVectorSearch` | the scores of the instance TLC checks |
| `VectorSearch_proofs` | theorems about `VectorSearch` |
| `VectorOps` | the loops of the dot products, norms and normalisations, lane by lane |
| `MCVectorOps` | the vectors of the instance TLC checks |
| `VectorOps_proofs` | theorems about `VectorOps` |
| `VectorGenerator` | the random vectors, drawn from engines that share a distribution |
| `Application` | `main`, and the frame of `run_benchmark` |
| `Firestorm` | `run_server`: `JobCoordinator`, `WorkerCoordinator` and `VectorGenerator` composed under `Application` |
| `Firestorm_proofs` | theorems about `VectorGenerator` by itself, that the composition implements its parts, and about what the server promises |

Composition: `Firestorm` EXTENDS `Application` and `VectorGenerator` and instantiates
`JobCoordinator` and `WorkerCoordinator`; `WorkerCoordinator` and `VectorSearch` use
`ChunkDistribution`, `VectorSearch` uses `MapReduce`, `JobCoordinator` uses `JobStatus` and is mapped
to `JobService`. A definition of the form `XyzLate`, `XyzSilently`, ... with a comment that begins with
*Mutant* is a plausible mistake in `Xyz`; with it in place of `Xyz` a property of `PROJECT.json`
fails. The specifications do not use these definitions.

### JobCoordinator

Job, `job_info_t` and tracker of one query are the same identifier: every query creates new
objects and `_jobs` compares keys by address. Threads are program counters: `client[j]` is the
thread inside `query`, `updater` the update thread, `destructor` the thread in `~Impl`. Each
action is one step between two accesses to state that another thread can see:

- `query`: `InsertJob` (or `InsertThrows`, `FutureAlreadyRetrieved`), then for every executor
  `BeginInsertResult`/`EndInsertResult` (the map is changed without a lock, so the change has a
  beginning and an end; an insertion that throws instead changes nothing and skips the executor,
  `InsertResultThrows`) and, by its kind, `ProcessLocally`+`AnnounceLocally`, `HandOver` or
  `DropCallback`; finally `StoreAddingComplete`, `AnnounceAddingComplete`.
- A *deferred* executor calls back from a thread of its own: `DeferredAnswer` (set the value),
  `DeferredAnnounce` (notify). The repository has no such executor yet, but `executor_t::process`
  takes a callback for this purpose. *Remote* is `remote_executor_t` as it is: it drops the
  callback. *Local* is `local_executor_t`, which returns after having called back with success.
- Update thread: `Dequeue`/`DequeueTimeout`, `CheckShutdown`, per dequeued info `LookUp` and
  `EndTest` (or, if the map changed meanwhile, `EndTornTest` and `TornIterator`), `Unlock`, per
  tracker one of `UpdateReturnsEarly`, `UpdatePublishes`, `UpdateTerminates`, then `FinishUpdates`
  and `LoopCondition`.
- Destructor: `StoreShutdown`, `NotifyNull`, `Join` (which also destroys the trackers).

The queue is a bag: moodycamel queues keep no order between producers. The entries of `infos` are
looked at in any order for the same reason. `_dequeue_timeout` is declared after the thread that
reads it, so its value may be anything; `DequeueTimeout` may therefore happen at any time with an
empty queue, and no property needs it. A data race on `_executor_results` is undefined behaviour:
`should_update` may then return anything or crash. All ways to die are values of `crash`.

`InsertMayThrow` lets the two insertions throw that the code has handlers for, into `_jobs` and into
`_executor_results`. Memory that runs out elsewhere, as for the promise and the callback in
`job_tracker.cpp:14-20`, ends the process at once, since these functions are `noexcept`, and is left out.

### JobService

`Submit`, `Refuse`, `Answer`, `Skip`, `Resolve`, `Close`: a job is settled at most once, with `Outcome` of
the answers of **all** executors that were asked, and is abandoned if the service closes first. `Skip` is what
the code makes of an insertion that throws: an executor that is not asked, of which the caller is not told. `ServiceSpec` maps
`JobCoordinator` to it: `stage` is computed from the program counter and the promise, `answer`
from the promises of the executors, and every step of the queue, of the update thread before
publication and of the destructor before `Join` is a stutter.

### WorkerCoordinator

`assign_chunk` is `AssignChunk` (register, drop expired chunks, unassign all) followed under the
same lock by one `DealToNext` per worker; `dealing` is the progress of the writer. `process` is
`Process`, per worker `SkipWorker` or `EnqueueCommand`, then `StartGathering`, `ReduceNext` per
future, `Finish`. Its read of `num_chunks` takes no lock: while a writer is dealing it races, and
both answers are possible (`MayLookEmpty`, `MayLookLoaded`). A worker thread is `DequeueCommand`,
`BeginScan` (takes the read lock), `ScanChunk` per chunk, `EndScan` (sets the promise, releases the
lock), `ExitAfterTimeout`. `DestroyNext` tells one worker thread after the other to stop and joins
it. `Expire` is the owner of a chunk releasing it at any time. `quiet[q]` is a history variable:
no chunk was assigned or released since query `q` began. A chunk is its address and a result is the
chunk it stems from, since the mapper gives one score per slot of a chunk.

Left out: `add_worker` after construction (no caller), a second registration of the same chunk (no
caller), the outbox (never written), the comparator of the sort seeing a chunk expire midway.

### Cancellation

A call on a source or token is a stack of *frames*: `cancel` of a source calls `cancel` of its
tokens, which call their callbacks, and the callback of a source that was constructed from a token
(a *linked* source) is `cancel` of that source. A frame is the place in the function, its object,
and what the loop has left. `CallStep(t)` is the innermost frame going on, `UserStep(t)` a new
call. Each atomic exchange, each acquisition of a lock and each callback is a step of its own.

- `Impl::cancel`: `ExchangeSource`, `LockSource` (a reader of the lock), `CancelNextToken`,
  `UnlockSource`, `EraseExpired` (a writer). `cancellation_token_impl::cancel`: `ExchangeToken`,
  `LockToken` (held during all callbacks), `CallUserCallback`/`CallLinkedSource`, `ClearCallbacks`.
- `create_token`: `CreateToken` (reads the signal), `RegisterToken`, `Recheck`, `ReturnToken`.
- `register_callback`: `RegisterCallback`, then `CallAtOnce` or `FindNotCanceled` and, under the
  lock, `InsertCallback`. A linked source does the same from `LinkSource` to `FinishLink`.
- A callback and the `callback_token` it was registered with are one identifier; `handle` is the life of
  the latter. `UnregisterCallback` takes it by reference, `ReleaseHandle` by rvalue (where the code
  calls `release`, so that the callback stays and the object leaks), `DestroyHandle` is its destructor.
- `DropToken` and `DestroySource` are destructions by the users, as the types allow them:
  a token goes when neither a linked source nor a `callback_token`, which holds its address, is
  left; a source goes while no user is inside a call on it. Its callbacks may be running on another thread:
  the destructor of a linked source has to wait for them.

- A source that is constructed with a time has a detached thread that sleeps and then cancels it:
  `TimeUp`. That thread is a runner of its own, with the source's name, and keeps the address of the source,
  whose owner therefore has to keep it where it is: the model destroys no timed source before its
  thread is done. Nothing in the code waits for that thread. A time that is in the past is
  not cancelled at once (the `TODO` in `cancellation_token_source.h:31`), but by that thread too.

The user's callbacks do not call into the library. One that did, on the token that calls it, would
wait for a lock its own thread holds (the reader-writer lock is not recursive).

### Completion and CompletionSignal

`auto_reset_event` does everything under its mutex, so a member is one step, and a wait one step
for each time it holds the mutex: `Wait` takes the signal (`TakeSignal`) or blocks (`WaitForSignal`), `WakeUp`
and `TimeOut` do the same again for threads that were notified, woken for no reason
(`WakeSpuriously`) or whose time is up. A call of `process` that returns a future is
`CreatePromise`, `Execute`, then `SetValue` and `SignalEvent` or, for the promises in `Silent`, `DropCallback`,
and `ReturnFuture`; several of them may share an event, whose initial state is the argument of its constructor
(`initial`). The promise lives on the stack of `process`, and its callback captures its address; as
`process` of the worker coordinator runs the callback before it returns, and `remote_executor_t` destroys
it without running it, there is no step for a callback that comes late. In the second case the future that
is returned is in `broken`: `get` throws. The `TODO` in `worker_thread_coordinator.cpp:76`, to return a future at
that point, would need a promise that outlives the call. Outside the tests nothing in the repository waits on an event yet.

`completion_signal_t` takes no lock when it notifies: `StoreCompleted` and `NotifyAll` are two steps
of the notifier, and a waiter tests the predicate (`TestFails`) and blocks (`Block`) in two steps
under a lock that the notifier does not take.

### Application, VectorGenerator and Firestorm

`Application` is the main thread up to the point where server or benchmark take over: what the
options may be, the ways to die (a name of a verbosity that is not known is thrown out of `main` by
`stringToLevel.at`, `option_verbosity.cpp:34`; a chunk that is too small for a vector fails an
assertion; with no vectors the first round throws), the
failures that end with an exit code, and the size of a chunk, multiplied modulo `SizeModulus`.
`VectorGenerator` has one `std::normal_distribution`, which makes two values at a time and saves the
second, for the generator's own engine and for those that are made for a seed.

`Firestorm` is the server. Its main thread is a program counter (`server`) with the locals of
`generate_vectors` and `run_server`; `QueryStep` is the client of `JobCoordinator`, and while the local
executor has the job (`ExecutorRuns`), `ExecutorStep` is the caller of `process` in `WorkerCoordinator`.
`AssignChunk`/`DealChunks`, `ReleaseChunk`, `StopJobs` and `StopWorkers` are the operations of the
parts at the places where the server calls them, the last three being the destructors of its
locals in the reverse of their order. The update thread and the worker threads run beside it
from `Construct` on.

### VectorSearch

The data path of the benchmark, one action per iteration of its loops. `AllocateChunk`
and `FillVector` initialise the chunks (`generate_vectors` of the server has the same loop);
`BeginRound`, `NextChunk`, `ScanVector`, `EndRound` are `run_test_round`, with `get_ro` in
`ReadChunk`; `BeginWorkerRound`, `AcceptChunk`, `EndWorkerRound` are `run_test_round_worker` with
`worker_t::accept`, `dot_product_mapper::map` (`Map`) and the combiner. `BeginWorkersRound`,
`GatherWorker`, `EndWorkersRound` are `run_test_round_worker` with a coordinator, whose workers were
dealt the chunks in the order of their addresses (`byAddress`, any order); they combine
(`CombineResult`), and `process` reduces what they return, in the order of the workers, so that
what runs concurrently in `WorkerCoordinator` is sequential here. `SelectBest` and
`SelectWorst` are the loops over all scores in the rounds and in the server, and `CombineResult` the one
over the results of the workers, as recursive functions of the number of iterations. A vector is
its score against the query, sizes are counted in vectors, and the slots of a chunk that were not
written hold anything, not-a-number included. `expected` and `result` are arrays of the code.

Vectors are numbered over all chunks by `run_test_round` and by the expected best match, and
within a chunk by the mapper, although both are stored in an `index_t`; `ScanFindsExpected` and
`WorkerFindsExpected` say how the two relate. They also show that a scan reports a score of 0 at
0.0 when no score is positive, and a worker does not. With no vectors at all (`--vectors 0`) the
first `get_ro` throws; `NoMissingChunk` says that this is the only case.

### VectorOps

One call of an operation on vectors, one action per iteration of its loop: `AddScalars` and
`AddLanes` are the summations of the variants, `Scale` the second loop of `vec_normalize`, the other
actions the returns between and after them. `Summation` says which loop a function runs, as the norm
of the naive variant and the normalisations of the naive and OpenMP variants call
`dot_product_unrolled_8`. `lanes` is the register `total`; `DotProductOfLanes` is the instruction
behind `_mm_dp_ps`, external to the repository, and `Total` takes `ptr[0]` or `ptr[0] + ptr[5]`.
`Sum` (a recursive function) and `SumOfProducts` say what is to come out. Elements are integers, so the order of additions, and what an OpenMP reduction does to it, plays no
role. A norm is kept as its square, and an element that was multiplied by the inverse of the norm is
counted in `scaled`. The vector is one of several in a chunk, with memory behind the chunk, so that
reading or writing past its end shows. Prefetching changes nothing and is left out. The dimensions
are multiples of 32, which `test_round.cpp:58` asserts at compile time; for others all loops except
the plain ones would run past the end, the one in `vec_normalize_naive` included.

## Runs

| Run | Instance | Shows |
|---|---|---|
| `server` | options that select the server, the benchmark or neither; 5 vectors, 2 per chunk, of 2 dimensions; 2 worker threads; fairness | the query succeeds and counts all slots, no scan before the vectors are written, exit code 0 only when done, the query vector is that of seed 0, the program ends |
| `executors` | local + deferred executor, 2 queries, fairness | no notification lost, no exception out of a `noexcept` function, success means all answers, refinement of `JobService`, every query is answered |
| `faults` | local + remote executor, insertions of jobs and results may throw, 2 queries | the refinement holds: what callers see is allowed until the process dies of a broken promise, and a job whose executor was skipped has the outcome of the others |
| `torn_read` | local + deferred, 1 query | **violation**: `should_update` reads the map while it is changed |
| `worker_queries` | 2 workers, 2 chunks, 2 queries, fairness | slots counted, stable iteration, no abandoned command, queries and destructor return |
| `worker_distribution` | 2 workers, 2 chunks, 1 query | **violation**: the first chunk is dealt to both workers |
| `cancellation` | 2 threads and a timer; a timed source, its token with a callback, a source linked to that token, its token; fairness | cancellation reaches every token, callbacks run at most once and not after unregistration, no destroyed source is cancelled, calls return, the time cancels every token |
| `late_callback` | 2 threads, 1 source, 1 token, 1 callback | **violation**: a callback registered during `cancel` is never called |
| `completion` | 4 promises, 3 with the event, 2 of executors that never call back; 2 waiters, 1 timed; the event created set or unset; fairness | a future that is returned is settled, and broken only if nobody called back; no more waits return than results were announced, plus one if the event was set; no signal is slept through |
| `lost_wakeup` | 1 waiter, 1 timed waiter, fairness | **violation**: a wait does not return although `notify_completed` was called |
| `vector_search` | 0 to 5 vectors, 1 to 3 per chunk, 3 scores, 2 repetitions, 3 workers | vectors stored, scanned, selected and counted at their places |
| `vector_ops` | all functions and variants, 32 and 64 dimensions, 2 vectors in a chunk, 5 contents | results as defined, elements scaled once, accesses in bounds and aligned |

Bounds. Two queries are enough for one to be updated while another is inserted, dispatched or
answered, and for both to be in one batch; trackers of different jobs share only the queue, the
lock and the update thread. Two executors are the least for which a prefix of the executors can be
ready, and the local one runs before the deferred one, so that a notification exists while the
second is being inserted. `MaxDequeue` is 2 instead of 16: both a batch that leaves notifications
in the queue and one that holds several, a repeated one among them, occur. Nothing else is
bounded; the number of notifications is limited by the actions that send them. For the workers,
two queries queue in one inbox and overlap in every phase; two chunks on two workers give no, one
and two chunks to deal, that is an empty share with a remainder and a share without one. Every
race of the cancellation is between a thread that cancels and one that creates, registers or
destroys, hence two threads; the second source is the shortest chain in which cancelling a token
cancels a source under the lock of the token. Every object is created once, and a callback registered once.
For the vectors, the sizes include a single chunk, several, full ones, a last one that is partly
filled and chunks of one vector; the scores include equal ones, only negative ones and garbage better
than all of them; two repetitions suffice to see what a round leaves behind.
Three workers deal with 0 to 5 chunks with an empty share, equal shares and a remainder, and some
chunk is left out. For the event, two promises that signal and three waiters let a signal wake more threads than
it may release, and two signals fall together, also with the one the event may be created with; one call
with and one without the event is never answered.
The server has 5 vectors in chunks of 2, so that the last chunk is not full, and three chunks on two
workers leave a remainder. Its two worker threads are `DefaultWorkerCount`, as the hardware reports
nothing; that all others of the 8 do the same is what `WorkerCoordinator` is about. Sizes are scaled:
a megabyte is two vectors of two bytes and sizes are modulo 16, so that a product wraps
around (4 megabytes make 0 bytes) and a chunk of 0 bytes occurs. The dimensions are 2, an even number like 2048.
For the operations on vectors, 32 and 64 dimensions make one and two iterations of the widest loop;
the contents tell all lanes apart, cancel out, lie on the last element only, are zero in one vector
or about zero, and fill the neighbouring vector.

Fairness. Weak fairness of each thread: an operating system schedules all threads, and a step that
stays possible happens. For the update thread only a dequeue that finds something is fair, the
timeout is not. Deferred executors are assumed to call back (`DeferredStep` is fair); submitting a
job, assigning or releasing a chunk and starting a destructor are not fair. For the workers the
timeout of the dequeue is part of a fair step, as the code relies on it for shutdown, and a writer
finishes dealing. Writers cannot starve readers in the model since each chunk is assigned once.
For the cancellation a thread goes on with the call it is in (`CallStep`); beginning a call, and
destroying anything, are not fair; the end of a sleep is (`TimeUp`). For the event, a notified thread
gets the mutex (`WakeUp`), and for the signal everyone goes on with what he has begun. In the server
every thread is fair as a whole, and no timeout of the update thread is needed.

The environment is assumed to obey C++: no thread is inside `query`/`process` when the destructor
starts. Callbacks of deferred executors may be pending then, and the model shows that they reach a
destroyed tracker (`dangling_tracker`).

## Findings

1. `_executor_results` is read by the update thread and written by `query` without a common lock
   (`job_tracker.cpp:23` and `:36`). It cannot happen with the single local executor of the server,
   as the run `server` shows: its only insertion precedes its only notification.
2. `_chunks[c]` in `worker_thread_coordinator.cpp:148` misses the offset of the worker, so each
   worker scans the same first chunks. The number of results is still right, which is all that the
   assertion in `server.cpp:131` sees (`EverySlotCounted` holds).
3. `register_callback` looks at the signal before it takes the lock (`cancellation_token_source.cpp:89`):
   when a `cancel` runs in between, the callback is inserted into a list nobody reads any more.
4. `completion_signal_t::notify_completed` notifies without the mutex of the waiters
   (`completion_signal_t.h:59`): one that has just found the flag unset sleeps for ever.

Further observations, which no run of its own is about:

- An executor that drops its callback, as `remote_executor_t` does, ends the process: `update` is
  `noexcept` and calls `get` on a broken promise (`job_tracker.cpp:52`). The run `faults` has such an
  executor; `NeverTerminates` and its theorem are stated for executors that call back. (In a debug build a
  `remote_executor_t` cannot even be constructed: `remote_executor_t.h:20` dereferences the argument
  it has moved from.)
- When the insertion into `_executor_results` throws (`job_tracker.cpp:25-29`), the executor is not asked,
  and the exception goes to a promise that nobody else holds. The job goes on with the other executors
  and is published as `succeeded` if they have succeeded, although `job_status_t.h:19` has `succeeded_partially`
  for this ("Some, but not all of the executors returned results.") and `job_tracker.cpp:110` says "If we have
  partial results, the outcome cannot be successful." The run `faults` and the theorems include this;
  `SucceededMeansAll` is false then, and what remains of it is `AskedSucceeded`.
- `executor_t::process(job)` of a `remote_executor_t` returns a future whose promise is broken
  (`remote_executor_t.h:27`, `executor_t.h:51`); `TypeOK` of `Completion` says that this is the only case.
- Two executors of one instance share a key of `_executor_results`; the second result is lost and
  the job is still `succeeded` (`job_tracker.cpp:23`). `SucceededMeansAll` needs
  `DistinctInstances`, and no run has such executors.
- The `TODO` in `job_tracker.cpp:101` ("An invalid cast is going on here") is out of date: a reducer casts
  combine and reduce results alike (`typed_reducer_t.h`, `Reduce` in `MapReduce`).
- `--verbosity error` sets the level `critical` (`option_verbosity.cpp:18`); a chunk size that is
  refused is an error in the log and an exit code of 0 (`ExitZeroMeansDone` holds since no size in whole
  megabytes is refused).
- With an odd number of dimensions the vector of a seed would depend on what was generated before
  (`vector_generator.cpp:53`).
- `executor_t::process(job)` of an executor that defers its answer would leave a callback with the
  address of a destroyed promise (`execution_completion_promise.h:31`).

## Proofs

Every invariant and every action property that a passing run checks is also a theorem. The theorems
hold for every value of the constants that satisfies the named assumptions, which are about:

- `JobCoordinator`: some finite number of executors of any kinds, any set of jobs, any positive dequeue
  bound (`ConstantsAssumption`), and how statuses combine (`CarriesResultAssumption`);
- `WorkerCoordinator`: any positive number of workers (`WorkerCountAssumption`), any set of chunks and of
  queries (`ChunksAssumption`: chunks are addresses, so never 0; `NoQueryAssumption`);
- `Cancellation`: any threads, sources, tokens and callbacks of different names (`KindsAssumption`,
  `NobodyAssumption`), linked and timed in any way (`LinksAssumption`, `TimedAssumption`: a source has only one
  constructor; `SourceOfAssumption`, `TokenOfAssumption`);
- `VectorSearch`: any numbers of vectors and any positive sizes of chunks (`VectorCountsAssumption`,
  `ChunkSizesAssumption`), any integers as scores, anything in slots that were not written
  (`ScoresAssumption`, `GarbageAssumption`), any positive number of repetitions and of workers
  (`RepetitionsAssumption`, `WorkerCountAssumption`);
- `VectorOps`: any multiples of 32 as dimensions, any integers as elements, any number of vectors in a
  chunk (`DimensionsAssumption`, `ContentsAssumption`, `RowsAssumption`; `TinySquareAssumption`: a norm that is
  refused is positive);
- `VectorGenerator`: any positive number of dimensions, any seeds (`DimensionsAssumption`,
  `SeedsAssumption`, `NoValueAssumption`, `NoCallAssumption`);
- `Completion`: any finite set of promises, with or without the event, answered or not (`PromisesAssumption`), any
  waiters (`WaitersAssumption`), either initial state;
- `Application` and `Firestorm`: any number of vectors and of chunks, any positive number of vectors in a
  chunk (`SizesAssumption`, `CountsAssumption`, `ServerAssumption`), with the assumptions of the parts.

| Theorem | States | Rests on |
|---|---|---|
| **JobCoordinator** | | |
| `TypeCorrect` | `[]TypeOK` | one step per action; `NextExecutor` stays in range by the cursor |
| `NullSafety` | `[]NullNeverLookedUp`, which `ServerSucceeds` contains for the server | `ShutdownInv`: a null in the queue or in a batch implies `shutdown`, and past `CheckShutdown` a batch holds none |
| `NotificationsKept` | `[]NoLostNotification` | `NotificationInv` with `CursorInv`: which steps a query has behind it, hence that its last notification comes after its last answer |
| `SucceededIsComplete` | `DistinctInstances`: `[]AskedSucceeded`, and `[]SucceededMeansAll` if no insertion throws | `ResultInv`: after `complete_adding` all executors that were asked are in the map, the others were skipped by an insertion that threw, and a published outcome is that of final answers |
| `Terminationless` | `NoFaults`: `[]NeverTerminates` | `FaultInv`: no executor's promise is broken; `LifeInv`: a promise that has a value belongs to a tracker that is already processed |
| `Refinement` | `DistinctInstances`: `Spec => ServiceSpec`, silent executors and insertions that throw included | the invariants above; initial states map to initial states, each action to a `JobService` action or a stutter |
| **WorkerCoordinator** | | |
| `TypesCorrect` | `[]TypeOK` | `CommandTypes` and `DataTypes`; what `WithoutExpired`, the sort and `Deal` return are sequences of chunks (`DealIsIn`) |
| `IterationStable` | `ScansAreStable` | `LockInv`: nobody deals while somebody scans; `OnlyAssigningDeals`: nothing else changes whose the chunks are |
| `CommandsServed` | `[]NoCommandAbandoned` | `CommandInv`: a command exists once, and only while its query is running and still has the future of that worker |
| `SlotsCounted` | `[]EverySlotCounted` | `CountInv`: what has been reduced, answered and scanned for an undisturbed query has the length of what was dealt, with `ShareInv`, `IdleInv` and the lemma `DealtNext`: the dealt shares add up |
| **Cancellation** | | |
| `TypesCorrect` | `[]TypeOK`, no callback called twice included | `IInv`, below |
| `LinkedSourcesAlive` | `[]LinkedSourceAlive` | `IInv`: `SourceInv`, by `HandleInv` and `LockInv` |
| `UnregisteredNotCalled` | `NoCallAfterUnregister` | `IInv`: what is about to be called is registered (`LockInv`) and has a handle (`HandleInv`) |
| `CancelReachesEveryToken` | `[]CancelReachesTokens` | `IInv`: `ReachInv` |
| **VectorSearch** | | |
| `StoredInPlace` | `[]VectorsInPlace` | `PlacesInv`: while the chunks are filled `vectorIdx + remaining` is the number of slots there are |
| `ScannedInPlace` | `[]ResultsAreExpected` | `PlacesInv`: during a round it is the number of slots up to the end of the current chunk |
| `ChunksSuffice` | `[]NoMissingChunk` | `PlacesInv`: the slots suffice for all vectors once the chunks are filled |
| `TypesCorrect` | `[]TypeOK` | `TypesInv`: ranges of the locals, the order by address, the types of what is found |
| `SelectionsRight` | `[]SelectionIsRight` | `LoopFindsFirst`: a loop that keeps the first element no other beats, by induction on its iterations |
| `SlotsCounted` | `[]SlotsAreCounted` | `RoundsInv`: `Counted` says how many slots there were up to here, `CollectedInv` that what is collected keeps all scores of the chunks so far (`KeepsAll`) |
| `ScansFindExpected` | `[]ScanFindsExpected` | `BestInv`: the best so far is the first best of the vectors so far, and the first best is unique |
| `WorkersFindExpected` | `[]WorkerFindsExpected` | `RoundsInv`, `BestInv`: when no slot is free the scores that were kept are those of the vectors |
| **VectorOps** | | |
| `TypesCorrect` | `[]TypeOK` | `LoopInv`, below |
| `InBounds` | `[]AccessesInBounds` | `StrideInv`: a counter is a multiple of the stride of its loop, and `vec_normalize` has no variant with 8 elements |
| `ResultsRight` | `[]ResultIsRight` | `SumInv`: the total of the lanes is the sum of the products so far (`SumSplits`, by induction) |
| `EachScaledOnce` | `[]ScaledOnce` | `ScaleInv`: the elements below the counter are scaled, in the own vector only |
| **Completion** | | |
| `FuturesAreSettled` | `[]TypeOK` | `ReadyInv`: `ready` are the promises past `SetValue`, `broken` the silent ones whose `process` has returned |
| `SignalsHaveResults` | `[]WaitersSeeResults` | `SignalsInv`: the signals are at most the promises of `Signalling` that have signalled, plus the one the event was created with |
| **Firestorm** | | |
| `SeededVectors` | `GeneratorSpec => []SeedDeterminesVector` | `SavedInv`: between calls of an even number of elements nothing is saved; `SeededInv`: a seeded call has drawn a prefix of `FirstValues` |
| `QueryIsReproducible` | `[]SeedDeterminesVector` of the server | `GeneratorSteps`, and `SeededVectors` |
| `ServerUsesJobs`, `ServerUsesWorkers` | `Spec => JC!Spec`, `Spec => WC!Spec` | each step of the server is one of that part or leaves it alone; `ManagedInv`: the chunk that is assigned is there |
| `TypesCorrect` | `[]TypeOK` | `ServerInv`, below |
| `ServerDoesItsJob` | `[]ServerSucceeds` | `SuccessInv`, by `QueryInv` and `ResultsInv` |
| `VectorsBeforeScans` | `[]ScansSeeVectors` | `BusyInv` and `CommandInv` of the workers: a scan belongs to the query of the server, which is called when all is written (`FilledInv`) |
| `ZeroMeansDone` | `[]ExitZeroMeansDone` | `MainInv`: what has been done where `main` is, and that no size in whole megabytes is refused |

(Where the left side of the implication is not given it is `Spec`.)

### The inductive invariants

None of the safety properties is inductive by itself.

*JobCoordinator.* `NoLostNotification`, for instance, can only be kept by the next step if the batch is
used up before a dequeue overwrites it, if a job that was submitted is found in `_jobs`, and if a
tracker that is already processed has settled its future; `NotificationInv` adds these. The steps that
make the last answer appear (`AnnounceLocally`, `DeferredAnnounce`, `AnnounceAddingComplete`) put the
notification into the queue themselves, which is why the store has to precede the notification in
each of them.

*WorkerCoordinator.* `NoCommandAbandoned` needs `CommandInv` to tie each command to the query that
waits for it, since the destructor only knows that no query is running. `EverySlotCounted` is about the
end of a query, and `CountInv` about its whole way: for each place a share can be in (chunks of the
worker, combined scores, answer, reduced results) how long it is. `IdleInv` says that
a call that has not begun has collected nothing.

*Cancellation.* A call is a frame on the stack of its thread, and a `cancel` that calls the callback of a
linked source nests another `cancel` in it. `IInv` is the conjunction of ten parts, about the frames by
their depth: `NestInv` (which call may be made from which), `WaitingInv`, `CreateInv` and `RegisterInv` (a
token is created, and a callback registered, by one thread), `LockInv` (the lock of a token is held, once,
by the thread that calls its callbacks, and these stay in the list meanwhile), `HandleInv` (what is
registered has a handle, and a linked source that is registered is alive), `SourceInv` (calls are about
sources that are alive), `CallsInv` and `ReachInv` (a token that its cancelled source has not reached is
on somebody's list), with the types of the objects. `LinkedSourceAlive` is where they meet: the
destructor of a linked source has to unregister, for that it needs the lock, and the lock is held for
as long as a nested `cancel` works on the source. The lemmas about `Moved`, `Continued`, `Called` and
`Returned` say once what a step does to the frames of its thread.

*VectorSearch.* Its loops count in two ways at once, the vectors done and the slots left in a chunk;
`PlacesInv` relates the two, and the lemma `PlacesAreDistinct` (a number has one chunk and one slot)
keeps a store from hitting the place of another vector. `TypesInv`, `RoundsInv` and `BestInv` are
inductive together with those before them. `CollectedInv` says of the workers of a coordinator that
what was gathered from the first `w` keeps the scores of exactly the chunks dealt to these, so that at
the end it keeps those of all chunks, whatever their order by address.

*VectorOps.* `LoopInv` is `StrideInv` (where a counter may be), `TypeOK`, `SumInv` and `ScaleInv` (what was
done up to the counter).

*Firestorm.* Nothing that is known of a part is proved again: `ServerUsesJobs` and `ServerUsesWorkers`
make the server a client as their specifications allow, and the invariants of
`JobCoordinator_proofs` and `WorkerCoordinator_proofs` hold in it (`JobFacts`, `WorkFacts`; `SameJobs` and
`SameWorkers` identify the definitions of the two instances of each part). `ServerInv` adds what only the
composition knows: `MainInv` (`main` and its options), `ChunksInv` (the chunks are full but for the last, while
and after they are filled), `QueryInv` (the one executor answers inside `query`, before anybody is
notified), `ManagedInv`, `ResultsInv` (nothing is assigned or released while the query runs, so that
`EverySlotCounted` of the workers applies), `BusyInv` and `SuccessInv`.

### Loops and sums

Loops over all results and sums over elements are recursive functions of the number of iterations, and
what they compute is proved by induction. The lemma `Induction` says that a set of natural numbers
that contains 0 and the successor of each of its members contains all of them; it follows from
`NatLessThanWellFounded` and `WFMin` of the library, and is about a set and not about an operator,
which the provers could not instantiate. `LoopExists` (`TotalExists` for sums) then shows that such a
function is defined and has its recursive equation. This is why `VectorSearch` and `VectorOps`
use no folds, which take an operator.

The parts of the inductive invariants that TLC can evaluate were checked with it as invariants of the
runs before they were proved (not `HasGathered`, which quantifies over all sequences).

### Only model-checked

Liveness: `EventuallyResolved`, `ProgramEnds`, `EveryQueryReturns`, `DestructorReturns`, `CallsReturn`,
`TimeoutReachesTokens` and `SignalIsTaken`; TLAPS does not cover fairness. The four findings are
counterexamples of TLC.

## Not modelled, and the plan

1. *Done*: all modules above, the composition of the server among them.
2. *Done*: a theorem for each invariant and each action property that a run checks, and the refinement
   of `JobService`. What is left of the proofs is to split the longest ones, those of
   `Cancellation_proofs` and `VectorSearch_proofs`, further.
3. Callbacks that call into the cancellation library, in `Cancellation` and then in `IInv`; an executor
   that answers on another thread than that of `process`, when the repository has one.

Out of scope: floating-point rounding of the dot products, GUID generation, logging, the parsing of
numbers on the command line (CLI11), moving a cancellation source, `throw_if_cancellation_requested`,
and platform calls (CPU affinity), which have no state that a property could be about. The comparator of
the sort in `internal_redistribute_chunks` that sees a chunk expire midway
(`worker_thread_coordinator.cpp:134`) is undefined behaviour inside the library's algorithm.
