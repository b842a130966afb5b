------------------------- MODULE WorkerCoordinator ---------------------------
(***************************************************************************)
(* worker_thread_coordinator with its worker_threads and their workers.     *)
(*                                                                         *)
(* The processes are                                                        *)
(*   - the threads that call assign_chunk;                                  *)
(*   - the threads inside process, one for each query;                      *)
(*   - the worker threads;                                                  *)
(*   - the thread that destroys the coordinator;                            *)
(*   - whoever owns a chunk and releases it: workers hold weak pointers.     *)
(*                                                                         *)
(* A chunk is its memory address, and the results of a query are the chunks  *)
(* that were scanned for it, in the order in which they were reduced.        *)
(* The mapper gives one score for every slot of a chunk, used or not, so the *)
(* number of results is the number of chunks scanned.                        *)
(***************************************************************************)
EXTENDS ChunkDistribution, FiniteSets, SequencesExt

CONSTANTS
    Chunks,     \* the chunks that may be assigned, by address
    Queries,    \* the calls of process
    NoQuery     \* no command

ASSUME ChunksAssumption == Chunks \subseteq Nat \ {0}
ASSUME NoQueryAssumption == NoQuery \notin Queries

VARIABLES
    chunks,         \* _chunks
    alive,          \* the chunks that are not expired
    assigned,       \* _assigned_chunks of each worker
    dealing,        \* 0, or the worker the holder of the write lock deals to next
    caller,         \* where each call of process is
    cursor,         \* the worker its loop has reached
    results,        \* the workers whose futures it has collected
    reduced,        \* what its reducer has received
    inbox,          \* the commands queued for each worker
    worker,         \* where each worker thread is
    command,        \* the command it is working on
    position,       \* the next of its chunks to scan
    combined,       \* what its combiner has received
    answer,         \* per query and worker, the value of the promise, if any
    answered,       \* per query, the workers that have set it
    destroying,     \* the worker_thread being destroyed, 0 before and WorkerCount + 1 after
    quiet           \* history: _chunks was left alone and alive since process was called

chunkVars  == <<chunks, alive, assigned, dealing>>
callVars   == <<caller, cursor, results, reduced>>
workerVars == <<inbox, worker, command, position, combined>>
replyVars  == <<answer, answered>>
vars == <<chunkVars, callVars, workerVars, replyVars, destroying, quiet>>

CallerPlaces == {"idle", "dispatching", "gathering", "done"}
WorkerPlaces == {"waiting", "dequeued", "scanning", "exited"}

Init ==
    /\ chunks = <<>>
    /\ alive = Chunks
    /\ assigned = [w \in Workers |-> <<>>]
    /\ dealing = 0
    /\ caller = [q \in Queries |-> "idle"]
    /\ cursor = [q \in Queries |-> 1]
    /\ results = [q \in Queries |-> <<>>]
    /\ reduced = [q \in Queries |-> <<>>]
    /\ inbox = [w \in Workers |-> <<>>]
    /\ worker = [w \in Workers |-> "waiting"]
    /\ command = [w \in Workers |-> NoQuery]
    /\ position = [w \in Workers |-> 1]
    /\ combined = [w \in Workers |-> <<>>]
    /\ answer = [q \in Queries |-> [w \in Workers |-> <<>>]]
    /\ answered = [q \in Queries |-> {}]
    /\ destroying = 0
    /\ quiet = [q \in Queries |-> TRUE]

-----------------------------------------------------------------------------
(* assign_chunk, under the write lock.                                       *)

\* The readers of _management_lock are the workers that scan.
NoReader == \A w \in Workers : worker[w] # "scanning"

IsCalling(q) == caller[q] \in {"dispatching", "gathering"}

\* Queries that run see the chunks change.
Disturb == quiet' = [q \in Queries |-> quiet[q] /\ ~IsCalling(q)]

\* What erase and std::remove_if leave: the chunks that are not expired, in
\* their order.
WithoutExpired(s) ==
    LET Kept == {i \in DOMAIN s : s[i] \in alive}
        Kth  == 1..Cardinality(Kept)
    IN  {[i \in Kth |-> s[k[i]]] :
            k \in {k \in Bijection(Kth, Kept) : \A i, j \in Kth : i < j => k[i] < k[j]}}

\* Mutant: assign_chunk does not take the write lock.
AssignChunkUnlocked(c) ==
    /\ destroying = 0
    /\ dealing = 0
    /\ c \in alive
    /\ c \notin Range(chunks)
    /\ chunks' \in WithoutExpired(Append(chunks, c))
    /\ assigned' = [w \in Workers |-> <<>>]
    /\ dealing' = 1
    /\ Disturb
    /\ UNCHANGED <<alive, callVars, workerVars, replyVars, destroying>>

\* The chunk is registered, expired chunks are dropped, and all workers are
\* left without chunks; the dealing follows under the same lock.
AssignChunk(c) ==
    /\ destroying = 0
    /\ dealing = 0
    /\ NoReader
    /\ c \in alive
    /\ c \notin Range(chunks)
    /\ chunks' \in WithoutExpired(Append(chunks, c))
    /\ assigned' = [w \in Workers |-> <<>>]
    /\ dealing' = 1
    /\ Disturb
    /\ UNCHANGED <<alive, callVars, workerVars, replyVars, destroying>>

\* The address of a chunk that has expired is null.
Address(c) == IF c \in alive THEN c ELSE 0

\* What std::sort may leave in _chunks; it need not keep equal elements in order.
SortedByAddress(s) ==
    {[i \in DOMAIN s |-> s[p[i]]] :
        p \in {p \in Bijection(DOMAIN s, DOMAIN s) :
                \A i, k \in DOMAIN s : i < k => Address(s[p[i]]) <= Address(s[p[k]])}}

\* The workers get their chunks one after the other, and the lock is released
\* with the last one.  num_chunks may be read meanwhile.
DealToNext ==
    /\ dealing \in Workers
    /\ chunks' \in IF dealing = 1 THEN SortedByAddress(chunks) ELSE {chunks}
    /\ assigned' = [assigned EXCEPT ![dealing] = Deal(chunks', dealing)]
    /\ dealing' = IF dealing = WorkerCount THEN 0 ELSE dealing + 1
    /\ Disturb
    /\ UNCHANGED <<alive, callVars, workerVars, replyVars, destroying>>

\* The owner of a chunk releases it.
Expire(c) ==
    /\ c \in alive
    /\ alive' = alive \ {c}
    /\ quiet' = [q \in Queries |-> quiet[q] /\ ~(IsCalling(q) /\ c \in Range(chunks))]
    /\ UNCHANGED <<chunks, assigned, dealing, callVars, workerVars, replyVars, destroying>>

-----------------------------------------------------------------------------
(* process, on the thread of its caller.  It takes no lock.                  *)

Process(q) ==
    /\ destroying = 0
    /\ caller[q] = "idle"
    /\ caller' = [caller EXCEPT ![q] = "dispatching"]
    /\ quiet' = [quiet EXCEPT ![q] = dealing = 0 /\ Range(chunks) \subseteq alive]
    /\ UNCHANGED <<chunkVars, cursor, results, reduced, workerVars, replyVars, destroying>>

\* num_chunks() == 0 is evaluated without the lock: while the chunks are dealt
\* the read races with the writes, and may give either answer.
MayLookEmpty(w) == dealing # 0 \/ assigned[w] = <<>>
MayLookLoaded(w) == dealing # 0 \/ assigned[w] # <<>>

\* Mutant: the future of the command is kept before num_chunks is looked at.
SkipWorkerKeepingFuture(q) ==
    /\ caller[q] = "dispatching"
    /\ cursor[q] \in Workers
    /\ MayLookEmpty(cursor[q])
    /\ cursor' = [cursor EXCEPT ![q] = @ + 1]
    /\ results' = [results EXCEPT ![q] = Append(@, cursor[q])]
    /\ UNCHANGED <<chunkVars, caller, reduced, workerVars, replyVars, destroying, quiet>>

\* A worker without chunks is skipped ...
SkipWorker(q) ==
    /\ caller[q] = "dispatching"
    /\ cursor[q] \in Workers
    /\ MayLookEmpty(cursor[q])
    /\ cursor' = [cursor EXCEPT ![q] = @ + 1]
    /\ UNCHANGED <<chunkVars, caller, results, reduced, workerVars, replyVars, destroying, quiet>>

\* ... any other gets a command, and its future is kept.
EnqueueCommand(q) ==
    LET w == cursor[q] IN
    /\ caller[q] = "dispatching"
    /\ w \in Workers
    /\ MayLookLoaded(w)
    /\ results' = [results EXCEPT ![q] = Append(@, w)]
    /\ inbox' = [inbox EXCEPT ![w] = Append(@, q)]
    /\ cursor' = [cursor EXCEPT ![q] = @ + 1]
    /\ UNCHANGED <<chunkVars, caller, reduced, worker, command, position, combined,
                   replyVars, destroying, quiet>>

StartGathering(q) ==
    /\ caller[q] = "dispatching"
    /\ cursor[q] \notin Workers
    /\ caller' = [caller EXCEPT ![q] = "gathering"]
    /\ UNCHANGED <<chunkVars, cursor, results, reduced, workerVars, replyVars, destroying, quiet>>

\* The futures are waited for and reduced in the order of the workers.
ReduceNext(q) ==
    /\ caller[q] = "gathering"
    /\ results[q] # <<>>
    /\ Head(results[q]) \in answered[q]
    /\ reduced' = [reduced EXCEPT ![q] = @ \o answer[q][Head(results[q])]]
    /\ results' = [results EXCEPT ![q] = Tail(@)]
    /\ UNCHANGED <<chunkVars, caller, cursor, workerVars, replyVars, destroying, quiet>>

\* Mutant: the futures are not waited for.
FinishEarly(q) ==
    /\ caller[q] = "gathering"
    /\ caller' = [caller EXCEPT ![q] = "done"]
    /\ UNCHANGED <<chunkVars, cursor, results, reduced, workerVars, replyVars, destroying, quiet>>

\* All is reduced: the callback is called, always with `succeeded'.
Finish(q) ==
    /\ caller[q] = "gathering"
    /\ results[q] = <<>>
    /\ caller' = [caller EXCEPT ![q] = "done"]
    /\ UNCHANGED <<chunkVars, cursor, results, reduced, workerVars, replyVars, destroying, quiet>>

CallerStep(q) ==
    \/ SkipWorker(q)
    \/ EnqueueCommand(q)
    \/ StartGathering(q)
    \/ ReduceNext(q)
    \/ Finish(q)

-----------------------------------------------------------------------------
(* worker_thread::process_loop.                                              *)

\* Whether the destructor has told this worker to stop.
IsStopping(w) == destroying >= w

\* wait_dequeue_timed returns a command.
DequeueCommand(w) ==
    /\ worker[w] = "waiting"
    /\ inbox[w] # <<>>
    /\ command' = [command EXCEPT ![w] = Head(inbox[w])]
    /\ inbox' = [inbox EXCEPT ![w] = Tail(@)]
    /\ worker' = [worker EXCEPT ![w] = "dequeued"]
    /\ UNCHANGED <<chunkVars, callVars, position, combined, replyVars, destroying, quiet>>

\* Mutant: the dequeue has no timeout, and only a command brings it back.
ExitAfterCommand(w) ==
    /\ worker[w] = "waiting"
    /\ inbox[w] # <<>>
    /\ IsStopping(w)
    /\ worker' = [worker EXCEPT ![w] = "exited"]
    /\ UNCHANGED <<chunkVars, callVars, inbox, command, position, combined, replyVars,
                   destroying, quiet>>

\* It times out, and the loop condition ends the thread.  A timeout that does
\* not find _shutdown set changes nothing.
ExitAfterTimeout(w) ==
    /\ worker[w] = "waiting"
    /\ IsStopping(w)
    /\ worker' = [worker EXCEPT ![w] = "exited"]
    /\ UNCHANGED <<chunkVars, callVars, inbox, command, position, combined, replyVars,
                   destroying, quiet>>

\* query_vector_sync takes the read lock and begins the combiner.
BeginScan(w) ==
    /\ worker[w] = "dequeued"
    /\ dealing = 0
    /\ worker' = [worker EXCEPT ![w] = "scanning"]
    /\ position' = [position EXCEPT ![w] = 1]
    /\ combined' = [combined EXCEPT ![w] = <<>>]
    /\ UNCHANGED <<chunkVars, callVars, inbox, command, replyVars, destroying, quiet>>

\* accept maps one chunk after the other and passes over those that are gone.
ScanChunk(w) ==
    LET c == assigned[w][position[w]] IN
    /\ worker[w] = "scanning"
    /\ position[w] <= Len(assigned[w])
    /\ combined' = [combined EXCEPT ![w] = IF c \in alive THEN Append(@, c) ELSE @]
    /\ position' = [position EXCEPT ![w] = @ + 1]
    /\ UNCHANGED <<chunkVars, callVars, inbox, worker, command, replyVars, destroying, quiet>>

\* The promise is set, the lock is released, and the loop goes on.
EndScan(w) ==
    LET q == command[w] IN
    /\ worker[w] = "scanning"
    /\ position[w] > Len(assigned[w])
    /\ answer' = [answer EXCEPT ![q][w] = combined[w]]
    /\ answered' = [answered EXCEPT ![q] = @ \union {w}]
    /\ worker' = [worker EXCEPT ![w] = IF IsStopping(w) THEN "exited" ELSE "waiting"]
    /\ command' = [command EXCEPT ![w] = NoQuery]
    /\ UNCHANGED <<chunkVars, callVars, inbox, position, combined, destroying, quiet>>

WorkerStep(w) ==
    \/ DequeueCommand(w)
    \/ ExitAfterTimeout(w)
    \/ BeginScan(w)
    \/ ScanChunk(w)
    \/ EndScan(w)

-----------------------------------------------------------------------------
(* The destructor: each worker_thread is told to stop and joined, in turn.   *)

\* Mutant: the loop over the workers has one round too many.
DestroyOneTooMany ==
    /\ \A q \in Queries : ~IsCalling(q)
    /\ dealing = 0
    /\ destroying <= WorkerCount + 1
    /\ destroying \in Workers => worker[destroying] = "exited"
    /\ destroying' = destroying + 1
    /\ UNCHANGED <<chunkVars, callVars, workerVars, replyVars, quiet>>

DestroyNext ==
    /\ \A q \in Queries : ~IsCalling(q)
    /\ dealing = 0
    /\ destroying <= WorkerCount
    /\ destroying \in Workers => worker[destroying] = "exited"
    /\ destroying' = destroying + 1
    /\ UNCHANGED <<chunkVars, callVars, workerVars, replyVars, quiet>>

-----------------------------------------------------------------------------

Stopped ==
    /\ destroying > WorkerCount
    /\ UNCHANGED vars

Next ==
    \/ \E c \in Chunks : AssignChunk(c) \/ Expire(c)
    \/ DealToNext
    \/ \E q \in Queries : Process(q) \/ CallerStep(q)
    \/ \E w \in Workers : WorkerStep(w)
    \/ DestroyNext
    \/ Stopped

Spec == Init /\ [][Next]_vars

\* The threads keep running, and a writer that has the lock gives it back.
\* Nobody needs to assign a chunk, to ask a query or to start the destructor.
Fairness ==
    /\ WF_vars(DealToNext)
    /\ \A q \in Queries : WF_vars(CallerStep(q))
    /\ \A w \in Workers : WF_vars(WorkerStep(w))
    /\ WF_vars(destroying > 0 /\ DestroyNext)

FairSpec == Spec /\ Fairness

-----------------------------------------------------------------------------
(* Properties.                                                               *)

TypeOK ==
    /\ chunks \in Seq(Chunks)
    /\ alive \subseteq Chunks
    /\ assigned \in [Workers -> Seq(Chunks)]
    /\ dealing \in 0..WorkerCount
    /\ caller \in [Queries -> CallerPlaces]
    /\ cursor \in [Queries -> 1..(WorkerCount + 1)]
    /\ results \in [Queries -> Seq(Workers)]
    /\ reduced \in [Queries -> Seq(Chunks)]
    /\ inbox \in [Workers -> Seq(Queries)]
    /\ worker \in [Workers -> WorkerPlaces]
    /\ command \in [Workers -> Queries \union {NoQuery}]
    /\ position \in [Workers -> Nat \ {0}]
    /\ combined \in [Workers -> Seq(Chunks)]
    /\ answer \in [Queries -> [Workers -> Seq(Chunks)]]
    /\ answered \in [Queries -> SUBSET Workers]
    /\ destroying \in 0..(WorkerCount + 1)
    /\ quiet \in [Queries -> BOOLEAN]

\* The query has everything it waited for and is about to call back, and no
\* chunk was assigned or released since it began.
IsCompleteAndQuiet(q) == caller[q] = "gathering" /\ results[q] = <<>> /\ quiet[q]

\* A query that nobody disturbs returns as many results as the registered
\* chunks have slots: the assertion of run_server (server.cpp:131).
EverySlotCounted ==
    \A q \in Queries : IsCompleteAndQuiet(q) => Len(reduced[q]) = Len(chunks)

\* A query that nobody disturbs scans every registered chunk, and none twice:
\* the chunks are distributed across the workers, as the comment over the
\* dealing loop has it (worker_thread_coordinator.cpp:142).
EachChunkScannedOnce ==
    \A q \in Queries : IsCompleteAndQuiet(q) =>
        \A c \in Range(chunks) : Cardinality({i \in DOMAIN reduced[q] : reduced[q][i] = c}) = 1

\* No worker thread is told to stop, or has stopped, while a command waits for
\* it or is in its hands: no promise is abandoned by the destructor.
NoCommandAbandoned ==
    \A w \in Workers : IsStopping(w) => inbox[w] = <<>> /\ command[w] = NoQuery

\* The chunks of a worker are not exchanged under its iteration: the worker
\* holds the read lock from the first chunk to the last.
ScansAreStable ==
    [][\A w \in Workers : worker[w] = "scanning" => UNCHANGED assigned[w]]_vars

\* process comes back, whatever is assigned, released or asked meanwhile.
EveryQueryReturns == \A q \in Queries : caller[q] = "dispatching" ~> caller[q] = "done"

\* The destructor joins all worker threads, none of which gets a message: they
\* notice within the timeout of their dequeue.
DestructorReturns == destroying = 1 ~> destroying > WorkerCount

=============================================================================
