----------------------------- MODULE VectorSearch ----------------------------
(***************************************************************************)
(* Where vectors are stored, how they are scanned, and which one is found:   *)
(* run_benchmark (benchmark.cpp) fills the chunks; run_test_round            *)
(* (test_round.cpp) scans them with running counters of its own;             *)
(* run_test_round_worker (test_round_worker.cpp) has a worker map them chunk *)
(* by chunk and selects the best of all scores; that of                      *)
(* test_round_worker_mt.cpp has the workers of a coordinator map them.  The  *)
(* server (server.cpp) fills chunks in the same way and selects both the best *)
(* and the worst.                                                           *)
(*                                                                         *)
(* A vector stands for its score against the query, which no two scans       *)
(* compute differently here.  Sizes are counted in vectors: BENCHMARK_NUM_   *)
(* DIMENSIONS divides the size of a chunk, which the code tests first (see   *)
(* Application).  What the workers do at the same time is the subject of     *)
(* WorkerCoordinator; here they answer one after the other.                  *)
(*                                                                         *)
(* The code is sequential.  The variables are the locals of the function     *)
(* that is running; the same name stands for the same local in another one.  *)
(***************************************************************************)
EXTENDS Integers, SequencesExt, ChunkDistribution, MapReduce

CONSTANTS
    VectorCounts,   \* the values of the option --vectors
    ChunkSizes,     \* the vectors per chunk, from the option --chunk-size
    Scores,         \* the scores vectors may have
    Garbage,        \* the scores of memory that was not written
    NaN,            \* not a number
    Repetitions     \* 10 in the code

ASSUME VectorCountsAssumption == VectorCounts \subseteq Nat
ASSUME ChunkSizesAssumption == ChunkSizes \subseteq Nat \ {0}
ASSUME ScoresAssumption == Scores \subseteq Int /\ NaN \notin Int
ASSUME GarbageAssumption == Garbage \subseteq Int \union {NaN} /\ Garbage # {}
ASSUME RepetitionsAssumption == Repetitions \in Nat \ {0}

VARIABLES
    phase,          \* the function that is running
    numVectors,     \* num_vectors
    slots,          \* num_vectors_per_chunk
    chunks,         \* the chunk_manager's: index plus one -> slot -> score
    remaining,      \* remaining_chunk_size, or remaining_vectors_per_chunk
    offset,         \* float_offset
    vectorIdx,      \* j, or vector_idx
    expected,       \* expected, as far as it is written
    expectedBest,   \* expected_best_match
    repetition,     \* repetition
    currentChunk,   \* current_chunk, or the position of worker_t::accept
    result,         \* result
    best,           \* best_match with best_match_idx
    total,          \* total_num_vectors
    collected,      \* _scores of the keep_all_combiner, or of the keep_all_reducer
    byAddress,      \* _chunks of the coordinator, as indices of chunks
    currentWorker   \* the workers whose results process has reduced

options == <<numVectors, slots>>
benchmark == <<chunks, expected, expectedBest>>
vars == <<phase, options, benchmark, remaining, offset, vectorIdx, repetition,
          currentChunk, result, best, total, collected, byAddress, currentWorker>>
coordinator == <<byAddress, currentWorker>>

Values == Scores \union Garbage

-----------------------------------------------------------------------------
(* score_t.                                                                  *)

Score(chunk, index, score) == [chunk |-> chunk, index |-> index, score |-> score]

\* A score_t that was not assigned.
NoScore == Score(0, 0, NaN)

IsInvalid(score) == score.score = NaN

\* Mutant: equal scores are less than each other.
IsLessOrEqual(a, b) == a.score # NaN /\ b.score # NaN /\ a.score <= b.score

\* Comparisons with not-a-number are false.
IsLess(a, b) == a.score # NaN /\ b.score # NaN /\ a.score < b.score

\* Mutant: nothing is better than a score that was not assigned.
IsBetterThanAssigned(new, old) == IsLess(old, new)

\* `score > best_match || best_match.invalid()'
IsBetter(new, old) == IsLess(old, new) \/ IsInvalid(old)
IsWorse(new, old)  == IsLess(new, old) \/ IsInvalid(old)

BetterOf(old, new) == IF IsBetter(new, old) THEN new ELSE old
WorseOf(old, new)  == IF IsWorse(new, old) THEN new ELSE old

\* The loops over all results; selected[k] is the choice among the first k.
SelectBest(results) ==
    LET selected[k \in 0..Len(results)] ==
            IF k = 0 THEN NoScore ELSE BetterOf(selected[k - 1], results[k])
    IN  selected[Len(results)]

SelectWorst(results) ==
    LET selected[k \in 0..Len(results)] ==
            IF k = 0 THEN NoScore ELSE WorseOf(selected[k - 1], results[k])
    IN  selected[Len(results)]

\* Mutant: the vectors of a chunk are counted from one.
MapFromOne(c) == ScoreResult([i \in 1..slots |-> Score(c, i, chunks[c + 1][i - 1])])

\* dot_product_mapper::map scores every slot of a chunk, written or not.
Map(c) == ScoreResult([i \in 1..slots |-> Score(c, i - 1, chunks[c + 1][i - 1])])

-----------------------------------------------------------------------------
(* run_benchmark: initialising the vectors.                                  *)

Init ==
    /\ phase = "initializing"
    /\ numVectors \in VectorCounts
    /\ slots \in ChunkSizes
    /\ chunks = <<>>
    /\ remaining = 0
    /\ offset = 0
    /\ vectorIdx = 0
    /\ expected = <<>>
    /\ expectedBest = NoScore
    /\ repetition = 0
    /\ currentChunk = 0
    /\ result = <<>>
    /\ best = NoScore
    /\ total = 0
    /\ collected = <<>>
    /\ byAddress = <<>>
    /\ currentWorker = 0

\* Mutant: float_offset goes on counting in the new chunk.
AllocateChunkOnly ==
    /\ phase = "initializing"
    /\ vectorIdx < numVectors
    /\ remaining = 0
    /\ \E memory \in [0..(slots - 1) -> Garbage] : chunks' = Append(chunks, memory)
    /\ remaining' = slots
    /\ UNCHANGED <<phase, options, offset, expected, expectedBest, vectorIdx, repetition,
                   currentChunk, result, best, total, collected, coordinator>>

\* A full chunk is followed by a new one, whose memory is not initialised.
AllocateChunk ==
    /\ phase = "initializing"
    /\ vectorIdx < numVectors
    /\ remaining = 0
    /\ \E memory \in [0..(slots - 1) -> Garbage] : chunks' = Append(chunks, memory)
    /\ remaining' = slots
    /\ offset' = 0
    /\ UNCHANGED <<phase, options, expected, expectedBest, vectorIdx, repetition,
                   currentChunk, result, best, total, collected, coordinator>>

\* The expected best match has the chunk and the number of the vector.
FillVector ==
    /\ phase = "initializing"
    /\ vectorIdx < numVectors
    /\ remaining > 0
    /\ remaining' = remaining - 1
    /\ offset' = offset + 1
    /\ \E score \in Scores :
        LET new == Score(Len(chunks) - 1, vectorIdx, score) IN
        /\ chunks' = [chunks EXCEPT ![Len(chunks)][offset] = score]
        /\ expected' = Append(expected, score)
        /\ expectedBest' = IF IsBetter(new, expectedBest) THEN new ELSE expectedBest
    /\ vectorIdx' = vectorIdx + 1
    /\ UNCHANGED <<phase, options, repetition, currentChunk, result, best, total, collected, coordinator>>

FinishInitializing ==
    /\ phase = "initializing"
    /\ vectorIdx = numVectors
    /\ phase' = "round"
    /\ UNCHANGED <<options, benchmark, remaining, offset, vectorIdx, repetition,
                   currentChunk, result, best, total, collected, coordinator>>

-----------------------------------------------------------------------------
(* run_test_round: one step per vector, and one per chunk.                   *)

\* chunkManager.get_ro(n) throws for a chunk that is not there.
ReadChunk(n) ==
    /\ currentChunk' = n
    /\ IF n < Len(chunks)
       THEN /\ phase' = "scanning"
            /\ remaining' = slots
            /\ total' = total + slots
            /\ offset' = 0
       ELSE /\ phase' = "terminated"
            /\ UNCHANGED <<remaining, total, offset>>

BeginRound ==
    /\ phase = "round"
    /\ repetition < Repetitions
    /\ best' = Score(0, 0, 0)
    /\ vectorIdx' = 0
    /\ ReadChunk(0)
    /\ UNCHANGED <<options, benchmark, repetition, result, collected, coordinator>>

\* Mutant: current_chunk is not incremented.
SameChunkAgain ==
    /\ phase = "scanning"
    /\ vectorIdx < numVectors
    /\ remaining = 0
    /\ ReadChunk(currentChunk)
    /\ UNCHANGED <<options, benchmark, vectorIdx, repetition, result, best, collected, coordinator>>

\* Mutant: the next chunk is read as soon as the last one is used up.
NextChunkEagerly ==
    /\ phase = "scanning"
    /\ remaining = 0
    /\ ReadChunk(currentChunk + 1)
    /\ UNCHANGED <<options, benchmark, vectorIdx, repetition, result, best, collected, coordinator>>

NextChunk ==
    /\ phase = "scanning"
    /\ vectorIdx < numVectors
    /\ remaining = 0
    /\ ReadChunk(currentChunk + 1)
    /\ UNCHANGED <<options, benchmark, vectorIdx, repetition, result, best, collected, coordinator>>

\* result is an array of num_vectors floats; what is not written is shown as NaN.
ScanVector ==
    /\ phase = "scanning"
    /\ vectorIdx < numVectors
    /\ remaining > 0
    /\ remaining' = remaining - 1
    /\ offset' = offset + 1
    /\ LET new == Score(currentChunk, vectorIdx, chunks[currentChunk + 1][offset]) IN
        /\ result' = [v \in 0..(numVectors - 1) |->
                        IF v = vectorIdx THEN new.score
                        ELSE IF v \in DOMAIN result THEN result[v] ELSE NaN]
        /\ best' = IF IsLess(best, new) THEN new ELSE best
    /\ vectorIdx' = vectorIdx + 1
    /\ UNCHANGED <<phase, options, benchmark, repetition, currentChunk, total, collected, coordinator>>

EndRound ==
    /\ phase = "scanning"
    /\ vectorIdx = numVectors
    /\ phase' = "round"
    /\ repetition' = repetition + 1
    /\ UNCHANGED <<options, benchmark, remaining, offset, vectorIdx, currentChunk, result,
                   best, total, collected, coordinator>>

\* run_test_round returns, and run_test_round_worker begins.
EndRounds ==
    /\ phase = "round"
    /\ repetition = Repetitions
    /\ phase' = "worker_round"
    /\ repetition' = 0
    /\ total' = 0
    /\ UNCHANGED <<options, benchmark, remaining, offset, vectorIdx, currentChunk, result,
                   best, collected, coordinator>>

-----------------------------------------------------------------------------
(* run_test_round_worker with worker_t::accept: one step per chunk.          *)

BeginWorkerRound ==
    /\ phase = "worker_round"
    /\ repetition < Repetitions
    /\ collected' = BeginCombining(collected)
    /\ currentChunk' = 0
    /\ phase' = "accepting"
    /\ UNCHANGED <<options, benchmark, remaining, offset, vectorIdx, repetition, result,
                   best, total, coordinator>>

\* The worker has all chunks, in the order in which they were allocated.
AcceptChunk ==
    /\ phase = "accepting"
    /\ currentChunk < Len(chunks)
    /\ collected' = Combine(collected, Map(currentChunk))
    /\ total' = total + slots
    /\ currentChunk' = currentChunk + 1
    /\ UNCHANGED <<phase, options, benchmark, remaining, offset, vectorIdx, repetition,
                   result, best, coordinator>>

EndWorkerRound ==
    /\ phase = "accepting"
    /\ currentChunk = Len(chunks)
    /\ best' = SelectBest(AnyCast(FinishCombining(collected)))
    /\ repetition' = repetition + 1
    /\ phase' = "worker_round"
    /\ UNCHANGED <<options, benchmark, remaining, offset, vectorIdx, currentChunk, result,
                   total, collected, coordinator>>

\* It returns, and that of the workers begins.  The coordinator has sorted the
\* chunks by their addresses, which may be in any order.
EndWorkerRounds ==
    /\ phase = "worker_round"
    /\ repetition = Repetitions
    /\ phase' = "workers_round"
    /\ repetition' = 0
    /\ total' = 0
    /\ byAddress' \in SetToSeqs(0..(Len(chunks) - 1))
    /\ UNCHANGED <<options, benchmark, remaining, offset, vectorIdx, currentChunk, result,
                   best, collected, currentWorker>>

-----------------------------------------------------------------------------
(* run_test_round_worker with worker_thread_coordinator::process: one step    *)
(* per worker, in the order of the futures.                                  *)

BeginWorkersRound ==
    /\ phase = "workers_round"
    /\ repetition < Repetitions
    /\ collected' = BeginReducing(collected)
    /\ currentWorker' = 0
    /\ phase' = "gathering"
    /\ UNCHANGED <<options, benchmark, remaining, offset, vectorIdx, repetition, currentChunk,
                   result, best, total, byAddress>>

\* worker_t::accept with a combiner of its own.
CombineResult(dealt) ==
    LET scores[k \in 0..Len(dealt)] ==
            IF k = 0 THEN BeginCombining(<<>>) ELSE Combine(scores[k - 1], Map(dealt[k]))
    IN  FinishCombining(scores[Len(dealt)])

\* A worker without chunks has no future.
GatherWorker ==
    /\ phase = "gathering"
    /\ currentWorker < WorkerCount
    /\ currentWorker' = currentWorker + 1
    /\ LET dealt == Deal(byAddress, currentWorker')
       IN  collected' = IF dealt = <<>> THEN collected
                        ELSE Reduce(collected, CombineResult(dealt))
    /\ UNCHANGED <<phase, options, benchmark, remaining, offset, vectorIdx, repetition,
                   currentChunk, result, best, total, byAddress>>

EndWorkersRound ==
    /\ phase = "gathering"
    /\ currentWorker = WorkerCount
    /\ LET results == AnyCast(FinishReducing(collected))
       IN  /\ best' = SelectBest(results)
           /\ total' = total + Len(results)
    /\ repetition' = repetition + 1
    /\ phase' = "workers_round"
    /\ UNCHANGED <<options, benchmark, remaining, offset, vectorIdx, currentChunk, result,
                   collected, coordinator>>

Stopped ==
    /\ phase = "terminated" \/ (phase = "workers_round" /\ repetition = Repetitions)
    /\ UNCHANGED vars

Next ==
    \/ AllocateChunk \/ FillVector \/ FinishInitializing
    \/ BeginRound \/ NextChunk \/ ScanVector \/ EndRound \/ EndRounds
    \/ BeginWorkerRound \/ AcceptChunk \/ EndWorkerRound \/ EndWorkerRounds
    \/ BeginWorkersRound \/ GatherWorker \/ EndWorkersRound
    \/ Stopped

Spec == Init /\ [][Next]_vars

-----------------------------------------------------------------------------
(* Properties.                                                               *)

\* Every local keeps its range: in particular a chunk is never written or read
\* past its end, as the assertions on remaining_chunk_size claim.
TypeOK ==
    /\ phase \in {"initializing", "round", "scanning", "worker_round", "accepting",
                  "workers_round", "gathering", "terminated"}
    /\ numVectors \in VectorCounts
    /\ slots \in ChunkSizes
    /\ chunks \in Seq([0..(slots - 1) -> Values])
    /\ remaining \in 0..slots
    /\ offset \in 0..slots
    /\ vectorIdx \in 0..numVectors
    /\ expected \in Seq(Scores)
    /\ repetition \in 0..Repetitions
    /\ currentChunk \in 0..Len(chunks)
    /\ total \in Nat
    /\ byAddress \in Seq(0..(Len(chunks) - 1)) /\ IsInjective(byAddress)
    /\ currentWorker \in 0..WorkerCount
    /\ \A score \in {expectedBest, best} \union ToSet(collected) :
        score \in [chunk : Nat, index : Nat, score : Values \union {0, NaN}]

\* The vectors fill the chunks one after the other, without a gap.
VectorsInPlace ==
    /\ Len(expected) <= Len(chunks) * slots
    /\ \A c \in 1..Len(chunks), i \in 0..(slots - 1) :
        LET v == (c - 1) * slots + i IN
        v < Len(expected) => chunks[c][i] = expected[v + 1]

\* The scan, which counts chunks and offsets by itself, reads each vector where
\* it was written: results are the expected ones, in every repetition.
ResultsAreExpected ==
    phase = "scanning" => \A v \in 0..(vectorIdx - 1) : result[v] = expected[v + 1]

\* A scan asks for no chunk that was not allocated, unless there are no vectors
\* at all.
NoMissingChunk == phase = "terminated" => numVectors = 0

\* A finished scan has found the expected best match, at the expected place,
\* unless no score is positive: then it reports a score of 0 at 0.0.
ScanFindsExpected ==
    phase = "scanning" /\ vectorIdx = numVectors =>
        best = IF expectedBest.score > 0 THEN expectedBest ELSE Score(0, 0, 0)

\* r is the first of the results that no valid result precedes.
IsFirstOf(r, results, Precedes(_, _)) ==
    LET valid == {i \in DOMAIN results : ~IsInvalid(results[i])}
    IN  IF valid = {} THEN IsInvalid(r)
        ELSE \E i \in valid :
                /\ r = results[i]
                /\ \A j \in valid : ~Precedes(results[j], r)
                /\ \A j \in valid : j < i => Precedes(r, results[j])

\* The selection is right whatever the unwritten slots hold, not-a-number
\* included.
SelectionIsRight ==
    /\ IsFirstOf(SelectBest(collected), collected, LAMBDA a, b : IsLess(b, a))
    /\ IsFirstOf(SelectWorst(collected), collected, LAMBDA a, b : IsLess(a, b))

\* The first chunks are dealt to every worker: a chunk may be left out.
EveryChunkIsDealt ==
    \A c \in 0..(Len(chunks) - 1) : \E w \in Workers : c \in ToSet(Deal(byAddress, w))

\* When all slots are written, the worker finds the expected best match, whose
\* index it counts within the chunk.  The workers of a coordinator find one of
\* the same score, in an order of their own, if every chunk is dealt.
WorkerFindsExpected ==
    repetition > 0 /\ numVectors % slots = 0 =>
        /\ phase = "worker_round" =>
            /\ best.score = expectedBest.score
            /\ best.chunk = expectedBest.chunk
            /\ best.chunk * slots + best.index = expectedBest.index
        /\ phase = "workers_round" /\ EveryChunkIsDealt =>
            /\ best.score = expectedBest.score
            /\ best.score = expected[best.chunk * slots + best.index + 1]

\* All kinds of rounds count every slot once per repetition, and the scores
\* of a round are as many as there are slots (the assertion at server.cpp:131),
\* even when the workers leave out a chunk.
SlotsAreCounted ==
    phase \in {"round", "worker_round", "workers_round"} =>
        /\ total = repetition * Len(chunks) * slots
        /\ phase # "round" /\ repetition > 0 => Len(collected) = Len(chunks) * slots

=============================================================================
