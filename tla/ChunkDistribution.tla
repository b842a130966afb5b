------------------------- MODULE ChunkDistribution ---------------------------
(***************************************************************************)
(* How worker_thread_coordinator::internal_redistribute_chunks deals the    *)
(* registered chunks to its workers.                                        *)
(***************************************************************************)
EXTENDS Naturals, Sequences

CONSTANT WorkerCount    \* _workers.size(); the constructor creates at least one

ASSUME WorkerCountAssumption == WorkerCount \in Nat \ {0}

Workers == 1..WorkerCount

\* chunks_per_worker, the rounded quotient.
Share(s) == Len(s) \div WorkerCount

\* What is left when every worker has its share; the last worker gets it.
Remainder(s) == SubSeq(s, WorkerCount * Share(s) + 1, Len(s))

\* Mutant: the chunks that remain are not dealt.
DealWithoutRemainder(s, w) == SubSeq(s, 1, Share(s))

\* The chunks that worker w is dealt when s is the sorted content of _chunks.
\* The inner loop starts at the first chunk again for every worker.
Deal(s, w) ==
    IF w = WorkerCount THEN SubSeq(s, 1, Share(s)) \o Remainder(s)
    ELSE SubSeq(s, 1, Share(s))

=============================================================================
