------------------------- MODULE VectorSearch_proofs -------------------------
(***************************************************************************)
(* Theorems about VectorSearch for any number of vectors, any size of        *)
(* chunks and any number of workers: the counters of the loop that stores   *)
(* the vectors and those of the loop that scans them describe the same       *)
(* places; what a scan finds is what is expected; what workers collect are   *)
(* the scores of all slots; and the selections find the best and the worst. *)
(*                                                                         *)
(* PlacesInv is about the places, TypesInv about the locals, RoundsInv about *)
(* what is counted and collected, BestInv about the best scores.  Each is    *)
(* inductive together with those before it.                                  *)
(***************************************************************************)
EXTENDS VectorSearch, ChunkDistribution_proofs, FiniteSetTheorems, WellFoundedInduction, TLAPS

-----------------------------------------------------------------------------
(* Places in chunks.                                                         *)

LEMMA NextMultiple ==
    ASSUME NEW n \in Nat, NEW s \in Nat
    PROVE  n * s \in Nat /\ (n + 1) * s = n * s + s /\ 0 * s = 0
OBVIOUS

LEMMA SumOfMultiples ==
    ASSUME NEW a \in Nat, NEW b \in Nat, NEW s \in Nat
    PROVE  (a + b) * s = a * s + b * s /\ a * s \in Nat /\ b * s \in Nat
OBVIOUS

LEMMA SmallerMultiple ==
    ASSUME NEW a \in Nat, NEW b \in Nat, a < b, NEW s \in Nat
    PROVE  a * s + s <= b * s
<1>1. PICK d \in Nat : b = a + 1 + d
    <2>1. b - a - 1 \in Nat /\ b = a + 1 + (b - a - 1)
        OBVIOUS
    <2>2. QED BY <2>1
<1>2. b * s = a * s + s + d * s
    BY <1>1
<1>3. d * s \in Nat /\ a * s \in Nat
    BY <1>1
<1>4. QED BY <1>2, <1>3

\* Two places in a row of chunks are different vectors.
LEMMA PlacesAreDistinct ==
    ASSUME NEW s \in Nat \ {0}, NEW a \in Nat, NEW b \in Nat,
           NEW i \in 0..(s - 1), NEW k \in 0..(s - 1), a * s + i = b * s + k
    PROVE  a = b /\ i = k
<1>1. a * s \in Int /\ b * s \in Int
    OBVIOUS
<1>2. ~(a < b)
    <2>1. SUFFICES ASSUME a < b PROVE FALSE
        OBVIOUS
    <2>2. a * s + s <= b * s
        BY <2>1, SmallerMultiple
    <2>3. QED BY <1>1, <2>2
<1>3. ~(b < a)
    <2>1. SUFFICES ASSUME b < a PROVE FALSE
        OBVIOUS
    <2>2. b * s + s <= a * s
        BY <2>1, SmallerMultiple
    <2>3. QED BY <1>1, <2>2
<1>4. a = b
    BY <1>2, <1>3
<1>5. QED BY <1>1, <1>4

-----------------------------------------------------------------------------
(* The inductive invariant: what each loop has behind it.                    *)

CounterTypes ==
    /\ numVectors \in Nat
    /\ slots \in Nat \ {0}
    /\ chunks \in Seq([0..(slots - 1) -> Values])
    /\ expected \in Seq(Scores)
    /\ remaining \in 0..slots
    /\ vectorIdx \in Nat
    /\ currentChunk \in Nat

\* While the vectors are initialised, the free slots are those of the last
\* chunk behind offset.
InitializingInv ==
    phase = "initializing" =>
        /\ vectorIdx = Len(expected)
        /\ vectorIdx <= numVectors
        /\ vectorIdx + remaining = Len(chunks) * slots
        /\ remaining > 0 => offset = slots - remaining

InitializedInv == phase # "initializing" => Len(expected) = numVectors

\* A scan is as far as its chunk, its offset and its count of vectors say.
ScanningInv ==
    phase = "scanning" =>
        /\ currentChunk < Len(chunks)
        /\ vectorIdx <= numVectors
        /\ vectorIdx + remaining = (currentChunk + 1) * slots
        /\ offset = slots - remaining
        /\ vectorIdx > 0 => DOMAIN result = 0..(numVectors - 1)

PlacesInv ==
    /\ CounterTypes
    /\ InitializingInv
    /\ InitializedInv
    /\ ScanningInv
    /\ VectorsInPlace
    /\ ResultsAreExpected
    /\ NoMissingChunk

LEMMA PlacesInit == Init => PlacesInv
<1>1. SUFFICES ASSUME Init PROVE PlacesInv
    OBVIOUS
<1>2. CounterTypes
    BY <1>1, VectorCountsAssumption, ChunkSizesAssumption DEF Init, CounterTypes
<1>3. Len(chunks) * slots = 0
    BY <1>1, <1>2 DEF Init, CounterTypes
<1>4. InitializingInv /\ InitializedInv /\ ScanningInv
    BY <1>1, <1>2, <1>3 DEF Init, CounterTypes, InitializingInv, InitializedInv, ScanningInv
<1>5. VectorsInPlace
    BY <1>1, <1>3 DEF Init, VectorsInPlace
<1>6. ResultsAreExpected /\ NoMissingChunk
    BY <1>1 DEF Init, ResultsAreExpected, NoMissingChunk
<1>7. QED BY <1>2, <1>4, <1>5, <1>6 DEF PlacesInv

-----------------------------------------------------------------------------
(* Initialising the vectors.                                                 *)

LEMMA PlacesAllocate == PlacesInv /\ AllocateChunk => PlacesInv'
<1> SUFFICES ASSUME PlacesInv, AllocateChunk PROVE PlacesInv'
    OBVIOUS
<1> DEFINE n == Len(chunks)
<1>1. CounterTypes /\ InitializingInv /\ VectorsInPlace /\ phase = "initializing"
    BY DEF PlacesInv, AllocateChunk
<1>2. PICK memory \in [0..(slots - 1) -> Garbage] : chunks' = Append(chunks, memory)
    BY DEF AllocateChunk
<1>3. memory \in [0..(slots - 1) -> Values]
    BY <1>2 DEF Values
<1>4. /\ chunks' \in Seq([0..(slots - 1) -> Values])
      /\ n \in Nat
      /\ Len(chunks') = n + 1
      /\ \A c \in 1..n : chunks'[c] = chunks[c]
    BY <1>1, <1>2, <1>3 DEF CounterTypes
<1>5. /\ remaining = 0 /\ remaining' = slots /\ offset' = 0
      /\ phase' = phase /\ numVectors' = numVectors /\ slots' = slots
      /\ vectorIdx' = vectorIdx /\ expected' = expected
      /\ currentChunk' = currentChunk
    BY DEF AllocateChunk, options
<1>6. CounterTypes'
    BY <1>1, <1>4, <1>5 DEF CounterTypes
<1>7. n * slots \in Nat /\ (n + 1) * slots = n * slots + slots
    BY <1>1, <1>4, NextMultiple DEF CounterTypes
<1>8. vectorIdx = n * slots /\ Len(expected) = n * slots
    BY <1>1, <1>5, <1>7 DEF InitializingInv, CounterTypes
<1>9. InitializingInv'
    BY <1>1, <1>4, <1>5, <1>7, <1>8 DEF InitializingInv, CounterTypes
<1>10. InitializedInv' /\ ScanningInv' /\ ResultsAreExpected' /\ NoMissingChunk'
    BY <1>1, <1>5 DEF InitializedInv, ScanningInv, ResultsAreExpected, NoMissingChunk
<1>11. VectorsInPlace'
    <2>1. Len(expected') <= Len(chunks') * slots'
        BY <1>1, <1>4, <1>5, <1>7, <1>8 DEF CounterTypes
    <2>2. ASSUME NEW c \in 1..Len(chunks'), NEW i \in 0..(slots' - 1),
                 (c - 1) * slots' + i < Len(expected')
          PROVE  chunks'[c][i] = expected'[(c - 1) * slots' + i + 1]
        <3>1. CASE c \in 1..n
            BY <1>1, <1>4, <1>5, <2>2, <3>1 DEF VectorsInPlace
        <3>2. CASE c = n + 1
            <4>1. n * slots + i < n * slots
                BY <1>4, <1>5, <1>8, <2>2, <3>2
            <4>2. QED BY <4>1, <1>7, <1>5, <2>2, <1>1 DEF CounterTypes
        <3>3. QED BY <1>4, <2>2, <3>1, <3>2
    <2>3. QED BY <2>1, <2>2 DEF VectorsInPlace
<1>12. QED BY <1>6, <1>9, <1>10, <1>11 DEF PlacesInv

LEMMA PlacesFill == PlacesInv /\ FillVector => PlacesInv'
<1> SUFFICES ASSUME PlacesInv, FillVector PROVE PlacesInv'
    OBVIOUS
<1> DEFINE n == Len(chunks)
<1>1. CounterTypes /\ InitializingInv /\ VectorsInPlace /\ phase = "initializing"
    BY DEF PlacesInv, FillVector
<1>2. PICK score \in Scores :
        /\ chunks' = [chunks EXCEPT ![n][offset] = score]
        /\ expected' = Append(expected, score)
    BY DEF FillVector
<1>3. /\ remaining \in 1..slots /\ remaining' = remaining - 1 /\ offset' = offset + 1
      /\ phase' = phase /\ numVectors' = numVectors /\ slots' = slots
      /\ vectorIdx < numVectors /\ vectorIdx' = vectorIdx + 1
      /\ currentChunk' = currentChunk
    BY <1>1 DEF FillVector, options, CounterTypes
<1>4. slots \in Nat \ {0} /\ n \in Nat /\ vectorIdx \in Nat /\ n * slots \in Nat
    BY <1>1 DEF CounterTypes
<1>5. vectorIdx + remaining = n * slots /\ vectorIdx = Len(expected)
      /\ offset = slots - remaining
    BY <1>1, <1>3 DEF InitializingInv
<1>6. n # 0
    <2>1. 0 * slots = 0
        BY <1>4
    <2>2. QED BY <1>3, <1>4, <1>5, <2>1
<1>7. n - 1 \in Nat /\ (n - 1) * slots \in Nat /\ n * slots = (n - 1) * slots + slots
    <2>1. n - 1 \in Nat /\ (n - 1) + 1 = n
        BY <1>4, <1>6
    <2>2. QED BY <2>1, <1>4, NextMultiple
<1>8. offset \in 0..(slots - 1) /\ (n - 1) * slots + offset = Len(expected)
    BY <1>3, <1>4, <1>5, <1>7
<1>9. /\ chunks' \in Seq([0..(slots - 1) -> Values])
      /\ Len(chunks') = n
      /\ \A c \in 1..n, i \in 0..(slots - 1) :
            chunks'[c][i] = IF c = n /\ i = offset THEN score ELSE chunks[c][i]
    <2>1. score \in Values /\ n \in 1..n
        BY <1>2, <1>4, <1>6 DEF Values
    <2>2. chunks[n] \in [0..(slots - 1) -> Values]
        BY <1>1, <2>1 DEF CounterTypes
    <2>3. [chunks[n] EXCEPT ![offset] = score] \in [0..(slots - 1) -> Values]
        BY <2>1, <2>2
    <2>4. chunks' = [chunks EXCEPT ![n] = [chunks[n] EXCEPT ![offset] = score]]
        BY <1>2
    <2>5. chunks' \in Seq([0..(slots - 1) -> Values]) /\ Len(chunks') = n
        BY <1>1, <2>1, <2>3, <2>4 DEF CounterTypes
    <2>6. ASSUME NEW c \in 1..n, NEW i \in 0..(slots - 1)
          PROVE  chunks'[c][i] = IF c = n /\ i = offset THEN score ELSE chunks[c][i]
        BY <1>1, <1>8, <2>2, <2>4 DEF CounterTypes
    <2>7. QED BY <2>5, <2>6
<1>10. /\ expected' \in Seq(Scores)
       /\ Len(expected') = Len(expected) + 1
       /\ expected'[Len(expected) + 1] = score
       /\ \A v \in 1..Len(expected) : expected'[v] = expected[v]
    BY <1>1, <1>2 DEF CounterTypes
<1>11. CounterTypes'
    BY <1>1, <1>3, <1>9, <1>10 DEF CounterTypes
<1>12. InitializingInv'
    <2>1. numVectors \in Nat
        BY <1>1 DEF CounterTypes
    <2>2. vectorIdx' = Len(expected') /\ vectorIdx' <= numVectors'
        BY <1>3, <1>4, <1>5, <1>10, <2>1
    <2>3. vectorIdx' + remaining' = Len(chunks') * slots'
        <3>1. Len(chunks') = n /\ slots' = slots
            BY <1>3, <1>9
        <3>2. vectorIdx' + remaining' = vectorIdx + remaining
            BY <1>3, <1>4, <1>5
        <3>3. QED BY <3>1, <3>2, <1>5
    <2>4. offset' = slots' - remaining'
        BY <1>3, <1>4, <1>5
    <2>5. QED BY <2>2, <2>3, <2>4 DEF InitializingInv
<1>13. InitializedInv' /\ ScanningInv' /\ ResultsAreExpected' /\ NoMissingChunk'
    BY <1>1, <1>3 DEF InitializedInv, ScanningInv, ResultsAreExpected, NoMissingChunk
<1>14. VectorsInPlace'
    <2>1. Len(expected') <= Len(chunks') * slots'
        BY <1>3, <1>4, <1>5, <1>9, <1>10
    <2>2. ASSUME NEW c \in 1..n, NEW i \in 0..(slots - 1),
                 (c - 1) * slots + i < Len(expected')
          PROVE  chunks'[c][i] = expected'[(c - 1) * slots + i + 1]
        <3>1. c - 1 \in Nat /\ (c - 1) * slots \in Nat
            BY <1>4
        <3>2. CASE c = n /\ i = offset
            BY <1>8, <1>9, <1>10, <3>2
        <3>3. CASE ~(c = n /\ i = offset)
            <4>1. (c - 1) * slots + i # Len(expected)
                <5>1. SUFFICES ASSUME (c - 1) * slots + i = (n - 1) * slots + offset
                               PROVE  FALSE
                    BY <1>8
                <5>2. c - 1 = n - 1 /\ i = offset
                    BY <5>1, <3>1, <1>4, <1>7, <1>8, PlacesAreDistinct
                <5>3. QED BY <5>2, <3>3, <1>4
            <4>2. (c - 1) * slots + i < Len(expected)
                BY <4>1, <3>1, <2>2, <1>10, <1>4, <1>5
            <4>3. chunks[c][i] = expected[(c - 1) * slots + i + 1]
                BY <4>2, <1>1 DEF VectorsInPlace
            <4>4. expected'[(c - 1) * slots + i + 1] = expected[(c - 1) * slots + i + 1]
                BY <4>2, <3>1, <1>4, <1>5, <1>10
            <4>5. QED BY <1>9, <3>3, <4>3, <4>4
        <3>4. QED BY <3>2, <3>3
    <2>3. QED BY <2>1, <2>2, <1>3, <1>9 DEF VectorsInPlace
<1>15. QED BY <1>11, <1>12, <1>13, <1>14 DEF PlacesInv

LEMMA PlacesFinish == PlacesInv /\ FinishInitializing => PlacesInv'
<1> SUFFICES ASSUME PlacesInv, FinishInitializing PROVE PlacesInv'
    OBVIOUS
<1>1. phase = "initializing" /\ phase' = "round" /\ vectorIdx = numVectors
    BY DEF FinishInitializing
<1>2. UNCHANGED <<numVectors, slots, chunks, expected, remaining, vectorIdx, currentChunk>>
    BY DEF FinishInitializing, options, benchmark
<1>3. CounterTypes' /\ VectorsInPlace'
    BY <1>2 DEF PlacesInv, CounterTypes, VectorsInPlace
<1>4. InitializedInv'
    BY <1>1, <1>2 DEF PlacesInv, InitializingInv, InitializedInv
<1>5. InitializingInv' /\ ScanningInv' /\ ResultsAreExpected' /\ NoMissingChunk'
    BY <1>1 DEF InitializingInv, ScanningInv, ResultsAreExpected, NoMissingChunk
<1>6. QED BY <1>3, <1>4, <1>5 DEF PlacesInv

-----------------------------------------------------------------------------
(* Scanning them.                                                            *)

\* What a step that leaves the stored vectors alone has to show.
LEMMA PlacesOfScan ==
    ASSUME PlacesInv, phase # "initializing", phase' # "initializing",
           UNCHANGED <<numVectors, slots, chunks, expected>>,
           remaining' \in 0..slots, vectorIdx' \in Nat, currentChunk' \in Nat,
           ScanningInv', ResultsAreExpected', NoMissingChunk'
    PROVE  PlacesInv'
<1>1. CounterTypes' /\ InitializingInv' /\ InitializedInv' /\ VectorsInPlace'
    BY DEF PlacesInv, CounterTypes, InitializingInv, InitializedInv, VectorsInPlace
<1>2. QED BY <1>1 DEF PlacesInv

\* A scan that comes to a chunk is at the first vector of it.
LEMMA PlacesReadChunk ==
    ASSUME PlacesInv, NEW n \in Nat, ReadChunk(n), phase # "initializing",
           UNCHANGED <<numVectors, slots, chunks, expected>>,
           vectorIdx' = n * slots, vectorIdx' <= numVectors,
           vectorIdx' < numVectors \/ n = 0,
           ResultsAreExpected',
           vectorIdx' > 0 => DOMAIN result' = 0..(numVectors - 1)
    PROVE  PlacesInv'
<1>1. /\ slots \in Nat \ {0} /\ Len(chunks) \in Nat /\ numVectors \in Nat
      /\ remaining \in 0..slots
    BY DEF PlacesInv, CounterTypes
<1>2. numVectors <= Len(chunks) * slots
    BY DEF PlacesInv, InitializedInv, VectorsInPlace
<1>3. n * slots \in Nat /\ (n + 1) * slots = n * slots + slots
    BY <1>1, NextMultiple
<1>4. currentChunk' = n
    BY DEF ReadChunk
<1>5. CASE n < Len(chunks)
    <2>1. phase' = "scanning" /\ remaining' = slots /\ offset' = 0
        BY <1>5 DEF ReadChunk
    <2>2. ScanningInv'
        BY <1>1, <1>3, <1>4, <1>5, <2>1 DEF ScanningInv
    <2>3. NoMissingChunk'
        BY <2>1 DEF NoMissingChunk
    <2>4. QED BY <1>1, <1>3, <1>4, <2>1, <2>2, <2>3, PlacesOfScan
<1>6. CASE ~(n < Len(chunks))
    <2>1. phase' = "terminated" /\ remaining' = remaining
        BY <1>6 DEF ReadChunk
    <2>2. Len(chunks) * slots <= n * slots
        <3>1. CASE n = Len(chunks)
            BY <3>1, <1>1, <1>3
        <3>2. CASE Len(chunks) < n
            <4>1. Len(chunks) * slots + slots <= n * slots
                BY <3>2, <1>1, SmallerMultiple
            <4>2. Len(chunks) * slots \in Nat
                BY <1>1
            <4>3. QED BY <4>1, <4>2, <1>1, <1>3
        <3>3. QED BY <3>1, <3>2, <1>1, <1>6
    <2>3. numVectors <= vectorIdx'
        <3>1. Len(chunks) * slots \in Nat
            BY <1>1
        <3>2. QED BY <3>1, <2>2, <1>1, <1>2, <1>3
    <2>4. n = 0
        BY <2>3, <1>1, <1>3
    <2>5. numVectors = 0
        <3>1. 0 * slots = 0
            BY <1>1
        <3>2. QED BY <3>1, <2>3, <2>4, <1>1
    <2>6. ScanningInv' /\ NoMissingChunk'
        BY <2>1, <2>5 DEF ScanningInv, NoMissingChunk
    <2>7. QED BY <1>1, <1>3, <1>4, <2>1, <2>6, PlacesOfScan
<1>7. QED BY <1>5, <1>6

LEMMA PlacesBegin == PlacesInv /\ BeginRound => PlacesInv'
<1> SUFFICES ASSUME PlacesInv, BeginRound PROVE PlacesInv'
    OBVIOUS
<1>1. /\ ReadChunk(0) /\ phase = "round" /\ vectorIdx' = 0
      /\ UNCHANGED <<numVectors, slots, chunks, expected>>
    BY DEF BeginRound, options, benchmark
<1>2. numVectors \in Nat /\ slots \in Nat /\ 0 * slots = 0
    BY DEF PlacesInv, CounterTypes
<1>3. ResultsAreExpected'
    BY <1>1 DEF ResultsAreExpected
<1>4. QED BY <1>1, <1>2, <1>3, PlacesReadChunk

LEMMA PlacesNext == PlacesInv /\ NextChunk => PlacesInv'
<1> SUFFICES ASSUME PlacesInv, NextChunk PROVE PlacesInv'
    OBVIOUS
<1>1. /\ ReadChunk(currentChunk + 1) /\ phase = "scanning"
      /\ remaining = 0 /\ vectorIdx < numVectors
      /\ UNCHANGED <<numVectors, slots, chunks, expected, vectorIdx, result>>
    BY DEF NextChunk, options, benchmark
<1>2. CounterTypes /\ ScanningInv /\ ResultsAreExpected
    BY DEF PlacesInv
<1>3. currentChunk + 1 \in Nat /\ vectorIdx \in Nat /\ numVectors \in Nat /\ slots \in Nat
    BY <1>2 DEF CounterTypes
<1>4. /\ vectorIdx' = (currentChunk + 1) * slots /\ vectorIdx' <= numVectors
      /\ vectorIdx' > 0 => DOMAIN result' = 0..(numVectors - 1)
    BY <1>1, <1>2, <1>3 DEF ScanningInv
<1>5. ResultsAreExpected'
    BY <1>1, <1>2 DEF ResultsAreExpected
<1>6. QED BY <1>1, <1>3, <1>4, <1>5, PlacesReadChunk

\* A scan reads the vector that its count says.
LEMMA ScanReads ==
    ASSUME PlacesInv, ScanVector
    PROVE  /\ vectorIdx + 1 \in 1..Len(expected)
           /\ currentChunk * slots + offset = vectorIdx /\ offset \in 0..(slots - 1)
           /\ chunks[currentChunk + 1][offset] = expected[vectorIdx + 1]
<1>1. /\ slots \in Nat \ {0} /\ remaining \in 0..slots /\ vectorIdx \in Nat
      /\ numVectors \in Nat /\ currentChunk \in Nat /\ Len(chunks) \in Nat
    BY DEF PlacesInv, CounterTypes
<1>2. /\ currentChunk < Len(chunks) /\ remaining > 0 /\ vectorIdx < numVectors
      /\ vectorIdx + remaining = (currentChunk + 1) * slots
      /\ offset = slots - remaining
      /\ Len(expected) = numVectors
    BY DEF ScanVector, PlacesInv, ScanningInv, InitializedInv
<1>3. currentChunk * slots \in Nat /\ (currentChunk + 1) * slots = currentChunk * slots + slots
    BY <1>1, NextMultiple
<1>4. currentChunk * slots + offset = vectorIdx
    BY <1>1, <1>2, <1>3
<1>5. currentChunk + 1 \in 1..Len(chunks) /\ offset \in 0..(slots - 1)
      /\ (currentChunk + 1) - 1 = currentChunk
    BY <1>1, <1>2
<1>6. (currentChunk + 1 - 1) * slots + offset < Len(expected)
    BY <1>2, <1>4, <1>5
<1>7. chunks[currentChunk + 1][offset] = expected[(currentChunk + 1 - 1) * slots + offset + 1]
    BY <1>5, <1>6 DEF PlacesInv, VectorsInPlace
<1>8. vectorIdx + 1 \in 1..Len(expected)
    BY <1>1, <1>2
<1>9. QED BY <1>4, <1>5, <1>7, <1>8

LEMMA PlacesScan == PlacesInv /\ ScanVector => PlacesInv'
<1> SUFFICES ASSUME PlacesInv, ScanVector PROVE PlacesInv'
    OBVIOUS
<1> DEFINE read == chunks[currentChunk + 1][offset]
<1>1. CounterTypes /\ ScanningInv /\ ResultsAreExpected /\ VectorsInPlace /\ InitializedInv
    BY DEF PlacesInv
<1>2. /\ phase = "scanning" /\ phase' = phase /\ remaining > 0 /\ vectorIdx < numVectors
      /\ remaining' = remaining - 1 /\ offset' = offset + 1 /\ vectorIdx' = vectorIdx + 1
      /\ UNCHANGED <<numVectors, slots, chunks, expected, currentChunk>>
    BY DEF ScanVector, options, benchmark
<1>3. result' = [v \in 0..(numVectors - 1) |->
                    IF v = vectorIdx THEN read
                    ELSE IF v \in DOMAIN result THEN result[v] ELSE NaN]
    BY DEF ScanVector, Score
<1>4. /\ slots \in Nat \ {0} /\ remaining \in 0..slots /\ vectorIdx \in Nat
      /\ numVectors \in Nat /\ currentChunk \in Nat /\ Len(chunks) \in Nat
    BY <1>1 DEF CounterTypes
<1>5. /\ currentChunk < Len(chunks)
      /\ vectorIdx + remaining = (currentChunk + 1) * slots
      /\ offset = slots - remaining
      /\ vectorIdx > 0 => DOMAIN result = 0..(numVectors - 1)
      /\ Len(expected) = numVectors
    BY <1>1, <1>2 DEF ScanningInv, InitializedInv
<1>6. read = expected[vectorIdx + 1]
    BY ScanReads
<1>7. ResultsAreExpected'
    <2>1. ASSUME NEW v \in 0..vectorIdx PROVE result'[v] = expected[v + 1]
        <3>1. v \in 0..(numVectors - 1)
            BY <1>2, <1>4
        <3>2. CASE v = vectorIdx
            BY <1>3, <1>6, <3>1, <3>2
        <3>3. CASE v # vectorIdx
            <4>1. v \in 0..(vectorIdx - 1) /\ vectorIdx > 0
                BY <3>3, <1>4
            <4>2. result[v] = expected[v + 1]
                BY <4>1, <1>1, <1>2 DEF ResultsAreExpected
            <4>3. QED BY <4>1, <4>2, <1>3, <1>5, <3>1, <3>3
        <3>4. QED BY <3>2, <3>3
    <2>2. vectorIdx' - 1 = vectorIdx
        BY <1>2, <1>4
    <2>3. QED BY <2>1, <2>2, <1>2 DEF ResultsAreExpected
<1>8. ScanningInv'
    <2>1. DOMAIN result' = 0..(numVectors - 1)
        BY <1>3
    <2>2. vectorIdx' + remaining' = (currentChunk' + 1) * slots'
        BY <1>2, <1>4, <1>5
    <2>3. QED BY <2>1, <2>2, <1>2, <1>4, <1>5 DEF ScanningInv
<1>9. NoMissingChunk'
    BY <1>2 DEF NoMissingChunk
<1>10. remaining' \in 0..slots /\ vectorIdx' \in Nat /\ currentChunk' \in Nat
    BY <1>2, <1>4
<1>11. QED BY <1>2, <1>7, <1>8, <1>9, <1>10, PlacesOfScan

-----------------------------------------------------------------------------
(* The other steps change neither the counters of a scan nor what is stored. *)

LEMMA PlacesElsewhere ==
    ASSUME PlacesInv,
           EndRound \/ EndRounds \/ BeginWorkerRound \/ AcceptChunk \/ EndWorkerRound
           \/ EndWorkerRounds \/ BeginWorkersRound \/ GatherWorker \/ EndWorkersRound
    PROVE  PlacesInv'
<1>1. /\ phase # "initializing" /\ phase' \in {"round", "worker_round", "accepting",
                                                "workers_round", "gathering"}
      /\ UNCHANGED <<numVectors, slots, chunks, expected, remaining, vectorIdx>>
    BY DEF EndRound, EndRounds, BeginWorkerRound, AcceptChunk, EndWorkerRound, EndWorkerRounds,
           BeginWorkersRound, GatherWorker, EndWorkersRound, options, benchmark
<1>2. remaining \in 0..slots /\ vectorIdx \in Nat /\ currentChunk \in Nat
    BY DEF PlacesInv, CounterTypes
<1>3. currentChunk' \in {currentChunk, 0, currentChunk + 1}
    BY DEF EndRound, EndRounds, BeginWorkerRound, AcceptChunk, EndWorkerRound, EndWorkerRounds,
           BeginWorkersRound, GatherWorker, EndWorkersRound
<1>4. ScanningInv' /\ ResultsAreExpected' /\ NoMissingChunk'
    BY <1>1 DEF ScanningInv, ResultsAreExpected, NoMissingChunk
<1>5. QED BY <1>1, <1>2, <1>3, <1>4, PlacesOfScan

LEMMA PlacesStutter == PlacesInv /\ UNCHANGED vars => PlacesInv'
BY DEF PlacesInv, vars, options, benchmark, CounterTypes, InitializingInv, InitializedInv,
       ScanningInv, VectorsInPlace, ResultsAreExpected, NoMissingChunk

LEMMA PlacesStep == PlacesInv /\ [Next]_vars => PlacesInv'
<1> SUFFICES ASSUME PlacesInv, [Next]_vars PROVE PlacesInv'
    OBVIOUS
<1>1. CASE AllocateChunk
    BY <1>1, PlacesAllocate
<1>2. CASE FillVector
    BY <1>2, PlacesFill
<1>3. CASE FinishInitializing
    BY <1>3, PlacesFinish
<1>4. CASE BeginRound
    BY <1>4, PlacesBegin
<1>5. CASE NextChunk
    BY <1>5, PlacesNext
<1>6. CASE ScanVector
    BY <1>6, PlacesScan
<1>7. CASE EndRound \/ EndRounds \/ BeginWorkerRound \/ AcceptChunk \/ EndWorkerRound
           \/ EndWorkerRounds \/ BeginWorkersRound \/ GatherWorker \/ EndWorkersRound
    BY <1>7, PlacesElsewhere
<1>8. CASE Stopped \/ UNCHANGED vars
    BY <1>8, PlacesStutter DEF Stopped
<1>9. QED BY <1>1, <1>2, <1>3, <1>4, <1>5, <1>6, <1>7, <1>8 DEF Next

-----------------------------------------------------------------------------

\* Every vector is stored at the place its number says (benchmark.cpp:75-124).
THEOREM StoredInPlace == Spec => []VectorsInPlace
<1>1. PlacesInv => VectorsInPlace
    BY DEF PlacesInv
<1>2. QED BY <1>1, PlacesInit, PlacesStep, PTL DEF Spec

\* A scan reads every vector where it was stored (test_round.cpp:40-67).
THEOREM ScannedInPlace == Spec => []ResultsAreExpected
<1>1. PlacesInv => ResultsAreExpected
    BY DEF PlacesInv
<1>2. QED BY <1>1, PlacesInit, PlacesStep, PTL DEF Spec

\* get_ro throws only when there are no vectors (test_round.cpp:31 and :44).
THEOREM ChunksSuffice == Spec => []NoMissingChunk
<1>1. PlacesInv => NoMissingChunk
    BY DEF PlacesInv
<1>2. QED BY <1>1, PlacesInit, PlacesStep, PTL DEF Spec

-----------------------------------------------------------------------------
(* Recursive functions over a sequence.                                      *)

LEMMA Induction ==
    ASSUME NEW S \in SUBSET Nat, 0 \in S, \A m \in S : m + 1 \in S
    PROVE  S = Nat
<1> DEFINE Less == OpToRel(<, Nat)
           T == Nat \ S
<1>1. ASSUME NEW a \in Nat, NEW b \in Nat, a < b PROVE <<a, b>> \in Less
    BY <1>1, Zenon DEF OpToRel
<1>2. SUFFICES ASSUME T # {} PROVE FALSE
    OBVIOUS
<1>3. PICK x \in T : \A y \in T : <<y, x>> \notin Less
    <2>1. IsWellFoundedOn(Less, Nat)
        BY NatLessThanWellFounded, Zenon
    <2>2. T \subseteq Nat
        OBVIOUS
    <2> HIDE DEF T, Less
    <2>3. QED BY <1>2, <2>1, <2>2, WFMin
<1> HIDE DEF Less
<1>4. x - 1 \in S /\ x \in Nat
    <2>1. x # 0 /\ x \in Nat
        OBVIOUS
    <2>2. x - 1 \in Nat /\ x - 1 < x
        BY <2>1
    <2>3. QED BY <2>1, <2>2, <1>1, <1>3
<1>5. QED BY <1>4

\* t is what a loop has after every element of s: F takes what it has and the
\* next element.
IsLoop(t, V, F, none, s) ==
    /\ t \in [0..Len(s) -> V]
    /\ t[0] = none
    /\ \A k \in 1..Len(s) : t[k] = F[<<t[k - 1], s[k]>>]

LEMMA LoopExists ==
    ASSUME NEW V, NEW E, NEW F \in [V \X E -> V], NEW none \in V, NEW s \in Seq(E)
    PROVE  \E t : IsLoop(t, V, F, none, s)
<1> DEFINE Follows(t, c) == t[0] = none /\ \A k \in 1..c : t[k] = F[<<t[k - 1], s[k]>>]
           S == {c \in Nat : c <= Len(s) => \E t \in [0..c -> V] : Follows(t, c)}
<1>1. 0 \in S
    <2> DEFINE t == [m \in 0..0 |-> none]
    <2>1. t \in [0..0 -> V] /\ t[0] = none /\ 1..0 = {}
        OBVIOUS
    <2> HIDE DEF t
    <2>2. Follows(t, 0)
        BY <2>1
    <2>3. QED BY <2>1, <2>2
<1>2. ASSUME NEW c \in S PROVE c + 1 \in S
    <2>1. SUFFICES ASSUME c + 1 <= Len(s) PROVE \E u \in [0..(c + 1) -> V] : Follows(u, c + 1)
        OBVIOUS
    <2>2. PICK t \in [0..c -> V] : Follows(t, c)
        BY <2>1
    <2> DEFINE u == [m \in 0..(c + 1) |-> IF m = c + 1 THEN F[<<t[c], s[c + 1]>>] ELSE t[m]]
    <2>3. s[c + 1] \in E /\ t[c] \in V
        BY <2>1
    <2>4. u \in [0..(c + 1) -> V]
        BY <2>3
    <2>5. u[0] = none
        BY <2>2
    <2>6. ASSUME NEW k \in 1..(c + 1) PROVE u[k] = F[<<u[k - 1], s[k]>>]
        <3>1. u[k - 1] = t[k - 1]
            OBVIOUS
        <3>2. CASE k = c + 1
            <4>1. k - 1 = c
                BY <3>2
            <4>2. u[k] = F[<<t[c], s[c + 1]>>]
                BY <3>2
            <4>3. QED BY <3>1, <3>2, <4>1, <4>2
        <3>3. CASE k \in 1..c
            <4>1. u[k] = t[k]
                BY <3>3
            <4>2. QED BY <3>1, <3>3, <4>1, <2>2
        <3>4. QED BY <3>2, <3>3
    <2> HIDE DEF u
    <2>7. Follows(u, c + 1)
        BY <2>5, <2>6
    <2>8. QED BY <2>4, <2>7
<1>3. S = Nat
    <2> HIDE DEF S
    <2>1. S \in SUBSET Nat
        BY DEF S
    <2>2. QED BY <1>1, <1>2, <2>1, Induction
<1>4. Len(s) \in S
    BY <1>3
<1>5. QED BY <1>4 DEF IsLoop

-----------------------------------------------------------------------------
(* The selection of a score.                                                 *)

Results == [chunk : Nat, index : Nat, score : Int \union {NaN}]

\* r is the first of the k first results with the greatest key, invalid ones apart.
IsFirstMaximum(r, s, k, key) ==
    IF \A j \in 1..k : key[s[j]] = NaN THEN key[r] = NaN
    ELSE \E i \in 1..k :
            /\ key[s[i]] # NaN /\ r = s[i]
            /\ \A j \in 1..k : key[s[j]] # NaN => key[s[j]] <= key[s[i]]
            /\ \A j \in 1..(i - 1) : key[s[j]] # NaN => key[s[j]] < key[s[i]]

\* A loop that keeps a result until there is one with a greater key finds it.
LEMMA LoopFindsFirst ==
    ASSUME NEW V, NEW key \in [V -> Int \union {NaN}], NEW s \in Seq(V), NEW t,
           t[0] \in V, key[t[0]] = NaN,
           \A k \in 1..Len(s) : t[k - 1] \in V =>
                t[k] = IF key[t[k - 1]] = NaN
                          \/ (key[s[k]] # NaN /\ key[s[k]] > key[t[k - 1]])
                       THEN s[k] ELSE t[k - 1]
    PROVE  \A k \in 0..Len(s) : t[k] \in V /\ IsFirstMaximum(t[k], s, k, key)
<1> DEFINE S == {k \in Nat : k <= Len(s) => t[k] \in V /\ IsFirstMaximum(t[k], s, k, key)}
<1>0. NaN \notin Int
    BY ScoresAssumption
<1>1. 0 \in S
    <2>1. IsFirstMaximum(t[0], s, 0, key)
        BY DEF IsFirstMaximum
    <2>2. QED BY <2>1
<1>2. ASSUME NEW k \in S PROVE k + 1 \in S
    <2>1. SUFFICES ASSUME k + 1 <= Len(s)
                   PROVE  t[k + 1] \in V /\ IsFirstMaximum(t[k + 1], s, k + 1, key)
        OBVIOUS
    <2> DEFINE new == s[k + 1]
               old == t[k]
    <2>2. /\ k \in Nat /\ k + 1 \in 1..Len(s) /\ (k + 1) - 1 = k
          /\ old \in V /\ IsFirstMaximum(old, s, k, key) /\ new \in V
        BY <2>1
    <2>3. t[k + 1] = IF key[old] = NaN \/ (key[new] # NaN /\ key[new] > key[old])
                     THEN new ELSE old
        BY <2>2
    <2>4. \A j \in 1..k : s[j] \in V /\ (key[s[j]] # NaN => key[s[j]] \in Int)
        BY <2>1
    <2>5. /\ key[new] # NaN => key[new] \in Int
          /\ key[old] # NaN => key[old] \in Int
        BY <2>2
    <2>6. \A j \in 1..(k + 1) : j = k + 1 \/ j \in 1..k
        BY <2>2
    <2> HIDE DEF old
    <2>7. CASE key[old] = NaN
        <3>1. \A j \in 1..k : key[s[j]] = NaN
            BY <2>2, <2>4, <2>7 DEF IsFirstMaximum
        <3>2. t[k + 1] = new
            BY <2>3, <2>7
        <3>3. CASE key[new] = NaN
            BY <2>2, <2>6, <3>1, <3>2, <3>3 DEF IsFirstMaximum
        <3>4. CASE key[new] # NaN
            <4>1. \A j \in 1..(k + 1) : key[s[j]] # NaN => j = k + 1
                BY <2>6, <3>1
            <4>2. /\ \A j \in 1..(k + 1) : key[s[j]] # NaN => key[s[j]] <= key[new]
                  /\ \A j \in 1..((k + 1) - 1) : key[s[j]] # NaN => key[s[j]] < key[new]
                  /\ k + 1 \in 1..(k + 1)
                BY <4>1, <3>1, <2>2, <2>5, <3>4
            <4>3. QED BY <2>2, <3>2, <3>4, <4>2 DEF IsFirstMaximum
        <3>5. QED BY <3>3, <3>4
    <2>8. CASE key[old] # NaN
        <3>1. PICK i \in 1..k :
                /\ key[s[i]] # NaN /\ old = s[i]
                /\ \A j \in 1..k : key[s[j]] # NaN => key[s[j]] <= key[s[i]]
                /\ \A j \in 1..(i - 1) : key[s[j]] # NaN => key[s[j]] < key[s[i]]
            BY <2>2, <2>8 DEF IsFirstMaximum
        <3>2. CASE key[new] # NaN /\ key[new] > key[old]
            <4>1. t[k + 1] = new
                BY <2>3, <3>2
            <4>2. \A j \in 1..k : key[s[j]] # NaN => key[s[j]] < key[new]
                BY <2>4, <2>5, <3>1, <3>2
            <4>3. /\ \A j \in 1..(k + 1) : key[s[j]] # NaN => key[s[j]] <= key[new]
                  /\ \A j \in 1..((k + 1) - 1) : key[s[j]] # NaN => key[s[j]] < key[new]
                  /\ k + 1 \in 1..(k + 1)
                BY <2>2, <2>4, <2>5, <2>6, <3>2, <4>2
            <4>4. QED BY <2>2, <3>2, <4>1, <4>3 DEF IsFirstMaximum
        <3>3. CASE ~(key[new] # NaN /\ key[new] > key[old])
            <4>1. t[k + 1] = old
                BY <2>3, <2>8, <3>3
            <4>2. /\ i \in 1..(k + 1)
                  /\ \A j \in 1..(k + 1) : key[s[j]] # NaN => key[s[j]] <= key[s[i]]
                BY <2>2, <2>5, <2>6, <2>8, <3>1, <3>3
            <4>3. QED BY <2>2, <3>1, <4>1, <4>2 DEF IsFirstMaximum
        <3>4. QED BY <3>2, <3>3
    <2>9. QED BY <2>7, <2>8
<1>3. S = Nat
    <2> HIDE DEF S
    <2>1. S \in SUBSET Nat
        BY DEF S
    <2>2. QED BY <1>1, <1>2, <2>1, Induction
<1>4. QED BY <1>3

\* What the best and the worst selection compare.
ScoreKey == [r \in Results |-> r.score]
NegatedKey == [r \in Results |-> IF r.score = NaN THEN NaN ELSE -r.score]

LEMMA SelectBestFindsFirst ==
    ASSUME NEW s \in Seq(Results)
    PROVE  SelectBest(s) \in Results /\ IsFirstMaximum(SelectBest(s), s, Len(s), ScoreKey)
<1> DEFINE Selects(t) == t = [k \in 0..Len(s) |->
                                  IF k = 0 THEN NoScore ELSE BetterOf(t[k - 1], s[k])]
           selected == CHOOSE t : Selects(t)
           F == [p \in Results \X Results |-> BetterOf(p[1], p[2])]
<1>1. NoScore \in Results /\ NoScore.score = NaN
    BY DEF NoScore, Score, Results
<1>2. F \in [Results \X Results -> Results]
    BY DEF BetterOf
<1>3. \E t : Selects(t)
    <2> HIDE DEF F
    <2>1. PICK t : IsLoop(t, Results, F, NoScore, s)
        BY <1>1, <1>2, LoopExists
    <2>2. ASSUME NEW k \in 1..Len(s) PROVE t[k] = BetterOf(t[k - 1], s[k])
        <3>1. t[k - 1] \in Results /\ s[k] \in Results
            BY <2>1 DEF IsLoop
        <3>2. QED BY <2>1, <3>1 DEF F, IsLoop
    <2>3. t = [k \in 0..Len(s) |-> IF k = 0 THEN NoScore ELSE BetterOf(t[k - 1], s[k])]
        BY <2>1, <2>2 DEF IsLoop
    <2>4. QED BY <2>3
<1>4. Selects(selected)
    BY <1>3
<1>5. SelectBest(s) = selected[Len(s)]
    BY DEF SelectBest
<1> HIDE DEF selected
<1>6. selected[0] = NoScore
    BY <1>4
<1>7. \A k \in 1..Len(s) : selected[k] = BetterOf(selected[k - 1], s[k])
    BY <1>4
<1>8. ASSUME NEW k \in 1..Len(s), selected[k - 1] \in Results
      PROVE  selected[k] =
                IF ScoreKey[selected[k - 1]] = NaN
                   \/ (ScoreKey[s[k]] # NaN /\ ScoreKey[s[k]] > ScoreKey[selected[k - 1]])
                THEN s[k] ELSE selected[k - 1]
    <2>1. s[k] \in Results /\ selected[k - 1] \in Results
        BY <1>8
    <2>2. /\ ScoreKey[selected[k - 1]] = selected[k - 1].score /\ ScoreKey[s[k]] = s[k].score
          /\ selected[k - 1].score \in Int \union {NaN} /\ s[k].score \in Int \union {NaN}
        BY <2>1 DEF ScoreKey, Results
    <2>3. selected[k] = BetterOf(selected[k - 1], s[k])
        BY <1>7
    <2>4. QED BY <2>2, <2>3, ScoresAssumption DEF BetterOf, IsBetter, IsLess, IsInvalid
<1>9. ScoreKey \in [Results -> Int \union {NaN}]
    BY DEF ScoreKey, Results
<1>10. ScoreKey[selected[0]] = NaN /\ selected[0] \in Results
    BY <1>1, <1>6 DEF ScoreKey
<1>11. \A k \in 0..Len(s) : selected[k] \in Results /\ IsFirstMaximum(selected[k], s, k, ScoreKey)
    BY <1>8, <1>9, <1>10, LoopFindsFirst
<1>12. Len(s) \in 0..Len(s)
    OBVIOUS
<1>13. QED BY <1>5, <1>11, <1>12

LEMMA SelectWorstFindsFirst ==
    ASSUME NEW s \in Seq(Results)
    PROVE  SelectWorst(s) \in Results /\ IsFirstMaximum(SelectWorst(s), s, Len(s), NegatedKey)
<1> DEFINE Selects(t) == t = [k \in 0..Len(s) |->
                                  IF k = 0 THEN NoScore ELSE WorseOf(t[k - 1], s[k])]
           selected == CHOOSE t : Selects(t)
           F == [p \in Results \X Results |-> WorseOf(p[1], p[2])]
<1>1. NoScore \in Results /\ NoScore.score = NaN
    BY DEF NoScore, Score, Results
<1>2. F \in [Results \X Results -> Results]
    BY DEF WorseOf
<1>3. \E t : Selects(t)
    <2> HIDE DEF F
    <2>1. PICK t : IsLoop(t, Results, F, NoScore, s)
        BY <1>1, <1>2, LoopExists
    <2>2. ASSUME NEW k \in 1..Len(s) PROVE t[k] = WorseOf(t[k - 1], s[k])
        <3>1. t[k - 1] \in Results /\ s[k] \in Results
            BY <2>1 DEF IsLoop
        <3>2. QED BY <2>1, <3>1 DEF F, IsLoop
    <2>3. t = [k \in 0..Len(s) |-> IF k = 0 THEN NoScore ELSE WorseOf(t[k - 1], s[k])]
        BY <2>1, <2>2 DEF IsLoop
    <2>4. QED BY <2>3
<1>4. Selects(selected)
    BY <1>3
<1>5. SelectWorst(s) = selected[Len(s)]
    BY DEF SelectWorst
<1> HIDE DEF selected
<1>6. selected[0] = NoScore
    BY <1>4
<1>7. \A k \in 1..Len(s) : selected[k] = WorseOf(selected[k - 1], s[k])
    BY <1>4
<1>8. ASSUME NEW k \in 1..Len(s), selected[k - 1] \in Results
      PROVE  selected[k] =
                IF NegatedKey[selected[k - 1]] = NaN
                   \/ (NegatedKey[s[k]] # NaN /\ NegatedKey[s[k]] > NegatedKey[selected[k - 1]])
                THEN s[k] ELSE selected[k - 1]
    <2>1. s[k] \in Results /\ selected[k - 1] \in Results
        BY <1>8
    <2>2. /\ NegatedKey[selected[k - 1]] =
                IF selected[k - 1].score = NaN THEN NaN ELSE -selected[k - 1].score
          /\ NegatedKey[s[k]] = IF s[k].score = NaN THEN NaN ELSE -s[k].score
          /\ selected[k - 1].score \in Int \union {NaN} /\ s[k].score \in Int \union {NaN}
        BY <2>1 DEF NegatedKey, Results
    <2>3. selected[k] = WorseOf(selected[k - 1], s[k])
        BY <1>7
    <2>4. QED BY <2>2, <2>3, ScoresAssumption DEF WorseOf, IsWorse, IsLess, IsInvalid
<1>9. NegatedKey \in [Results -> Int \union {NaN}]
    BY DEF NegatedKey, Results
<1>10. NegatedKey[selected[0]] = NaN /\ selected[0] \in Results
    BY <1>1, <1>6 DEF NegatedKey
<1>11. \A k \in 0..Len(s) : selected[k] \in Results /\ IsFirstMaximum(selected[k], s, k, NegatedKey)
    BY <1>8, <1>9, <1>10, LoopFindsFirst
<1>12. Len(s) \in 0..Len(s)
    OBVIOUS
<1>13. QED BY <1>5, <1>11, <1>12

-----------------------------------------------------------------------------
(* The scores of a row of chunks.                                            *)

\* A score that was found somewhere.
Found == [chunk : Nat, index : Nat, score : Values \union {0, NaN}]

\* The score of a slot.
SlotScore(c, i) == Score(c, i, chunks[c + 1][i])

\* s has the scores of all slots of the n first chunks in row, one after the other.
KeepsAll(s, row, n) ==
    /\ s \in Seq(Found)
    /\ Len(s) = n * slots
    /\ \A k \in 1..n, i \in 0..(slots - 1) : s[(k - 1) * slots + i + 1] = SlotScore(row[k], i)

LEMMA FoundAreResults == Values \subseteq Int \union {NaN} /\ Found \subseteq Results
<1>1. Values \subseteq Int \union {NaN}
    BY ScoresAssumption, GarbageAssumption DEF Values
<1>2. ASSUME NEW r \in Found PROVE r \in Results
    <2>1. r.score \in Values \union {0, NaN}
        BY DEF Found
    <2>2. r.score \in Int \union {NaN}
        <3>1. CASE r.score \in Values
            BY <1>1, <3>1
        <3>2. CASE r.score \in {0, NaN}
            BY <3>2
        <3>3. QED BY <2>1, <3>1, <3>2
    <2>3. QED BY <2>2 DEF Found, Results
<1>3. QED BY <1>1, <1>2

\* A row of chunks has no other places than those of their slots.
LEMMA PlacesCover ==
    ASSUME NEW s \in Nat \ {0}
    PROVE  \A v \in Nat : \E k \in Nat, i \in 0..(s - 1) : v = k * s + i
<1> DEFINE S == {v \in Nat : \E k \in Nat, i \in 0..(s - 1) : v = k * s + i}
<1>1. 0 \in S
    <2>1. 0 * s + 0 = 0 /\ 0 \in 0..(s - 1)
        OBVIOUS
    <2>2. QED BY <2>1
<1>2. ASSUME NEW v \in S PROVE v + 1 \in S
    <2>1. PICK k \in Nat, i \in 0..(s - 1) : v = k * s + i
        OBVIOUS
    <2>2. k * s \in Nat /\ (k + 1) * s = k * s + s
        BY NextMultiple
    <2>3. CASE i + 1 < s
        <3>1. i + 1 \in 0..(s - 1) /\ v + 1 = k * s + (i + 1)
            BY <2>1, <2>2, <2>3
        <3>2. \E a \in Nat, b \in 0..(s - 1) : v + 1 = a * s + b
            <4> USE <3>1
            <4> WITNESS k \in Nat, i + 1 \in 0..(s - 1)
            <4> QED BY <3>1
        <3>3. QED BY <3>2
    <2>4. CASE ~(i + 1 < s)
        <3>1. 0 \in 0..(s - 1) /\ v + 1 = (k + 1) * s + 0 /\ k + 1 \in Nat
            BY <2>1, <2>2, <2>4
        <3>2. \E a \in Nat, b \in 0..(s - 1) : v + 1 = a * s + b
            <4> WITNESS k + 1 \in Nat, 0 \in 0..(s - 1)
            <4> QED BY <3>1
        <3>3. QED BY <3>2
    <2>5. QED BY <2>3, <2>4
<1>3. S = Nat
    <2> HIDE DEF S
    <2>1. S \in SUBSET Nat
        BY DEF S
    <2>2. QED BY <1>1, <1>2, <2>1, Induction
<1>4. QED BY <1>3

\* A slot of the first chunks in a row is before the end of them.
LEMMA PlaceBounds ==
    ASSUME NEW s \in Nat \ {0}, NEW n \in Nat, NEW k \in Nat, NEW i \in 0..(s - 1)
    PROVE  /\ k * s \in Nat /\ n * s \in Nat
           /\ k < n => k * s + i < n * s
           /\ k * s + i < n * s => k < n
<1>1. k * s \in Nat /\ n * s \in Nat
    OBVIOUS
<1>2. ASSUME k < n PROVE k * s + i < n * s
    <2>1. k * s + s <= n * s
        BY <1>2, SmallerMultiple
    <2>2. QED BY <1>1, <2>1
<1>3. ASSUME ~(k < n) PROVE ~(k * s + i < n * s)
    <2>1. CASE k = n
        BY <1>1, <2>1
    <2>2. CASE n < k
        <3>1. n * s + s <= k * s
            BY <2>2, SmallerMultiple
        <3>2. QED BY <1>1, <3>1
    <2>3. QED BY <1>3, <2>1, <2>2
<1>4. QED BY <1>1, <1>2, <1>3

\* Every score is one of a slot.
IsOfSlot(p, s, row, n) ==
    \E k \in 1..n, i \in 0..(slots - 1) :
        p = (k - 1) * slots + i + 1 /\ s[p] = SlotScore(row[k], i)

LEMMA KeptAreSlots ==
    ASSUME slots \in Nat \ {0}, NEW row, NEW n \in Nat, NEW s, KeepsAll(s, row, n),
           NEW p \in 1..Len(s)
    PROVE  IsOfSlot(p, s, row, n)
<1>1. p - 1 \in Nat
    OBVIOUS
<1>2. PICK k \in Nat, i \in 0..(slots - 1) : p - 1 = k * slots + i
    BY <1>1, PlacesCover
<1>3. Len(s) = n * slots /\ n * slots \in Nat
    BY DEF KeepsAll
<1>4. k < n
    <2>1. k * slots + i < n * slots
        BY <1>1, <1>2, <1>3
    <2>2. QED BY <2>1, PlaceBounds
<1>5. k + 1 \in 1..n /\ (k + 1) - 1 = k
    BY <1>4
<1>6. k * slots \in Nat
    BY PlaceBounds
<1>7. p = k * slots + i + 1
    BY <1>2, <1>6
<1>8. s[((k + 1) - 1) * slots + i + 1] = SlotScore(row[k + 1], i)
    BY <1>5 DEF KeepsAll
<1>9. QED BY <1>5, <1>7, <1>8 DEF IsOfSlot

LEMMA ConcatenationElements ==
    ASSUME NEW S, NEW s \in Seq(S), NEW t \in Seq(S)
    PROVE  /\ \A p \in 1..Len(s) : (s \o t)[p] = s[p]
           /\ \A p \in 1..Len(t) : (s \o t)[Len(s) + p] = t[p]
OBVIOUS

\* The mapper scores every slot of a chunk.
LEMMA MappedSlots ==
    ASSUME slots \in Nat \ {0}, chunks \in Seq([0..(slots - 1) -> Values]),
           NEW c \in 0..(Len(chunks) - 1)
    PROVE  /\ AnyCast(Map(c)) \in Seq(Found)
           /\ Len(AnyCast(Map(c))) = slots
           /\ \A i \in 0..(slots - 1) : AnyCast(Map(c))[i + 1] = SlotScore(c, i)
<1> DEFINE new == [i \in 1..slots |-> SlotScore(c, i - 1)]
<1>1. c + 1 \in 1..Len(chunks) /\ c \in Nat
    OBVIOUS
<1>2. chunks[c + 1] \in [0..(slots - 1) -> Values]
    BY <1>1
<1>3. \A i \in 0..(slots - 1) : SlotScore(c, i) \in Found
    <2>1. ASSUME NEW i \in 0..(slots - 1) PROVE SlotScore(c, i) \in Found
        <3>1. chunks[c + 1][i] \in Values /\ i \in Nat
            BY <1>2
        <3>2. QED BY <3>1, <1>1 DEF SlotScore, Score, Found
    <2>2. QED BY <2>1
<1>4. new \in Seq(Found) /\ Len(new) = slots
      /\ \A i \in 0..(slots - 1) : new[i + 1] = SlotScore(c, i)
    <2>1. \A i \in 1..slots : i - 1 \in 0..(slots - 1)
        OBVIOUS
    <2>2. new \in [1..slots -> Found]
        BY <1>3, <2>1
    <2>3. new \in Seq(Found) /\ Len(new) = slots
        BY <2>2
    <2>4. \A i \in 0..(slots - 1) : i + 1 \in 1..slots /\ (i + 1) - 1 = i
        OBVIOUS
    <2>5. QED BY <2>3, <2>4
<1>5. AnyCast(Map(c)) = new
    BY DEF AnyCast, Map, ScoreResult, SlotScore
<1>6. QED BY <1>4, <1>5

\* A result of the mapper goes to the end.
LEMMA KeepsMapped ==
    ASSUME slots \in Nat \ {0}, chunks \in Seq([0..(slots - 1) -> Values]),
           NEW row, NEW n \in Nat, NEW s, KeepsAll(s, row, n),
           row[n + 1] \in 0..(Len(chunks) - 1)
    PROVE  KeepsAll(Combine(s, Map(row[n + 1])), row, n + 1)
<1> DEFINE c == row[n + 1]
           new == AnyCast(Map(c))
<1>1. /\ new \in Seq(Found) /\ Len(new) = slots
      /\ \A i \in 0..(slots - 1) : new[i + 1] = SlotScore(c, i)
    BY MappedSlots
<1>2. Combine(s, Map(c)) = s \o new
    BY DEF Combine
<1> HIDE DEF new, c
<1>3. s \in Seq(Found) /\ Len(s) = n * slots /\ (n + 1) * slots = Len(s) + slots
    BY NextMultiple DEF KeepsAll
<1>4. /\ s \o new \in Seq(Found) /\ Len(s \o new) = (n + 1) * slots
      /\ \A p \in 1..Len(s) : (s \o new)[p] = s[p]
      /\ \A p \in 1..slots : (s \o new)[Len(s) + p] = new[p]
    <2>1. s \o new \in Seq(Found) /\ Len(s \o new) = Len(s) + Len(new)
        BY <1>1, <1>3, ConcatenationIsIn
    <2>2. /\ \A p \in 1..Len(s) : (s \o new)[p] = s[p]
          /\ \A p \in 1..Len(new) : (s \o new)[Len(s) + p] = new[p]
        BY <1>1, <1>3, ConcatenationElements
    <2>3. Len(s \o new) = (n + 1) * slots
        BY <1>1, <1>3, <2>1
    <2>4. QED BY <1>1, <2>1, <2>2, <2>3
<1>5. ASSUME NEW k \in 1..(n + 1), NEW i \in 0..(slots - 1)
      PROVE  (s \o new)[(k - 1) * slots + i + 1] = SlotScore(row[k], i)
    <2>1. CASE k \in 1..n
        <3> DEFINE p == (k - 1) * slots + i
        <3>1. k - 1 \in Nat /\ k - 1 < n
            BY <2>1
        <3>2. p < n * slots /\ p \in Nat
            BY <3>1, PlaceBounds
        <3>3. s[p + 1] = SlotScore(row[k], i)
            BY <2>1 DEF KeepsAll
        <3> HIDE DEF p
        <3>4. p + 1 \in 1..Len(s)
            BY <3>2, <1>3
        <3>5. (s \o new)[p + 1] = SlotScore(row[k], i)
            BY <3>3, <3>4, <1>4
        <3>6. QED BY <3>5 DEF p
    <2>2. CASE k = n + 1
        <3>1. k - 1 = n
            BY <2>2
        <3>2. i + 1 \in 1..slots /\ new[i + 1] = SlotScore(row[k], i)
            BY <1>1, <2>2 DEF c
        <3>3. (s \o new)[Len(s) + (i + 1)] = SlotScore(row[k], i)
            BY <1>4, <3>2
        <3> DEFINE p == (k - 1) * slots + i + 1
        <3>4. p = Len(s) + (i + 1)
            BY <1>3, <3>1
        <3> HIDE DEF p
        <3>5. (s \o new)[p] = SlotScore(row[k], i)
            BY <3>3, <3>4
        <3>6. QED BY <3>5, Zenon DEF p
    <2>3. k \in 1..n \/ k = n + 1
        OBVIOUS
    <2>4. QED BY <2>1, <2>2, <2>3, Zenon
<1>6. QED BY <1>2, <1>4, <1>5 DEF KeepsAll, c

\* What two rows of chunks have, one after the other.
LEMMA KeepsBoth ==
    ASSUME slots \in Nat \ {0}, NEW S, NEW row \in Seq(S), NEW other \in Seq(S), NEW s, NEW t,
           KeepsAll(s, row, Len(row)), KeepsAll(t, other, Len(other))
    PROVE  KeepsAll(s \o t, row \o other, Len(row \o other))
<1> DEFINE n == Len(row)
           m == Len(other)
<1>1. /\ n \in Nat /\ m \in Nat /\ Len(row \o other) = n + m
      /\ s \in Seq(Found) /\ t \in Seq(Found) /\ Len(s) = n * slots /\ Len(t) = m * slots
      /\ \A k \in 1..n : (row \o other)[k] = row[k]
      /\ \A k \in (n + 1)..(n + m) : (row \o other)[k] = other[k - n]
      /\ KeepsAll(s, row, n) /\ KeepsAll(t, other, m)
    BY DEF KeepsAll
<1> HIDE DEF n, m
<1>2. n \in Nat /\ m \in Nat
    BY <1>1
<1>3. (n + m) * slots = Len(s) + Len(t)
    BY <1>1, SumOfMultiples
<1>4. /\ s \o t \in Seq(Found) /\ Len(s \o t) = (n + m) * slots
      /\ \A p \in 1..Len(s) : (s \o t)[p] = s[p]
      /\ \A p \in 1..Len(t) : (s \o t)[Len(s) + p] = t[p]
    <2>1. s \o t \in Seq(Found) /\ Len(s \o t) = Len(s) + Len(t)
        BY <1>1, ConcatenationIsIn
    <2>2. /\ \A p \in 1..Len(s) : (s \o t)[p] = s[p]
          /\ \A p \in 1..Len(t) : (s \o t)[Len(s) + p] = t[p]
        <3>1. s \in Seq(Found) /\ t \in Seq(Found)
            BY <1>1
        <3>2. QED BY <3>1, ConcatenationElements
    <2>3. QED BY <1>3, <2>1, <2>2, Zenon
<1>5. ASSUME NEW k \in 1..(n + m), NEW i \in 0..(slots - 1)
      PROVE  (s \o t)[(k - 1) * slots + i + 1] = SlotScore((row \o other)[k], i)
    <2>1. CASE k \in 1..n
        <3> DEFINE p == (k - 1) * slots + i
        <3>1. k - 1 \in Nat /\ k - 1 < n /\ n \in Nat
            BY <1>1, <2>1
        <3>2. p < n * slots /\ p \in Nat
            BY <3>1, PlaceBounds
        <3>3. s[p + 1] = SlotScore(row[k], i)
            BY <1>1, <2>1 DEF KeepsAll
        <3> HIDE DEF p
        <3>4. p + 1 \in 1..Len(s)
            BY <3>2, <1>1
        <3>5. (row \o other)[k] = row[k]
            BY <1>1, <2>1
        <3>6. (s \o t)[p + 1] = SlotScore((row \o other)[k], i)
            BY <3>3, <3>4, <3>5, <1>4
        <3>7. QED BY <3>6 DEF p
    <2>2. CASE k \in (n + 1)..(n + m)
        <3> DEFINE h == k - n
                   p == (h - 1) * slots + i
        <3>1. h \in 1..m /\ k - 1 = n + (h - 1) /\ h - 1 \in Nat /\ h - 1 < m /\ m \in Nat
            BY <2>2, <1>2
        <3>2. (row \o other)[k] = other[h]
            BY <2>2, <1>1
        <3> HIDE DEF h
        <3>3. p < m * slots /\ p \in Nat
            BY <3>1, PlaceBounds
        <3>4. t[p + 1] = SlotScore(other[h], i)
            BY <1>1, <3>1 DEF KeepsAll
        <3>5. (k - 1) * slots = Len(s) + (h - 1) * slots /\ (h - 1) * slots \in Nat
            <4>1. (n + (h - 1)) * slots = n * slots + (h - 1) * slots /\ (h - 1) * slots \in Nat
                BY <1>2, <3>1, SumOfMultiples
            <4>2. (k - 1) * slots = (n + (h - 1)) * slots
                BY <3>1
            <4>3. QED BY <1>1, <4>1, <4>2
        <3> DEFINE q == (k - 1) * slots + i + 1
        <3>6. q = Len(s) + (p + 1)
            <4> DEFINE a == (k - 1) * slots
                       b == (h - 1) * slots
            <4>1. a = Len(s) + b /\ b \in Nat /\ Len(s) \in Nat
                BY <3>5, <1>1
            <4> HIDE DEF a, b
            <4>2. a + i + 1 = Len(s) + ((b + i) + 1)
                BY <4>1
            <4>3. QED BY <4>2, Zenon DEF a, b
        <3> HIDE DEF p, q
        <3>7. p + 1 \in 1..Len(t)
            BY <3>3, <1>1
        <3>8. (s \o t)[q] = SlotScore((row \o other)[k], i)
            BY <3>2, <3>4, <3>6, <3>7, <1>4
        <3>9. QED BY <3>8, Zenon DEF q
    <2>3. k \in 1..n \/ k \in (n + 1)..(n + m)
        BY <1>2
    <2>4. QED BY <2>1, <2>2, <2>3, Zenon
<1>6. QED BY <1>1, <1>4, <1>5 DEF KeepsAll

\* A worker that accepts what it is dealt combines the scores of these chunks.
LEMMA CombinedKeepsAll ==
    ASSUME slots \in Nat \ {0}, chunks \in Seq([0..(slots - 1) -> Values]),
           NEW dealt \in Seq(0..(Len(chunks) - 1))
    PROVE  KeepsAll(AnyCast(CombineResult(dealt)), dealt, Len(dealt))
<1> DEFINE Indices == 0..(Len(chunks) - 1)
           Combines(t) == t = [k \in 0..Len(dealt) |->
                                    IF k = 0 THEN BeginCombining(<<>>)
                                    ELSE Combine(t[k - 1], Map(dealt[k]))]
           scores == CHOOSE t : Combines(t)
           F == [p \in Seq(Found) \X Indices |-> Combine(p[1], Map(p[2]))]
<1>1. BeginCombining(<<>>) = <<>> /\ <<>> \in Seq(Found)
    BY DEF BeginCombining
<1>2. F \in [Seq(Found) \X Indices -> Seq(Found)]
    <2>1. ASSUME NEW s \in Seq(Found), NEW c \in Indices PROVE Combine(s, Map(c)) \in Seq(Found)
        <3>1. AnyCast(Map(c)) \in Seq(Found)
            BY MappedSlots
        <3>2. QED BY <3>1, ConcatenationIsIn DEF Combine
    <2>2. QED BY <2>1
<1>3. \E t : Combines(t)
    <2> HIDE DEF F
    <2>1. PICK t : IsLoop(t, Seq(Found), F, <<>>, dealt)
        BY <1>1, <1>2, LoopExists
    <2>2. ASSUME NEW k \in 1..Len(dealt) PROVE t[k] = Combine(t[k - 1], Map(dealt[k]))
        <3>1. k - 1 \in 0..Len(dealt) /\ dealt[k] \in Indices
            OBVIOUS
        <3>2. t \in [0..Len(dealt) -> Seq(Found)] /\ t[k] = F[<<t[k - 1], dealt[k]>>]
            BY <2>1, Zenon DEF IsLoop
        <3>3. t[k - 1] \in Seq(Found)
            BY <3>1, <3>2, Zenon
        <3>4. QED BY <3>1, <3>2, <3>3 DEF F
    <2>3. t = [k \in 0..Len(dealt) |-> IF k = 0 THEN BeginCombining(<<>>)
                                       ELSE Combine(t[k - 1], Map(dealt[k]))]
        BY <1>1, <2>1, <2>2 DEF IsLoop
    <2>4. QED BY <2>3
<1>4. Combines(scores)
    BY <1>3
<1>5. AnyCast(CombineResult(dealt)) = scores[Len(dealt)]
    BY DEF CombineResult, FinishCombining, ScoreResult, AnyCast
<1> HIDE DEF scores
<1>6. scores[0] = <<>> /\ \A k \in 1..Len(dealt) : scores[k] = Combine(scores[k - 1], Map(dealt[k]))
    BY <1>1, <1>4
<1> DEFINE S == {k \in Nat : k <= Len(dealt) => KeepsAll(scores[k], dealt, k)}
<1>7. 0 \in S
    <2>1. 0 * slots = 0 /\ 1..0 = {} /\ Len(<<>>) = 0
        OBVIOUS
    <2>2. KeepsAll(<<>>, dealt, 0)
        BY <1>1, <2>1 DEF KeepsAll
    <2>3. QED BY <1>6, <2>2
<1>8. ASSUME NEW k \in S PROVE k + 1 \in S
    <2>1. SUFFICES ASSUME k + 1 <= Len(dealt) PROVE KeepsAll(scores[k + 1], dealt, k + 1)
        OBVIOUS
    <2>2. k \in Nat /\ k + 1 \in 1..Len(dealt) /\ (k + 1) - 1 = k /\ KeepsAll(scores[k], dealt, k)
        BY <2>1
    <2>3. dealt[k + 1] \in 0..(Len(chunks) - 1)
        BY <2>2
    <2>4. KeepsAll(Combine(scores[k], Map(dealt[k + 1])), dealt, k + 1)
        BY <2>2, <2>3, KeepsMapped
    <2>5. QED BY <1>6, <2>2, <2>4
<1>9. S = Nat
    <2> HIDE DEF S
    <2>1. S \in SUBSET Nat
        BY DEF S
    <2>2. QED BY <1>7, <1>8, <2>1, Induction
<1>10. QED BY <1>5, <1>9

-----------------------------------------------------------------------------
(* The types of the locals, on top of what the counters say.                 *)

Phases == {"initializing", "round", "scanning", "worker_round", "accepting",
           "workers_round", "gathering", "terminated"}

LocalTypes ==
    /\ phase \in Phases
    /\ numVectors \in VectorCounts
    /\ slots \in ChunkSizes
    /\ offset \in 0..slots
    /\ vectorIdx <= numVectors
    /\ repetition \in 0..Repetitions
    /\ phase \in {"scanning", "accepting", "gathering"} => repetition < Repetitions
    /\ currentChunk <= Len(chunks)
    /\ currentWorker \in 0..WorkerCount
    /\ total \in Nat

\* The coordinator has all chunks, each of them once.
AddressInv ==
    /\ byAddress \in Seq(0..(Len(chunks) - 1)) /\ IsInjective(byAddress)
    /\ phase \in {"workers_round", "gathering"} => Len(byAddress) = Len(chunks)

FoundTypes ==
    /\ expectedBest \in Found
    /\ best \in Found
    /\ collected \in Seq(Found)

TypesInv == LocalTypes /\ AddressInv /\ FoundTypes

LEMMA TypesInit == Init => TypesInv
<1> SUFFICES ASSUME Init PROVE TypesInv
    OBVIOUS
<1>1. chunks = <<>> /\ Len(chunks) = 0 /\ byAddress = <<>> /\ collected = <<>>
    BY DEF Init
<1>2. LocalTypes
    BY <1>1, VectorCountsAssumption, ChunkSizesAssumption, RepetitionsAssumption,
       WorkerCountAssumption DEF Init, LocalTypes, Phases
<1>3. AddressInv
    BY <1>1 DEF Init, AddressInv, IsInjective
<1>4. NoScore \in Found
    BY DEF NoScore, Score, Found
<1>5. FoundTypes
    BY <1>1, <1>4 DEF Init, FoundTypes
<1>6. QED BY <1>2, <1>3, <1>5 DEF TypesInv

LEMMA LocalTypesStep == PlacesInv /\ TypesInv /\ [Next]_vars => LocalTypes'
<1> SUFFICES ASSUME PlacesInv, TypesInv, [Next]_vars PROVE LocalTypes'
    OBVIOUS
<1>0. Len(collected) \in Nat
    BY DEF TypesInv, FoundTypes
<1> LocalTypes
    BY DEF TypesInv
<1> USE RepetitionsAssumption, WorkerCountAssumption DEF LocalTypes, Phases
<1>1. /\ numVectors \in Nat /\ slots \in Nat \ {0} /\ Len(chunks) \in Nat
      /\ remaining \in 0..slots /\ vectorIdx \in Nat /\ currentChunk \in Nat
    BY DEF PlacesInv, CounterTypes
<1>2. /\ phase = "scanning" => currentChunk < Len(chunks) /\ offset = slots - remaining
      /\ phase = "initializing" /\ remaining > 0 => offset = slots - remaining
    BY DEF PlacesInv, ScanningInv, InitializingInv
<1>3. CASE AllocateChunk
    <2>1. PICK memory : chunks' = Append(chunks, memory)
        BY <1>3 DEF AllocateChunk
    <2>2. Len(chunks') = Len(chunks) + 1
        BY <2>1 DEF PlacesInv, CounterTypes
    <2>3. QED BY <1>1, <1>3, <2>2 DEF AllocateChunk, options, coordinator
<1>4. CASE FillVector
    <2>1. Len(chunks') = Len(chunks)
        BY <1>4 DEF FillVector, PlacesInv, CounterTypes
    <2>2. QED BY <1>1, <1>2, <1>4, <2>1 DEF FillVector, options, coordinator
<1>5. CASE FinishInitializing
    BY <1>1, <1>5 DEF FinishInitializing, options, benchmark, coordinator
<1>6. CASE BeginRound
    <2>1. total + slots \in Nat
        BY <1>1
    <2>2. QED BY <1>1, <1>6, <2>1 DEF BeginRound, ReadChunk, options, benchmark, coordinator
<1>7. CASE NextChunk
    <2>1. total + slots \in Nat
        BY <1>1
    <2>2. QED BY <1>1, <1>2, <1>7, <2>1 DEF NextChunk, ReadChunk, options, benchmark, coordinator
<1>8. CASE ScanVector
    BY <1>1, <1>2, <1>8 DEF ScanVector, options, benchmark, coordinator
<1>9. CASE EndRound
    BY <1>1, <1>9 DEF EndRound, options, benchmark, coordinator
<1>10. CASE EndRounds
    BY <1>1, <1>10 DEF EndRounds, options, benchmark, coordinator
<1>11. CASE BeginWorkerRound
    BY <1>1, <1>11 DEF BeginWorkerRound, options, benchmark, coordinator
<1>12. CASE AcceptChunk
    <2>1. total + slots \in Nat
        BY <1>1
    <2>2. QED BY <1>1, <1>12, <2>1 DEF AcceptChunk, options, benchmark, coordinator
<1>13. CASE EndWorkerRound
    BY <1>1, <1>13 DEF EndWorkerRound, options, benchmark, coordinator
<1>14. CASE EndWorkerRounds
    BY <1>1, <1>14 DEF EndWorkerRounds, options, benchmark
<1>15. CASE BeginWorkersRound
    BY <1>1, <1>15 DEF BeginWorkersRound, options, benchmark
<1>16. CASE GatherWorker
    BY <1>1, <1>16 DEF GatherWorker, options, benchmark
<1>17. CASE EndWorkersRound
    <2>1. total' = total + Len(collected)
        BY <1>17 DEF EndWorkersRound, AnyCast, FinishReducing, ScoreResult
    <2>2. total' \in Nat
        BY <1>0, <2>1
    <2>3. QED BY <1>1, <1>17, <2>2 DEF EndWorkersRound, options, benchmark, coordinator
<1>18. CASE Stopped \/ UNCHANGED vars
    BY <1>1, <1>18 DEF Stopped, vars, options, benchmark, coordinator
<1>19. QED BY <1>3, <1>4, <1>5, <1>6, <1>7, <1>8, <1>9, <1>10, <1>11, <1>12, <1>13, <1>14,
              <1>15, <1>16, <1>17, <1>18 DEF Next

LEMMA AddressStep == PlacesInv /\ TypesInv /\ [Next]_vars => AddressInv'
<1> SUFFICES ASSUME PlacesInv, TypesInv, [Next]_vars PROVE AddressInv'
    OBVIOUS
<1> USE DEF IsInjective
<1>1. Len(chunks) \in Nat /\ AddressInv
    BY DEF PlacesInv, CounterTypes, TypesInv
<1>2. CASE AllocateChunk
    <2>1. PICK memory : chunks' = Append(chunks, memory)
        BY <1>2 DEF AllocateChunk
    <2>2. Len(chunks') = Len(chunks) + 1
        BY <2>1 DEF PlacesInv, CounterTypes
    <2>3. 0..(Len(chunks) - 1) \subseteq 0..(Len(chunks') - 1)
        BY <1>1, <2>2
    <2>4. byAddress \in Seq(0..(Len(chunks') - 1))
        BY <1>1, <2>3 DEF AddressInv
    <2>5. QED BY <1>1, <1>2, <2>4 DEF AllocateChunk, coordinator, AddressInv
<1>3. CASE FillVector
    <2>1. Len(chunks') = Len(chunks)
        BY <1>3 DEF FillVector, PlacesInv, CounterTypes
    <2>2. QED BY <1>1, <1>3, <2>1 DEF FillVector, coordinator, AddressInv
<1>4. CASE EndWorkerRounds
    <2> DEFINE S == 0..(Len(chunks) - 1)
    <2>1. Cardinality(S) = Len(chunks)
        <3>1. 0 \in Int /\ Len(chunks) - 1 \in Int
            BY <1>1
        <3>2. Cardinality(S) = IF 0 > Len(chunks) - 1 THEN 0 ELSE Len(chunks) - 1 - 0 + 1
            BY <3>1, FS_Interval
        <3>3. QED BY <3>2, <1>1
    <2> HIDE DEF S
    <2>2. byAddress' \in SetToSeqs(S)
        BY <1>4 DEF EndWorkerRounds, S
    <2>3. /\ byAddress' \in [1..Len(chunks) -> S]
          /\ \A i, j \in 1..Len(chunks) : i # j => byAddress'[i] # byAddress'[j]
        BY <2>1, <2>2 DEF SetToSeqs
    <2>4. byAddress' \in Seq(S) /\ Len(byAddress') = Len(chunks)
        BY <1>1, <2>3
    <2>5. IsInjective(byAddress')
        BY <2>3
    <2>6. chunks' = chunks
        BY <1>4 DEF EndWorkerRounds, benchmark
    <2>7. QED BY <2>4, <2>5, <2>6 DEF AddressInv, S
<1>5. CASE \/ FinishInitializing \/ BeginRound \/ NextChunk \/ ScanVector \/ EndRound \/ EndRounds
           \/ BeginWorkerRound \/ AcceptChunk \/ EndWorkerRound \/ BeginWorkersRound
           \/ GatherWorker \/ EndWorkersRound \/ Stopped \/ UNCHANGED vars
    <2>1. /\ UNCHANGED <<chunks, byAddress>>
          /\ phase' \in {"workers_round", "gathering"} => phase \in {"workers_round", "gathering"}
        BY <1>5 DEF FinishInitializing, BeginRound, NextChunk, ReadChunk, ScanVector, EndRound,
           EndRounds, BeginWorkerRound, AcceptChunk, EndWorkerRound, BeginWorkersRound,
           GatherWorker, EndWorkersRound, Stopped, vars, benchmark, coordinator
    <2>2. QED BY <1>1, <2>1 DEF AddressInv
<1>6. QED BY <1>2, <1>3, <1>4, <1>5 DEF Next

LEMMA SelectedIsFound ==
    ASSUME NEW s \in Seq(Found)
    PROVE  SelectBest(s) \in Found
<1>1. s \in Seq(Results)
    BY FoundAreResults
<1>2. SelectBest(s) \in Results /\ IsFirstMaximum(SelectBest(s), s, Len(s), ScoreKey)
    BY <1>1, SelectBestFindsFirst
<1>3. CASE ScoreKey[SelectBest(s)] = NaN
    <2>1. SelectBest(s).score = NaN
        BY <1>2, <1>3 DEF ScoreKey
    <2>2. QED BY <1>2, <2>1 DEF Results, Found
<1>4. CASE \E i \in 1..Len(s) : SelectBest(s) = s[i]
    BY <1>4
<1>5. QED BY <1>2, <1>3, <1>4 DEF IsFirstMaximum

LEMMA FoundTypesStep == PlacesInv /\ TypesInv /\ [Next]_vars => FoundTypes'
<1> SUFFICES ASSUME PlacesInv, TypesInv, [Next]_vars PROVE FoundTypes'
    OBVIOUS
<1>1. /\ slots \in Nat \ {0} /\ chunks \in Seq([0..(slots - 1) -> Values])
      /\ expected \in Seq(Scores) /\ vectorIdx \in Nat /\ currentChunk \in Nat
    BY DEF PlacesInv, CounterTypes
<1>2. /\ expectedBest \in Found /\ best \in Found /\ collected \in Seq(Found)
      /\ byAddress \in Seq(0..(Len(chunks) - 1))
      /\ currentWorker \in 0..WorkerCount
    BY DEF TypesInv, FoundTypes, AddressInv, LocalTypes
<1>3. CASE FillVector
    <2>1. PICK score \in Scores :
            LET new == Score(Len(chunks) - 1, vectorIdx, score)
            IN  expectedBest' = IF IsBetter(new, expectedBest) THEN new ELSE expectedBest
        BY <1>3 DEF FillVector
    <2>2. Len(chunks) - 1 \in Nat
        <3>1. vectorIdx + remaining = Len(chunks) * slots /\ remaining > 0 /\ remaining \in Nat
            BY <1>3 DEF FillVector, PlacesInv, InitializingInv, CounterTypes
        <3>2. Len(chunks) \in Nat /\ 0 * slots = 0
            BY <1>1
        <3>3. Len(chunks) # 0
            BY <3>1, <3>2, <1>1
        <3>4. QED BY <3>2, <3>3
    <2>3. Score(Len(chunks) - 1, vectorIdx, score) \in Found
        BY <1>1, <2>2 DEF Score, Found, Values
    <2>4. expectedBest' \in Found
        BY <1>2, <2>1, <2>3
    <2>5. QED BY <1>2, <1>3, <2>4 DEF FillVector, FoundTypes
<1>4. CASE BeginRound
    <2>1. Score(0, 0, 0) \in Found
        BY DEF Score, Found
    <2>2. QED BY <1>2, <1>4, <2>1 DEF BeginRound, FoundTypes, benchmark
<1>5. CASE ScanVector
    <2>1. chunks[currentChunk + 1][offset] \in Values
        BY <1>1, <1>5, ScanReads DEF Values
    <2>2. Score(currentChunk, vectorIdx, chunks[currentChunk + 1][offset]) \in Found
        BY <1>1, <2>1 DEF Score, Found
    <2>3. best' \in Found
        BY <1>2, <1>5, <2>2 DEF ScanVector
    <2>4. QED BY <1>2, <1>5, <2>3 DEF ScanVector, FoundTypes, benchmark
<1>6. CASE AcceptChunk
    <2>1. currentChunk \in 0..(Len(chunks) - 1)
        BY <1>1, <1>6 DEF AcceptChunk
    <2>2. AnyCast(Map(currentChunk)) \in Seq(Found)
        BY <1>1, <2>1, MappedSlots
    <2>3. collected' \in Seq(Found)
        BY <1>2, <1>6, <2>2, ConcatenationIsIn DEF AcceptChunk, Combine
    <2>4. QED BY <1>2, <1>6, <2>3 DEF AcceptChunk, FoundTypes, benchmark
<1>7. CASE GatherWorker
    <2> DEFINE dealt == Deal(byAddress, currentWorker')
    <2>1. currentWorker' \in Workers
        BY <1>2, <1>7, WorkerCountAssumption DEF GatherWorker, Workers
    <2>2. dealt \in Seq(0..(Len(chunks) - 1))
        BY <1>2, <2>1, DealIsIn
    <2>3. AnyCast(CombineResult(dealt)) \in Seq(Found)
        BY <1>1, <2>2, CombinedKeepsAll DEF KeepsAll
    <2>4. collected' = collected \/ collected' = collected \o AnyCast(CombineResult(dealt))
        BY <1>7 DEF GatherWorker, Reduce
    <2>5. collected' \in Seq(Found)
        BY <1>2, <2>3, <2>4, ConcatenationIsIn
    <2>6. QED BY <1>2, <1>7, <2>5 DEF GatherWorker, FoundTypes, benchmark
<1>8. CASE EndWorkerRound \/ EndWorkersRound
    <2>1. best' = SelectBest(collected) /\ UNCHANGED <<expectedBest, collected>>
        BY <1>8 DEF EndWorkerRound, EndWorkersRound, AnyCast, FinishCombining, FinishReducing,
           ScoreResult, benchmark
    <2>2. QED BY <1>2, <2>1, SelectedIsFound DEF FoundTypes
<1>9. CASE BeginWorkerRound \/ BeginWorkersRound
    <2>1. collected' = <<>> /\ UNCHANGED <<expectedBest, best>>
        BY <1>9 DEF BeginWorkerRound, BeginWorkersRound, BeginCombining, BeginReducing, benchmark
    <2>2. QED BY <1>2, <2>1 DEF FoundTypes
<1>10. CASE \/ AllocateChunk \/ FinishInitializing \/ NextChunk \/ EndRound \/ EndRounds
            \/ EndWorkerRounds \/ Stopped \/ UNCHANGED vars
    <2>1. UNCHANGED <<expectedBest, best, collected>>
        BY <1>10 DEF AllocateChunk, FinishInitializing, NextChunk, EndRound, EndRounds,
           EndWorkerRounds, Stopped, vars, benchmark
    <2>2. QED BY <1>2, <2>1 DEF FoundTypes
<1>11. QED BY <1>3, <1>4, <1>5, <1>6, <1>7, <1>8, <1>9, <1>10 DEF Next

LEMMA TypesStep == PlacesInv /\ TypesInv /\ [Next]_vars => TypesInv'
BY LocalTypesStep, AddressStep, FoundTypesStep DEF TypesInv

LEMMA TypesHold == Spec => [](PlacesInv /\ TypesInv)
<1>1. Init => PlacesInv /\ TypesInv
    BY PlacesInit, TypesInit
<1>2. PlacesInv /\ TypesInv /\ [Next]_vars => (PlacesInv /\ TypesInv)'
    BY PlacesStep, TypesStep
<1>3. QED BY <1>1, <1>2, PTL DEF Spec

\* Every local keeps its range, so that no chunk is read or written past its end
\* (benchmark.cpp:75-124, test_round.cpp:30-67, worker_t::accept).
THEOREM TypesCorrect == Spec => []TypeOK
<1>1. PlacesInv /\ TypesInv => TypeOK
    <2> SUFFICES ASSUME PlacesInv, TypesInv PROVE TypeOK
        OBVIOUS
    <2>1. /\ chunks \in Seq([0..(slots - 1) -> Values]) /\ expected \in Seq(Scores)
          /\ remaining \in 0..slots /\ vectorIdx \in 0..numVectors
          /\ currentChunk \in 0..Len(chunks)
        BY DEF PlacesInv, CounterTypes, TypesInv, LocalTypes
    <2>2. \A score \in {expectedBest, best} \union ToSet(collected) : score \in Found
        BY DEF TypesInv, FoundTypes, ToSet
    <2>3. QED BY <2>1, <2>2 DEF TypesInv, LocalTypes, Phases, AddressInv, TypeOK, Found
<1>2. QED BY <1>1, TypesHold, PTL

-----------------------------------------------------------------------------
(* The best and the worst of what was collected.                             *)

LEMMA BestIsFirst ==
    ASSUME NEW s \in Seq(Results)
    PROVE  IsFirstOf(SelectBest(s), s, LAMBDA a, b : IsLess(b, a))
<1> DEFINE r == SelectBest(s)
           valid == {i \in DOMAIN s : ~IsInvalid(s[i])}
<1>1. r \in Results /\ IsFirstMaximum(r, s, Len(s), ScoreKey)
    BY SelectBestFindsFirst
<1> HIDE DEF r
<1>2. \A j \in DOMAIN s : s[j] \in Results /\ ScoreKey[s[j]] = s[j].score
    BY DEF ScoreKey
<1>3. ScoreKey[r] = r.score
    BY <1>1 DEF ScoreKey
<1>4. DOMAIN s = 1..Len(s)
    OBVIOUS
<1>5. \A j \in valid : s[j].score # NaN /\ s[j].score \in Int
    BY <1>2 DEF IsInvalid, Results
<1>6. CASE \A j \in 1..Len(s) : ScoreKey[s[j]] = NaN
    <2>1. valid = {} /\ IsInvalid(r)
        BY <1>1, <1>2, <1>3, <1>4, <1>6 DEF IsFirstMaximum, IsInvalid
    <2>2. QED BY <2>1 DEF IsFirstOf, r
<1>7. CASE ~(\A j \in 1..Len(s) : ScoreKey[s[j]] = NaN)
    <2>1. PICK i \in 1..Len(s) :
            /\ ScoreKey[s[i]] # NaN /\ r = s[i]
            /\ \A j \in 1..Len(s) : ScoreKey[s[j]] # NaN => ScoreKey[s[j]] <= ScoreKey[s[i]]
            /\ \A j \in 1..(i - 1) : ScoreKey[s[j]] # NaN => ScoreKey[s[j]] < ScoreKey[s[i]]
        BY <1>1, <1>7 DEF IsFirstMaximum
    <2>2. i \in valid
        BY <1>2, <1>4, <2>1 DEF IsInvalid
    <2>3. \A j \in valid : s[j].score <= r.score
        BY <1>2, <1>4, <1>5, <2>1
    <2>4. ASSUME NEW j \in valid, j < i PROVE s[j].score < r.score
        <3>1. j \in 1..(i - 1)
            BY <1>4, <2>4
        <3>2. QED BY <1>2, <1>4, <1>5, <2>1, <3>1
    <2> HIDE DEF valid
    <2>5. \A j \in valid : ~IsLess(r, s[j])
        BY <1>5, <2>1, <2>2, <2>3 DEF IsLess
    <2>6. \A j \in valid : j < i => IsLess(s[j], r)
        BY <1>5, <2>1, <2>2, <2>4 DEF IsLess
    <2>7. QED BY <2>1, <2>2, <2>5, <2>6 DEF IsFirstOf, r, valid
<1>8. QED BY <1>6, <1>7

LEMMA WorstIsFirst ==
    ASSUME NEW s \in Seq(Results)
    PROVE  IsFirstOf(SelectWorst(s), s, LAMBDA a, b : IsLess(a, b))
<1> DEFINE r == SelectWorst(s)
           valid == {i \in DOMAIN s : ~IsInvalid(s[i])}
<1>1. r \in Results /\ IsFirstMaximum(r, s, Len(s), NegatedKey)
    BY SelectWorstFindsFirst
<1> HIDE DEF r
<1>2. ASSUME NEW x \in Results
      PROVE  /\ NegatedKey[x] # NaN <=> x.score # NaN
             /\ x.score # NaN => x.score \in Int /\ NegatedKey[x] = -x.score
    <2>1. /\ NegatedKey[x] = IF x.score = NaN THEN NaN ELSE -x.score
          /\ x.score \in Int \union {NaN}
        BY DEF NegatedKey, Results
    <2>2. QED BY <2>1, ScoresAssumption
<1>3. DOMAIN s = 1..Len(s) /\ \A j \in 1..Len(s) : s[j] \in Results
    OBVIOUS
<1>4. \A j \in valid : s[j].score # NaN /\ s[j].score \in Int
    BY <1>2, <1>3 DEF IsInvalid
<1>5. CASE \A j \in 1..Len(s) : NegatedKey[s[j]] = NaN
    <2>1. valid = {} /\ IsInvalid(r)
        BY <1>1, <1>2, <1>3, <1>5 DEF IsFirstMaximum, IsInvalid
    <2>2. QED BY <2>1 DEF IsFirstOf, r
<1>6. CASE ~(\A j \in 1..Len(s) : NegatedKey[s[j]] = NaN)
    <2>1. PICK i \in 1..Len(s) :
            /\ NegatedKey[s[i]] # NaN /\ r = s[i]
            /\ \A j \in 1..Len(s) : NegatedKey[s[j]] # NaN => NegatedKey[s[j]] <= NegatedKey[s[i]]
            /\ \A j \in 1..(i - 1) : NegatedKey[s[j]] # NaN => NegatedKey[s[j]] < NegatedKey[s[i]]
        BY <1>1, <1>6 DEF IsFirstMaximum
    <2>2. i \in valid
        BY <1>2, <1>3, <2>1 DEF IsInvalid
    <2>3. ASSUME NEW j \in valid PROVE r.score <= s[j].score
        <3>1. -s[j].score <= -r.score
            BY <1>2, <1>3, <1>4, <2>1, <2>2
        <3>2. QED BY <1>4, <2>1, <2>2, <3>1
    <2>4. ASSUME NEW j \in valid, j < i PROVE r.score < s[j].score
        <3>1. j \in 1..(i - 1)
            BY <1>3, <2>4
        <3>2. -s[j].score < -r.score
            BY <1>2, <1>3, <1>4, <2>1, <2>2, <3>1
        <3>3. QED BY <1>4, <2>1, <2>2, <3>2
    <2> HIDE DEF valid
    <2>5. \A j \in valid : ~IsLess(s[j], r)
        BY <1>4, <2>1, <2>2, <2>3 DEF IsLess
    <2>6. \A j \in valid : j < i => IsLess(r, s[j])
        BY <1>4, <2>1, <2>2, <2>4 DEF IsLess
    <2>7. QED BY <2>1, <2>2, <2>5, <2>6 DEF IsFirstOf, r, valid
<1>7. QED BY <1>5, <1>6

\* The selections are the first best and the first worst of the valid scores,
\* whatever is in the slots that were not written (server.cpp:133-143,
\* test_round_worker.cpp:39-44).
THEOREM SelectionsRight == Spec => []SelectionIsRight
<1>1. TypesInv => SelectionIsRight
    <2> SUFFICES ASSUME TypesInv PROVE SelectionIsRight
        OBVIOUS
    <2>1. collected \in Seq(Results)
        BY FoundAreResults DEF TypesInv, FoundTypes
    <2>2. QED BY <2>1, BestIsFirst, WorstIsFirst DEF SelectionIsRight
<1>2. QED BY <1>1, TypesHold, PTL

-----------------------------------------------------------------------------
(* What is counted.                                                          *)

\* The slots of all chunks in the rounds before, and of k chunks in this one.
Counted(k) == (repetition * Len(chunks) + k) * slots

\* The last chunk is used, so that a scan reads all of them.
NeededInv == Len(chunks) > 0 => (Len(chunks) - 1) * slots < numVectors

CountInv ==
    /\ phase = "initializing" => repetition = 0 /\ total = 0
    /\ phase \in {"round", "worker_round", "workers_round", "gathering"} => total = Counted(0)
    /\ phase = "scanning" => total = Counted(currentChunk + 1)
    /\ phase = "accepting" => total = Counted(currentChunk)

LEMMA NeededStep == PlacesInv /\ NeededInv /\ [Next]_vars => NeededInv'
<1> SUFFICES ASSUME PlacesInv, NeededInv, [Next]_vars PROVE NeededInv'
    OBVIOUS
<1>1. CASE AllocateChunk
    <2>1. PICK memory : chunks' = Append(chunks, memory)
        BY <1>1 DEF AllocateChunk
    <2>2. Len(chunks') = Len(chunks) + 1 /\ Len(chunks) \in Nat /\ slots \in Nat /\ vectorIdx \in Nat
        BY <2>1 DEF PlacesInv, CounterTypes
    <2>3. vectorIdx + 0 = Len(chunks) * slots /\ vectorIdx < numVectors
          /\ UNCHANGED <<slots, numVectors>>
        BY <1>1 DEF AllocateChunk, PlacesInv, InitializingInv, options
    <2>4. Len(chunks') - 1 = Len(chunks) /\ Len(chunks) * slots = vectorIdx
        BY <2>2, <2>3
    <2>5. QED BY <2>3, <2>4 DEF NeededInv
<1>2. CASE FillVector
    <2>1. Len(chunks') = Len(chunks) /\ UNCHANGED <<slots, numVectors>>
        BY <1>2 DEF FillVector, PlacesInv, CounterTypes, options
    <2>2. QED BY <2>1 DEF NeededInv
<1>3. CASE ~(AllocateChunk \/ FillVector)
    <2>1. UNCHANGED <<chunks, slots, numVectors>>
        BY <1>3 DEF Next, FinishInitializing, BeginRound, NextChunk, ScanVector, EndRound, EndRounds,
           BeginWorkerRound, AcceptChunk, EndWorkerRound, EndWorkerRounds, BeginWorkersRound,
           GatherWorker, EndWorkersRound, Stopped, vars, options, benchmark
    <2>2. QED BY <2>1 DEF NeededInv
<1>4. QED BY <1>1, <1>2, <1>3

\* A scan ends in the last chunk.
LEMMA ScanEndsInLastChunk ==
    ASSUME PlacesInv, NeededInv, phase = "scanning", vectorIdx = numVectors
    PROVE  currentChunk + 1 = Len(chunks)
<1> DEFINE n == Len(chunks)
<1>1. /\ slots \in Nat \ {0} /\ remaining \in Nat /\ numVectors \in Nat /\ n \in Nat
      /\ currentChunk \in Nat /\ currentChunk < n
      /\ numVectors + remaining = (currentChunk + 1) * slots
      /\ (n - 1) * slots < numVectors
    BY DEF PlacesInv, CounterTypes, ScanningInv, NeededInv
<1> HIDE DEF n
<1>2. ASSUME currentChunk + 1 < n PROVE FALSE
    <2>1. currentChunk + 1 = n - 1 \/ currentChunk + 1 < n - 1
        BY <1>1, <1>2
    <2>2. n - 1 \in Nat /\ currentChunk + 1 \in Nat
        BY <1>1
    <2> DEFINE a == (currentChunk + 1) * slots
               b == (n - 1) * slots
    <2>3. a \in Nat /\ b \in Nat
        BY <1>1, <2>2
    <2>4. a <= b
        <3>1. CASE currentChunk + 1 = n - 1
            BY <2>3, <3>1
        <3>2. CASE currentChunk + 1 < n - 1
            <4>1. a + slots <= b
                BY <1>1, <2>2, <3>2, SmallerMultiple
            <4> HIDE DEF a, b
            <4>2. QED BY <1>1, <2>3, <4>1
        <3>3. QED BY <2>1, <3>1, <3>2
    <2>5. numVectors + remaining = a /\ b < numVectors
        BY <1>1
    <2> HIDE DEF a, b
    <2>6. QED BY <1>1, <2>3, <2>4, <2>5
<1>3. QED BY <1>1, <1>2 DEF n

LEMMA CountedNext ==
    ASSUME NEW r \in Nat, NEW n \in Nat, NEW s \in Nat, NEW k \in Nat
    PROVE  /\ (r * n + k) * s + s = (r * n + (k + 1)) * s
           /\ (r * n + 0) * s + n * s = ((r + 1) * n + 0) * s
           /\ (r * n + n) * s = ((r + 1) * n + 0) * s
           /\ (0 * n + 0) * s = 0
           /\ (r * n + 0) * s = r * n * s
<1>1. r * n \in Nat /\ (r + 1) * n = r * n + n /\ 0 * n = 0 /\ 0 * s = 0
    BY NextMultiple
<1> DEFINE m == r * n
<1> HIDE DEF m
<1>2. m \in Nat /\ (m + k) * s + s = (m + (k + 1)) * s
      /\ (m + 0) * s + n * s = (m + n) * s /\ (m + 0) * s = m * s
    <2>1. m \in Nat
        BY <1>1 DEF m
    <2>2. QED BY <2>1
<1>3. (r + 1) * n + 0 = m + n
    BY <1>1, <1>2 DEF m
<1>4. (0 * n + 0) * s = 0
    BY <1>1
<1>5. QED BY <1>2, <1>3, <1>4, Zenon DEF m

-----------------------------------------------------------------------------
(* What is collected.                                                        *)

\* The chunks in the order in which they were allocated.
InOrder == [k \in 1..Len(chunks) |-> k - 1]

\* What is collected when w workers have answered: what all of them were dealt.
HasGathered(w) ==
    \E row \in Seq(0..(Len(chunks) - 1)) :
        /\ KeepsAll(collected, row, Len(row))
        /\ Len(row) = Dealt(byAddress, w + 1)
        /\ \A v \in 1..w : Range(Deal(byAddress, v)) \subseteq Range(row)

CollectedInv ==
    /\ phase = "accepting" => KeepsAll(collected, InOrder, currentChunk)
    /\ phase = "gathering" => HasGathered(currentWorker)
    /\ phase = "worker_round" /\ repetition > 0 =>
        KeepsAll(collected, InOrder, Len(chunks)) /\ best = SelectBest(collected)
    /\ phase = "workers_round" /\ repetition > 0 =>
        HasGathered(WorkerCount) /\ best = SelectBest(collected)

LEMMA KeepsNone ==
    ASSUME slots \in Nat, NEW row
    PROVE  KeepsAll(<<>>, row, 0)
<1>1. 0 * slots = 0 /\ 1..0 = {} /\ Len(<<>>) = 0 /\ <<>> \in Seq(Found)
    OBVIOUS
<1>2. QED BY <1>1 DEF KeepsAll

LEMMA CollectedAccept == PlacesInv /\ TypesInv /\ CollectedInv /\ AcceptChunk => CollectedInv'
<1> SUFFICES ASSUME PlacesInv, TypesInv, CollectedInv, AcceptChunk PROVE CollectedInv'
    OBVIOUS
<1>1. /\ slots \in Nat \ {0} /\ chunks \in Seq([0..(slots - 1) -> Values])
      /\ currentChunk \in Nat /\ Len(chunks) \in Nat
    BY DEF PlacesInv, CounterTypes
<1>2. /\ phase = "accepting" /\ phase' = phase /\ currentChunk < Len(chunks)
      /\ collected' = Combine(collected, Map(currentChunk))
      /\ currentChunk' = currentChunk + 1 /\ UNCHANGED <<slots, chunks>>
    BY DEF AcceptChunk, options, benchmark
<1>3. InOrder[currentChunk + 1] = currentChunk /\ currentChunk \in 0..(Len(chunks) - 1)
    BY <1>1, <1>2 DEF InOrder
<1>4. KeepsAll(collected, InOrder, currentChunk)
    BY <1>2 DEF CollectedInv
<1>5. KeepsAll(Combine(collected, Map(InOrder[currentChunk + 1])), InOrder, currentChunk + 1)
    BY <1>1, <1>3, <1>4, KeepsMapped
<1>6. KeepsAll(collected', InOrder, currentChunk')
    BY <1>2, <1>3, <1>5
<1>7. KeepsAll(collected, InOrder, currentChunk)'
    BY <1>2, <1>6 DEF KeepsAll, InOrder, SlotScore
<1>8. QED BY <1>2, <1>7 DEF CollectedInv

LEMMA CollectedGather == PlacesInv /\ TypesInv /\ CollectedInv /\ GatherWorker => CollectedInv'
<1> SUFFICES ASSUME PlacesInv, TypesInv, CollectedInv, GatherWorker PROVE CollectedInv'
    OBVIOUS
<1> DEFINE S == 0..(Len(chunks) - 1)
           w == currentWorker + 1
           dealt == Deal(byAddress, w)
<1>1. /\ slots \in Nat \ {0} /\ chunks \in Seq([0..(slots - 1) -> Values])
      /\ byAddress \in Seq(S) /\ currentWorker \in 0..WorkerCount
    BY DEF PlacesInv, CounterTypes, TypesInv, AddressInv, LocalTypes
<1>2. /\ phase = "gathering" /\ phase' = phase /\ currentWorker < WorkerCount
      /\ currentWorker' = w /\ UNCHANGED <<slots, chunks, byAddress>>
      /\ collected' = IF dealt = <<>> THEN collected
                      ELSE collected \o AnyCast(CombineResult(dealt))
    BY DEF GatherWorker, options, benchmark, Reduce
<1>3. PICK row \in Seq(S) :
        /\ KeepsAll(collected, row, Len(row))
        /\ Len(row) = Dealt(byAddress, w)
        /\ \A v \in 1..currentWorker : Range(Deal(byAddress, v)) \subseteq Range(row)
    BY <1>2 DEF CollectedInv, HasGathered
<1>4. w \in Workers /\ \A v \in 1..w : v \in 1..currentWorker \/ v = w
    BY <1>1, <1>2, WorkerCountAssumption DEF Workers
<1>5. dealt \in Seq(S) /\ Dealt(byAddress, w + 1) = Dealt(byAddress, w) + Len(dealt)
      /\ Dealt(byAddress, w) \in Nat
    BY <1>1, <1>4, DealIsIn, DealtNext
<1> HIDE DEF dealt, w, S
<1>6. \E full \in Seq(S) :
        /\ KeepsAll(collected', full, Len(full))
        /\ Len(full) = Dealt(byAddress, w + 1)
        /\ Range(row) \subseteq Range(full) /\ Range(dealt) \subseteq Range(full)
    <2>1. CASE dealt = <<>>
        <3>1. Len(dealt) = 0 /\ Range(dealt) = {}
            BY <2>1 DEF Range
        <3>2. Dealt(byAddress, w + 1) = Len(row) /\ collected' = collected
            BY <1>2, <1>3, <1>5, <2>1, <3>1
        <3>3. QED BY <1>3, <3>1, <3>2
    <2>2. CASE dealt # <<>>
        <3>1. KeepsAll(AnyCast(CombineResult(dealt)), dealt, Len(dealt))
            BY <1>1, <1>5, CombinedKeepsAll DEF S
        <3>2. KeepsAll(collected', row \o dealt, Len(row \o dealt))
            BY <1>1, <1>2, <1>3, <1>5, <2>2, <3>1, KeepsBoth
        <3>3. row \o dealt \in Seq(S) /\ Len(row \o dealt) = Len(row) + Len(dealt)
            BY <1>3, <1>5, ConcatenationIsIn
        <3>4. Range(row) \subseteq Range(row \o dealt) /\ Range(dealt) \subseteq Range(row \o dealt)
            <4>1. /\ DOMAIN row = 1..Len(row) /\ DOMAIN dealt = 1..Len(dealt)
                  /\ DOMAIN (row \o dealt) = 1..(Len(row) + Len(dealt))
                  /\ Len(row) \in Nat /\ Len(dealt) \in Nat
                BY <1>3, <1>5
            <4>2. /\ \A p \in 1..Len(row) : (row \o dealt)[p] = row[p]
                  /\ \A p \in 1..Len(dealt) : (row \o dealt)[Len(row) + p] = dealt[p]
                BY <1>3, <1>5, ConcatenationElements
            <4>3. /\ \A p \in 1..Len(row) : p \in DOMAIN (row \o dealt)
                  /\ \A p \in 1..Len(dealt) : Len(row) + p \in DOMAIN (row \o dealt)
                BY <4>1
            <4>4. QED BY <4>1, <4>2, <4>3 DEF Range
        <3>5. QED BY <1>3, <1>5, <3>2, <3>3, <3>4
    <2>3. QED BY <2>1, <2>2
<1>7. PICK full \in Seq(S) :
        /\ KeepsAll(collected', full, Len(full))
        /\ Len(full) = Dealt(byAddress, w + 1)
        /\ Range(row) \subseteq Range(full) /\ Range(dealt) \subseteq Range(full)
    BY <1>6
<1>8. KeepsAll(collected, full, Len(full))'
    BY <1>2, <1>7 DEF KeepsAll, SlotScore
<1>9. \A v \in 1..w : Range(Deal(byAddress, v)) \subseteq Range(full)
    BY <1>3, <1>4, <1>7 DEF dealt
<1>10. HasGathered(currentWorker)'
    <2>1. full \in Seq(0..(Len(chunks') - 1))
        BY <1>2 DEF S
    <2>2. Len(full) = Dealt(byAddress', w + 1)
        BY <1>2, <1>7
    <2>3. \A v \in 1..w : Range(Deal(byAddress', v)) \subseteq Range(full)
        BY <1>2, <1>9
    <2>4. QED BY <1>2, <1>8, <2>1, <2>2, <2>3 DEF HasGathered
<1>11. QED BY <1>2, <1>10 DEF CollectedInv

LEMMA CollectedStep == PlacesInv /\ TypesInv /\ CollectedInv /\ [Next]_vars => CollectedInv'
<1> SUFFICES ASSUME PlacesInv, TypesInv, CollectedInv, [Next]_vars PROVE CollectedInv'
    OBVIOUS
<1>1. slots \in Nat \ {0} /\ Len(chunks) \in Nat /\ repetition \in Nat
    BY DEF PlacesInv, CounterTypes, TypesInv, LocalTypes
<1>2. CASE AcceptChunk
    BY <1>2, CollectedAccept
<1>3. CASE GatherWorker
    BY <1>3, CollectedGather
<1>4. CASE BeginWorkerRound
    <2>1. /\ phase' = "accepting" /\ collected' = <<>> /\ currentChunk' = 0
          /\ UNCHANGED <<slots, chunks>>
        BY <1>4 DEF BeginWorkerRound, BeginCombining, options, benchmark
    <2>2. KeepsAll(<<>>, InOrder, 0)
        BY <1>1, KeepsNone
    <2>3. KeepsAll(collected, InOrder, currentChunk)'
        BY <2>1, <2>2 DEF KeepsAll, InOrder, SlotScore
    <2>4. QED BY <2>1, <2>3 DEF CollectedInv
<1>5. CASE BeginWorkersRound
    <2>1. /\ phase' = "gathering" /\ collected' = <<>> /\ currentWorker' = 0
          /\ UNCHANGED <<slots, chunks, byAddress>>
        BY <1>5 DEF BeginWorkersRound, BeginReducing, options, benchmark
    <2>2. KeepsAll(<<>>, <<>>, 0) /\ Len(<<>>) = 0 /\ <<>> \in Seq(0..(Len(chunks) - 1))
        BY <1>1, KeepsNone
    <2>3. KeepsAll(collected, <<>>, Len(<<>>))'
        BY <2>1, <2>2 DEF KeepsAll, SlotScore
    <2>4. Dealt(byAddress, 0 + 1) = 0
        <3>1. 1 \in Workers
            BY WorkerCountAssumption DEF Workers
        <3>2. byAddress \in Seq(0..(Len(chunks) - 1))
            BY DEF TypesInv, AddressInv
        <3>3. Dealt(byAddress, 1) = 0
            BY <3>1, <3>2, DealtNext
        <3>4. QED BY <3>3
    <2>5. 1..0 = {}
        OBVIOUS
    <2>6. HasGathered(currentWorker)'
        BY <2>1, <2>2, <2>3, <2>4, <2>5 DEF HasGathered
    <2>7. QED BY <2>1, <2>6 DEF CollectedInv
<1>6. CASE EndWorkerRound
    <2>1. /\ phase = "accepting" /\ phase' = "worker_round" /\ currentChunk = Len(chunks)
          /\ best' = SelectBest(collected)
          /\ UNCHANGED <<slots, chunks, collected>>
        BY <1>6 DEF EndWorkerRound, AnyCast, FinishCombining, ScoreResult, options, benchmark
    <2>2. KeepsAll(collected, InOrder, Len(chunks))
        BY <2>1 DEF CollectedInv
    <2>3. KeepsAll(collected, InOrder, Len(chunks))'
        BY <2>1, <2>2 DEF KeepsAll, InOrder, SlotScore
    <2>4. QED BY <2>1, <2>3 DEF CollectedInv
<1>7. CASE EndWorkersRound
    <2>1. /\ phase = "gathering" /\ phase' = "workers_round" /\ currentWorker = WorkerCount
          /\ best' = SelectBest(collected)
          /\ UNCHANGED <<slots, chunks, collected, byAddress>>
        BY <1>7 DEF EndWorkersRound, AnyCast, FinishReducing, ScoreResult, options, benchmark,
           coordinator
    <2>2. HasGathered(WorkerCount)
        BY <2>1 DEF CollectedInv
    <2>3. HasGathered(WorkerCount)'
        BY <2>1, <2>2 DEF HasGathered, KeepsAll, SlotScore
    <2>4. QED BY <2>1, <2>3 DEF CollectedInv
<1>8. CASE \/ AllocateChunk \/ FillVector \/ FinishInitializing \/ BeginRound \/ NextChunk
           \/ ScanVector \/ EndRound \/ EndRounds \/ EndWorkerRounds
    <2>1. \/ phase' \in {"initializing", "round", "scanning", "terminated"}
          \/ phase' \in {"worker_round", "workers_round"} /\ repetition' = 0
        BY <1>8 DEF AllocateChunk, FillVector, FinishInitializing, BeginRound, NextChunk, ReadChunk,
           ScanVector, EndRound, EndRounds, EndWorkerRounds
    <2>2. QED BY <2>1 DEF CollectedInv
<1>9. CASE Stopped \/ UNCHANGED vars
    <2>1. UNCHANGED <<phase, slots, chunks, repetition, currentChunk, currentWorker, byAddress,
                      best, collected>>
        BY <1>9 DEF Stopped, vars, options, benchmark, coordinator
    <2>2. InOrder' = InOrder
        BY <2>1 DEF InOrder
    <2>3. /\ KeepsAll(collected, InOrder, currentChunk) => KeepsAll(collected, InOrder, currentChunk)'
          /\ KeepsAll(collected, InOrder, Len(chunks)) => KeepsAll(collected, InOrder, Len(chunks))'
        BY <2>1, <2>2 DEF KeepsAll, SlotScore
    <2>4. /\ HasGathered(currentWorker) => HasGathered(currentWorker)'
          /\ HasGathered(WorkerCount) => HasGathered(WorkerCount)'
        BY <2>1 DEF HasGathered, KeepsAll, SlotScore
    <2>5. QED BY <2>1, <2>3, <2>4 DEF CollectedInv
<1>10. QED BY <1>2, <1>3, <1>4, <1>5, <1>6, <1>7, <1>8, <1>9 DEF Next

\* All workers together return as many scores as there are slots.
LEMMA AllAreGathered ==
    ASSUME TypesInv, phase \in {"workers_round", "gathering"}, HasGathered(WorkerCount)
    PROVE  Len(collected) = Len(chunks) * slots
<1>1. PICK row \in Seq(0..(Len(chunks) - 1)) :
        KeepsAll(collected, row, Len(row)) /\ Len(row) = Dealt(byAddress, WorkerCount + 1)
    BY DEF HasGathered
<1>2. byAddress \in Seq(0..(Len(chunks) - 1)) /\ Len(byAddress) = Len(chunks)
    BY DEF TypesInv, AddressInv
<1>3. 1 \in Workers
    BY WorkerCountAssumption DEF Workers
<1>4. Dealt(byAddress, WorkerCount + 1) = Len(chunks)
    BY <1>2, <1>3, DealtNext
<1>5. QED BY <1>1, <1>4 DEF KeepsAll

LEMMA CountStep ==
    PlacesInv /\ TypesInv /\ NeededInv /\ CollectedInv /\ CountInv /\ [Next]_vars => CountInv'
<1> SUFFICES ASSUME PlacesInv, TypesInv, NeededInv, CollectedInv, CountInv, [Next]_vars
             PROVE  CountInv'
    OBVIOUS
<1> DEFINE n == Len(chunks)
<1>1. /\ slots \in Nat /\ n \in Nat /\ repetition \in Nat /\ currentChunk \in Nat
      /\ total \in Nat
    BY RepetitionsAssumption DEF PlacesInv, CounterTypes, TypesInv, LocalTypes
<1>2. \A k \in Nat :
        /\ Counted(k) + slots = Counted(k + 1)
        /\ Counted(0) + n * slots = ((repetition + 1) * n + 0) * slots
        /\ Counted(n) = ((repetition + 1) * n + 0) * slots
        /\ (0 * n + 0) * slots = 0
    BY <1>1, CountedNext DEF Counted
<1>3. 0 \in Nat /\ 0 + 1 = 1
    OBVIOUS
<1>4. CASE AllocateChunk \/ FillVector
    <2>1. phase = "initializing" /\ phase' = phase /\ UNCHANGED <<repetition, total>>
        BY <1>4 DEF AllocateChunk, FillVector
    <2>2. QED BY <2>1 DEF CountInv
<1>5. CASE FinishInitializing
    <2>1. phase' = "round" /\ repetition = 0 /\ total = 0
          /\ UNCHANGED <<repetition, total, chunks, slots>>
        BY <1>5 DEF FinishInitializing, CountInv, options, benchmark
    <2>2. total' = Counted(0)'
        BY <1>2, <1>3, <2>1 DEF Counted
    <2>3. QED BY <2>1, <2>2 DEF CountInv
<1>6. ASSUME NEW k \in Nat, ReadChunk(k), total = Counted(k),
             UNCHANGED <<chunks, slots, repetition>>
      PROVE  CountInv'
    <2>1. CASE phase' = "terminated"
        BY <2>1 DEF CountInv
    <2>2. CASE phase' # "terminated"
        <3>1. phase' = "scanning" /\ total' = total + slots /\ currentChunk' = k
            BY <1>6, <2>2 DEF ReadChunk
        <3>2. total' = Counted(currentChunk + 1)'
            BY <1>2, <1>6, <3>1 DEF Counted
        <3>3. QED BY <3>1, <3>2 DEF CountInv
    <2>3. QED BY <2>1, <2>2
<1>7. CASE BeginRound
    <2>1. ReadChunk(0) /\ total = Counted(0) /\ UNCHANGED <<chunks, slots, repetition>>
        BY <1>7 DEF BeginRound, CountInv, options, benchmark
    <2>2. QED BY <1>3, <1>6, <2>1
<1>8. CASE NextChunk
    <2>1. ReadChunk(currentChunk + 1) /\ total = Counted(currentChunk + 1)
          /\ UNCHANGED <<chunks, slots, repetition>> /\ currentChunk + 1 \in Nat
        BY <1>1, <1>8 DEF NextChunk, CountInv, options, benchmark
    <2>2. QED BY <1>6, <2>1
<1>9. CASE EndRound
    <2>1. /\ phase = "scanning" /\ phase' = "round" /\ total' = Counted(currentChunk + 1)
          /\ repetition' = repetition + 1 /\ UNCHANGED <<chunks, slots>>
        BY <1>9 DEF EndRound, CountInv, options, benchmark
    <2>2. currentChunk + 1 = n
        BY <1>9, ScanEndsInLastChunk DEF EndRound
    <2>3. total' = Counted(0)'
        BY <1>2, <1>3, <2>1, <2>2 DEF Counted
    <2>4. QED BY <2>1, <2>3 DEF CountInv
<1>10. CASE EndRounds \/ EndWorkerRounds
    <2>1. /\ phase' \in {"worker_round", "workers_round"} /\ repetition' = 0 /\ total' = 0
          /\ UNCHANGED <<chunks, slots>>
        BY <1>10 DEF EndRounds, EndWorkerRounds, options, benchmark
    <2>2. total' = Counted(0)'
        BY <1>2, <1>3, <2>1 DEF Counted
    <2>3. QED BY <2>1, <2>2 DEF CountInv
<1>11. CASE BeginWorkerRound
    <2>1. /\ phase = "worker_round" /\ phase' = "accepting" /\ currentChunk' = 0
          /\ UNCHANGED <<chunks, slots, repetition, total>>
        BY <1>11 DEF BeginWorkerRound, options, benchmark
    <2>2. QED BY <2>1 DEF CountInv, Counted
<1>12. CASE AcceptChunk
    <2>1. /\ phase = "accepting" /\ phase' = phase /\ currentChunk' = currentChunk + 1
          /\ total' = total + slots /\ UNCHANGED <<chunks, slots, repetition>>
        BY <1>12 DEF AcceptChunk, options, benchmark
    <2>2. total' = Counted(currentChunk + 1)
        BY <1>1, <1>2, <2>1 DEF CountInv
    <2>3. QED BY <2>1, <2>2 DEF CountInv, Counted
<1>13. CASE EndWorkerRound
    <2>1. /\ phase = "accepting" /\ phase' = "worker_round" /\ currentChunk = n
          /\ repetition' = repetition + 1 /\ UNCHANGED <<chunks, slots, total>>
        BY <1>13 DEF EndWorkerRound, options, benchmark
    <2>2. total = Counted(n)
        BY <2>1 DEF CountInv
    <2>3. total' = Counted(0)'
        BY <1>2, <1>3, <2>1, <2>2 DEF Counted
    <2>4. QED BY <2>1, <2>3 DEF CountInv
<1>14. CASE BeginWorkersRound \/ GatherWorker
    <2>1. /\ phase \in {"workers_round", "gathering"} /\ phase' = "gathering"
          /\ UNCHANGED <<chunks, slots, repetition, total>>
        BY <1>14 DEF BeginWorkersRound, GatherWorker, options, benchmark
    <2>2. QED BY <2>1 DEF CountInv, Counted
<1>15. CASE EndWorkersRound
    <2>1. /\ phase = "gathering" /\ phase' = "workers_round" /\ currentWorker = WorkerCount
          /\ repetition' = repetition + 1 /\ total' = total + Len(collected)
          /\ UNCHANGED <<chunks, slots>>
        BY <1>15 DEF EndWorkersRound, AnyCast, FinishReducing, ScoreResult, options, benchmark
    <2>2. Len(collected) = n * slots
        BY <2>1, AllAreGathered DEF CollectedInv
    <2>3. total = Counted(0)
        BY <2>1 DEF CountInv
    <2>4. total' = Counted(0)'
        BY <1>2, <1>3, <2>1, <2>2, <2>3 DEF Counted
    <2>5. QED BY <2>1, <2>4 DEF CountInv
<1>16. CASE ScanVector \/ Stopped \/ UNCHANGED vars
    <2>1. UNCHANGED <<phase, chunks, slots, repetition, total, currentChunk>>
        BY <1>16 DEF ScanVector, Stopped, vars, options, benchmark
    <2>2. QED BY <2>1 DEF CountInv, Counted
<1>17. QED BY <1>4, <1>5, <1>7, <1>8, <1>9, <1>10, <1>11, <1>12, <1>13, <1>14, <1>15, <1>16 DEF Next

\* After a scan there is a chunk.
UsedInv ==
    \/ phase \in {"scanning", "worker_round", "accepting", "workers_round", "gathering"}
    \/ phase = "round" /\ repetition > 0
    => Len(chunks) > 0

LEMMA UsedStep ==
    PlacesInv /\ TypesInv /\ CountInv /\ UsedInv /\ [Next]_vars => UsedInv'
<1> SUFFICES ASSUME PlacesInv, TypesInv, CountInv, UsedInv, [Next]_vars PROVE UsedInv'
    OBVIOUS
<1>1. CASE AllocateChunk \/ FillVector
    <2>1. phase' = "initializing"
        BY <1>1 DEF AllocateChunk, FillVector
    <2>2. QED BY <2>1 DEF UsedInv
<1>2. CASE FinishInitializing
    <2>1. phase' = "round" /\ repetition' = 0
        BY <1>2 DEF FinishInitializing, CountInv
    <2>2. QED BY <2>1 DEF UsedInv
<1>3. CASE BeginRound \/ NextChunk
    <2>1. chunks' = chunks /\ currentChunk' \in Nat /\ Len(chunks) \in Nat
        BY <1>3 DEF BeginRound, NextChunk, ReadChunk, benchmark, PlacesInv, CounterTypes
    <2>2. phase' = "terminated" \/ (phase' = "scanning" /\ currentChunk' < Len(chunks))
        BY <1>3 DEF BeginRound, NextChunk, ReadChunk
    <2>3. QED BY <2>1, <2>2 DEF UsedInv
<1>4. CASE EndRounds
    <2>1. phase = "round" /\ repetition > 0 /\ chunks' = chunks
        BY <1>4, RepetitionsAssumption DEF EndRounds, benchmark
    <2>2. QED BY <2>1 DEF UsedInv
<1>5. CASE \/ ScanVector \/ EndRound \/ BeginWorkerRound \/ AcceptChunk \/ EndWorkerRound
           \/ EndWorkerRounds \/ BeginWorkersRound \/ GatherWorker \/ EndWorkersRound
    <2>1. /\ phase \in {"scanning", "worker_round", "accepting", "workers_round", "gathering"}
          /\ chunks' = chunks
        BY <1>5 DEF ScanVector, EndRound, BeginWorkerRound, AcceptChunk, EndWorkerRound,
           EndWorkerRounds, BeginWorkersRound, GatherWorker, EndWorkersRound, benchmark
    <2>2. QED BY <2>1 DEF UsedInv
<1>6. CASE Stopped \/ UNCHANGED vars
    <2>1. UNCHANGED <<phase, repetition, chunks>>
        BY <1>6 DEF Stopped, vars, benchmark
    <2>2. QED BY <2>1 DEF UsedInv
<1>7. QED BY <1>1, <1>2, <1>3, <1>4, <1>5, <1>6 DEF Next

RoundsInv == NeededInv /\ CollectedInv /\ CountInv /\ UsedInv

LEMMA RoundsHold == Spec => [](PlacesInv /\ TypesInv /\ RoundsInv)
<1>1. Init => RoundsInv
    <2>1. Init => Len(chunks) = 0
        BY DEF Init
    <2>2. QED BY <2>1 DEF Init, RoundsInv, NeededInv, CollectedInv, CountInv, UsedInv
<1>2. PlacesInv /\ TypesInv /\ RoundsInv /\ [Next]_vars => RoundsInv'
    BY NeededStep, CollectedStep, CountStep, UsedStep DEF RoundsInv
<1>3. Init => PlacesInv /\ TypesInv
    BY PlacesInit, TypesInit
<1>4. PlacesInv /\ TypesInv /\ [Next]_vars => PlacesInv' /\ TypesInv'
    BY PlacesStep, TypesStep
<1>5. QED BY <1>1, <1>2, <1>3, <1>4, PTL DEF Spec

\* All kinds of rounds count every slot once per repetition (test_round.cpp:33
\* and :47, test_round_worker.cpp:36, test_round_worker_mt.cpp:52, server.cpp:131).
THEOREM SlotsCounted == Spec => []SlotsAreCounted
<1>1. PlacesInv /\ TypesInv /\ RoundsInv => SlotsAreCounted
    <2> SUFFICES ASSUME PlacesInv, TypesInv, RoundsInv,
                        phase \in {"round", "worker_round", "workers_round"}
                 PROVE  /\ total = repetition * Len(chunks) * slots
                        /\ phase # "round" /\ repetition > 0 => Len(collected) = Len(chunks) * slots
        BY DEF SlotsAreCounted
    <2>1. slots \in Nat /\ Len(chunks) \in Nat /\ repetition \in Nat
        BY DEF PlacesInv, CounterTypes, TypesInv, LocalTypes
    <2>2. total = repetition * Len(chunks) * slots
        <3>1. total = Counted(0)
            BY DEF RoundsInv, CountInv
        <3>2. (repetition * Len(chunks) + 0) * slots = repetition * Len(chunks) * slots
            BY <2>1, CountedNext
        <3>3. QED BY <3>1, <3>2 DEF Counted
    <2>3. ASSUME phase # "round", repetition > 0 PROVE Len(collected) = Len(chunks) * slots
        <3>1. CASE phase = "worker_round"
            BY <2>3, <3>1 DEF RoundsInv, CollectedInv, KeepsAll
        <3>2. CASE phase = "workers_round"
            BY <2>3, <3>2, AllAreGathered DEF RoundsInv, CollectedInv
        <3>3. QED BY <2>3, <3>1, <3>2
    <2>4. QED BY <2>2, <2>3
<1>2. QED BY <1>1, RoundsHold, PTL

-----------------------------------------------------------------------------
(* What a scan finds.                                                        *)

\* Vector v is the first of the best of the n first vectors in e.
IsFirstBest(v, e, n) ==
    /\ v \in 0..(n - 1)
    /\ \A u \in 0..(n - 1) : e[u + 1] <= e[v + 1]
    /\ \A u \in 0..(v - 1) : e[u + 1] < e[v + 1]

\* r is the score of such a vector at its place.
IsBestVector(r, e, n) ==
    \E v \in 0..(n - 1), c \in Nat :
        /\ c * slots <= v /\ v < c * slots + slots
        /\ r = Score(c, v, e[v + 1])
        /\ IsFirstBest(v, e, n)

LEMMA ScoresAreIntegers ==
    ASSUME NEW e \in Seq(Scores)
    PROVE  e \in Seq(Int) /\ \A i \in 1..Len(e) : e[i] \in Int
<1>1. \A score \in Scores : score \in Int
    BY ScoresAssumption
<1>2. Len(e) \in Nat /\ e \in [1..Len(e) -> Scores]
    OBVIOUS
<1>3. \A i \in 1..Len(e) : e[i] \in Int
    BY <1>1, <1>2
<1>4. e \in [1..Len(e) -> Int]
    BY <1>2, <1>3
<1>5. QED BY <1>2, <1>3, <1>4

LEMMA FirstBestIsUnique ==
    ASSUME NEW e \in Seq(Int), NEW n \in 0..Len(e), NEW v, NEW w,
           IsFirstBest(v, e, n), IsFirstBest(w, e, n)
    PROVE  v = w
<1>1. v \in 0..(n - 1) /\ w \in 0..(n - 1) /\ e[v + 1] \in Int /\ e[w + 1] \in Int
    BY DEF IsFirstBest
<1>2. e[v + 1] <= e[w + 1] /\ e[w + 1] <= e[v + 1]
    BY <1>1 DEF IsFirstBest
<1>3. ~(v < w)
    BY <1>1, <1>2 DEF IsFirstBest
<1>4. ~(w < v)
    BY <1>1, <1>2 DEF IsFirstBest
<1>5. QED BY <1>1, <1>3, <1>4

LEMMA FirstBestNext ==
    ASSUME NEW e \in Seq(Int), NEW n \in Nat, n < Len(e)
    PROVE  /\ \A v : IsFirstBest(v, e, n) /\ e[n + 1] <= e[v + 1] => IsFirstBest(v, e, n + 1)
           /\ (\A u \in 0..(n - 1) : e[u + 1] < e[n + 1]) => IsFirstBest(n, e, n + 1)
           /\ \A v : IsFirstBest(v, e, n) /\ e[v + 1] < e[n + 1] => IsFirstBest(n, e, n + 1)
<1>1. \A u \in 0..n : e[u + 1] \in Int /\ (u = n \/ u \in 0..(n - 1))
    OBVIOUS
<1>2. 0..((n + 1) - 1) = 0..n /\ n \in 0..n
    OBVIOUS
<1>3. ASSUME NEW v, IsFirstBest(v, e, n), e[n + 1] <= e[v + 1] PROVE IsFirstBest(v, e, n + 1)
    BY <1>1, <1>2, <1>3 DEF IsFirstBest
<1>4. ASSUME \A u \in 0..(n - 1) : e[u + 1] < e[n + 1] PROVE IsFirstBest(n, e, n + 1)
    BY <1>1, <1>2, <1>4 DEF IsFirstBest
<1>5. ASSUME NEW v, IsFirstBest(v, e, n), e[v + 1] < e[n + 1] PROVE IsFirstBest(n, e, n + 1)
    <2>1. v \in 0..n /\ \A u \in 0..(n - 1) : e[u + 1] <= e[v + 1]
        BY <1>5 DEF IsFirstBest
    <2>2. \A u \in 0..(n - 1) : e[u + 1] < e[n + 1]
        BY <1>1, <1>2, <1>5, <2>1
    <2>3. QED BY <1>4, <2>2
<1>6. QED BY <1>3, <1>4, <1>5

\* The loops keep the first best when they come to vector n.
LEMMA BestVectorNext ==
    ASSUME slots \in Nat \ {0}, NEW e \in Seq(Scores), NEW n \in Nat, n < Len(e),
           NEW c \in Nat, c * slots <= n, n < c * slots + slots,
           NEW r, IsBestVector(r, e, n)
    PROVE  IsBestVector(IF IsLess(r, Score(c, n, e[n + 1])) THEN Score(c, n, e[n + 1]) ELSE r,
                        e, n + 1)
<1> DEFINE new == Score(c, n, e[n + 1])
<1>1. e \in Seq(Int)
    BY ScoresAreIntegers
<1>2. PICK v \in 0..(n - 1), b \in Nat :
        /\ b * slots <= v /\ v < b * slots + slots
        /\ r = Score(b, v, e[v + 1])
        /\ IsFirstBest(v, e, n)
    BY DEF IsBestVector
<1>3. e[v + 1] \in Int /\ e[n + 1] \in Int
    BY <1>1
<1>4. IsLess(r, new) <=> e[v + 1] < e[n + 1]
    BY <1>2, <1>3, ScoresAssumption DEF IsLess, Score
<1>5. n \in 0..((n + 1) - 1) /\ v \in 0..((n + 1) - 1)
    OBVIOUS
<1>6. CASE IsLess(r, new)
    <2>1. IsFirstBest(n, e, n + 1)
        BY <1>1, <1>2, <1>4, <1>6, FirstBestNext
    <2>2. IsBestVector(new, e, n + 1)
        BY <1>5, <2>1 DEF IsBestVector
    <2>3. QED BY <1>6, <2>2
<1>7. CASE ~IsLess(r, new)
    <2>1. IsFirstBest(v, e, n + 1)
        BY <1>1, <1>2, <1>3, <1>4, <1>7, FirstBestNext
    <2>2. IsBestVector(r, e, n + 1)
        BY <1>2, <1>5, <2>1 DEF IsBestVector
    <2>3. QED BY <1>7, <2>2
<1>8. QED BY <1>6, <1>7

LEMMA BestVectorIsUnique ==
    ASSUME slots \in Nat \ {0}, NEW e \in Seq(Int), NEW n \in 0..Len(e), NEW r, NEW q,
           IsBestVector(r, e, n), IsBestVector(q, e, n)
    PROVE  r = q
<1>1. PICK v \in 0..(n - 1), b \in Nat :
        /\ b * slots <= v /\ v < b * slots + slots
        /\ r = Score(b, v, e[v + 1]) /\ IsFirstBest(v, e, n)
    BY DEF IsBestVector
<1>2. PICK w \in 0..(n - 1), c \in Nat :
        /\ c * slots <= w /\ w < c * slots + slots
        /\ q = Score(c, w, e[w + 1]) /\ IsFirstBest(w, e, n)
    BY DEF IsBestVector
<1>3. v = w
    BY <1>1, <1>2, FirstBestIsUnique
<1>4. b = c
    <2>1. b * slots \in Nat /\ c * slots \in Nat
        OBVIOUS
    <2>2. v - b * slots \in 0..(slots - 1) /\ v - c * slots \in 0..(slots - 1)
        BY <1>1, <1>2, <1>3, <2>1
    <2>3. b * slots + (v - b * slots) = c * slots + (v - c * slots)
        BY <2>1
    <2>4. QED BY <2>2, <2>3, PlacesAreDistinct
<1>5. QED BY <1>1, <1>2, <1>3, <1>4

\* The best match that is expected, and what a scan has found so far.
ExpectedBestInv ==
    IF Len(expected) = 0 THEN expectedBest = NoScore
    ELSE IsBestVector(expectedBest, expected, Len(expected))

ScanBestInv ==
    phase = "scanning" =>
        \/ /\ best = Score(0, 0, 0)
           /\ \A u \in 0..(vectorIdx - 1) : expected[u + 1] <= 0
        \/ best.score > 0 /\ IsBestVector(best, expected, vectorIdx)

LEMMA SameBest ==
    ASSUME NEW e, NEW f, NEW n \in Nat, \A u \in 0..(n - 1) : e[u + 1] = f[u + 1],
           NEW r, IsBestVector(r, e, n)
    PROVE  IsBestVector(r, f, n)
<1>1. PICK v \in 0..(n - 1), c \in Nat :
        /\ c * slots <= v /\ v < c * slots + slots
        /\ r = Score(c, v, e[v + 1]) /\ IsFirstBest(v, e, n)
    BY DEF IsBestVector
<1>2. \A u \in 0..(v - 1) : u \in 0..(n - 1)
    OBVIOUS
<1>3. IsFirstBest(v, f, n)
    BY <1>1, <1>2 DEF IsFirstBest
<1>4. QED BY <1>1, <1>3 DEF IsBestVector

LEMMA ExpectedBestFill == PlacesInv /\ ExpectedBestInv /\ FillVector => ExpectedBestInv'
<1> SUFFICES ASSUME PlacesInv, ExpectedBestInv, FillVector PROVE ExpectedBestInv'
    OBVIOUS
<1> DEFINE m == Len(chunks) - 1
           n == Len(expected)
<1>1. /\ slots \in Nat \ {0} /\ expected \in Seq(Scores) /\ remaining \in 1..slots
      /\ Len(chunks) \in Nat /\ n \in Nat
      /\ vectorIdx = n /\ n + remaining = Len(chunks) * slots
    BY DEF PlacesInv, CounterTypes, InitializingInv, FillVector
<1>2. PICK score \in Scores :
        LET new == Score(m, n, score) IN
        /\ expected' = Append(expected, score)
        /\ expectedBest' = IF IsBetter(new, expectedBest) THEN new ELSE expectedBest
        /\ slots' = slots
    BY <1>1 DEF FillVector, options
<1> DEFINE new == Score(m, n, score)
<1>3. m \in Nat /\ m * slots <= n /\ n < m * slots + slots
    <2>1. Len(chunks) # 0
        <3>1. 0 * slots = 0
            BY <1>1
        <3>2. QED BY <1>1, <3>1
    <2>2. m \in Nat /\ m + 1 = Len(chunks)
        BY <1>1, <2>1
    <2> DEFINE a == m * slots
    <2>3. a \in Nat /\ Len(chunks) * slots = a + slots
        BY <1>1, <2>2, NextMultiple
    <2> HIDE DEF a, m
    <2>4. a <= n /\ n < a + slots
        BY <1>1, <2>3
    <2>5. QED BY <2>2, <2>4 DEF a
<1>4. /\ expected' \in Seq(Scores) /\ Len(expected') = n + 1 /\ expected'[n + 1] = score
      /\ \A u \in 0..(n - 1) : expected[u + 1] = expected'[u + 1]
    BY <1>1, <1>2
<1>5. /\ NaN \notin Int /\ expected' \in Seq(Int)
      /\ \A i \in 1..n : expected[i] \in Int
    BY <1>1, <1>4, ScoresAssumption, ScoresAreIntegers
<1>6. new.score = score
    BY DEF Score
<1> HIDE DEF m, n
<1>7. IsBestVector(expectedBest', expected', n + 1)
    <2>1. CASE n = 0
        <3>1. expectedBest' = new
            BY <1>2, <2>1 DEF n, ExpectedBestInv, IsBetter, IsInvalid, NoScore, Score
        <3>2. IsFirstBest(n, expected', n + 1)
            BY <1>4, <1>5, <2>1, FirstBestNext
        <3>3. QED BY <1>1, <1>3, <1>4, <3>1, <3>2 DEF IsBestVector
    <2>2. CASE n # 0
        <3>1. IsBestVector(expectedBest, expected, n)
            BY <2>2 DEF n, ExpectedBestInv
        <3>2. IsBestVector(expectedBest, expected', n)
            BY <1>1, <1>4, <3>1, SameBest
        <3>3. expectedBest.score # NaN
            <4>1. PICK v \in 0..(n - 1), c \in Nat : expectedBest = Score(c, v, expected[v + 1])
                BY <3>1 DEF IsBestVector
            <4>2. expected[v + 1] \in Int
                BY <1>1, <1>5
            <4>3. QED BY <1>5, <4>1, <4>2 DEF Score
        <3>4. expectedBest' = IF IsLess(expectedBest, new) THEN new ELSE expectedBest
            BY <1>2, <3>3 DEF IsBetter, IsInvalid
        <3>5. new = Score(m, n, expected'[n + 1]) /\ n < Len(expected')
            BY <1>1, <1>4
        <3> HIDE DEF new
        <3>6. IsBestVector(IF IsLess(expectedBest, new) THEN new ELSE expectedBest, expected', n + 1)
            BY <1>1, <1>3, <1>4, <3>2, <3>5, BestVectorNext
        <3>7. QED BY <3>4, <3>6
    <2>3. QED BY <2>1, <2>2
<1>8. IsBestVector(expectedBest, expected, Len(expected))'
    BY <1>2, <1>4, <1>7 DEF IsBestVector
<1>9. Len(expected') # 0
    BY <1>1, <1>4
<1>10. QED BY <1>8, <1>9 DEF ExpectedBestInv

LEMMA ScanBestScan == PlacesInv /\ ScanBestInv /\ ScanVector => ScanBestInv'
<1> SUFFICES ASSUME PlacesInv, ScanBestInv, ScanVector PROVE ScanBestInv'
    OBVIOUS
<1> DEFINE n == vectorIdx
           new == Score(currentChunk, n, expected[n + 1])
<1>1. /\ slots \in Nat \ {0} /\ expected \in Seq(Scores) /\ n \in Nat /\ currentChunk \in Nat
    BY DEF PlacesInv, CounterTypes
<1>2. /\ n + 1 \in 1..Len(expected) /\ currentChunk * slots + offset = n
      /\ offset \in 0..(slots - 1)
      /\ chunks[currentChunk + 1][offset] = expected[n + 1]
    BY ScanReads
<1>3. /\ phase = "scanning" /\ phase' = phase /\ n' = n + 1
      /\ best' = IF IsLess(best, new) THEN new ELSE best
      /\ UNCHANGED <<slots, expected>>
    BY <1>2 DEF ScanVector, options, benchmark
<1>4. currentChunk * slots <= n /\ n < currentChunk * slots + slots
    BY <1>1, <1>2
<1>5. /\ NaN \notin Int /\ expected \in Seq(Int) /\ Len(expected) \in Nat
      /\ \A i \in 1..Len(expected) : expected[i] \in Int
    BY <1>1, ScoresAssumption, ScoresAreIntegers
<1>6. new.score = expected[n + 1] /\ expected[n + 1] \in Int /\ n < Len(expected)
    BY <1>1, <1>2, <1>5 DEF Score
<1>7. CASE best = Score(0, 0, 0) /\ \A u \in 0..(n - 1) : expected[u + 1] <= 0
    <2>1. IsLess(best, new) <=> expected[n + 1] > 0
        BY <1>5, <1>6, <1>7 DEF IsLess, Score
    <2>2. CASE expected[n + 1] > 0
        <3>1. \A u \in 0..(n - 1) : expected[u + 1] < expected[n + 1]
            <4>1. ASSUME NEW u \in 0..(n - 1) PROVE expected[u + 1] < expected[n + 1]
                <5>1. expected[u + 1] \in Int /\ expected[u + 1] <= 0
                    BY <1>1, <1>5, <1>6, <1>7
                <5>2. QED BY <5>1, <1>6, <2>2
            <4>2. QED BY <4>1
        <3>3. IsFirstBest(n, expected, n + 1)
            BY <1>1, <1>5, <1>6, <3>1, FirstBestNext
        <3>4. n \in 0..((n + 1) - 1)
            BY <1>1
        <3>5. IsBestVector(new, expected, n + 1)
            BY <1>1, <1>4, <3>3, <3>4 DEF IsBestVector
        <3>6. best' = new /\ new.score > 0
            BY <1>3, <1>6, <2>1, <2>2
        <3>7. IsBestVector(best, expected, vectorIdx)'
            BY <1>3, <3>5, <3>6 DEF IsBestVector
        <3>8. QED BY <3>6, <3>7 DEF ScanBestInv
    <2>3. CASE ~(expected[n + 1] > 0)
        <3>1. best' = Score(0, 0, 0)
            BY <1>3, <1>7, <2>1, <2>3
        <3>2. \A u \in 0..n : expected[u + 1] <= 0
            BY <1>1, <1>6, <1>7, <2>3
        <3>3. n' - 1 = n
            BY <1>1, <1>3
        <3>4. QED BY <1>3, <3>1, <3>2, <3>3 DEF ScanBestInv
    <2>4. QED BY <2>2, <2>3
<1>8. CASE best.score > 0 /\ IsBestVector(best, expected, n)
    <2> HIDE DEF new
    <2>1. IsBestVector(IF IsLess(best, new) THEN new ELSE best, expected, n + 1)
        BY <1>1, <1>4, <1>6, <1>8, BestVectorNext DEF new
    <2>2. best.score \in Int
        <3>1. PICK v \in 0..(n - 1), c \in Nat : best = Score(c, v, expected[v + 1])
            BY <1>8 DEF IsBestVector
        <3>2. expected[v + 1] \in Int
            BY <1>1, <1>5, <1>6
        <3>3. QED BY <3>1, <3>2 DEF Score
    <2>3. best'.score > 0
        BY <1>3, <1>6, <1>8, <2>2 DEF IsLess
    <2>4. IsBestVector(best, expected, vectorIdx)'
        BY <1>3, <2>1 DEF IsBestVector
    <2>5. QED BY <2>3, <2>4 DEF ScanBestInv
<1>9. QED BY <1>3, <1>7, <1>8 DEF ScanBestInv

BestInv == ExpectedBestInv /\ ScanBestInv

LEMMA BestStep == PlacesInv /\ BestInv /\ [Next]_vars => BestInv'
<1> SUFFICES ASSUME PlacesInv, BestInv, [Next]_vars PROVE BestInv'
    OBVIOUS
<1>1. CASE FillVector
    <2>1. ScanBestInv'
        BY <1>1 DEF FillVector, ScanBestInv
    <2>2. QED BY <1>1, <2>1, ExpectedBestFill DEF BestInv
<1>2. ASSUME UNCHANGED <<slots, expected, expectedBest>> PROVE ExpectedBestInv'
    BY <1>2 DEF BestInv, ExpectedBestInv, IsBestVector
<1>3. CASE ScanVector
    <2>1. UNCHANGED <<slots, expected, expectedBest>>
        BY <1>3 DEF ScanVector, options, benchmark
    <2>2. QED BY <1>2, <1>3, <2>1, ScanBestScan DEF BestInv
<1>4. CASE BeginRound
    <2>1. UNCHANGED <<slots, expected, expectedBest>> /\ best' = Score(0, 0, 0) /\ vectorIdx' = 0
        BY <1>4 DEF BeginRound, options, benchmark
    <2>2. QED BY <1>2, <2>1 DEF BestInv, ScanBestInv
<1>5. CASE NextChunk \/ Stopped \/ UNCHANGED vars
    <2>1. /\ UNCHANGED <<slots, expected, expectedBest, best, vectorIdx>>
          /\ phase' = "scanning" => phase = "scanning"
        BY <1>5 DEF NextChunk, ReadChunk, Stopped, vars, options, benchmark
    <2>2. QED BY <1>2, <2>1 DEF BestInv, ScanBestInv, IsBestVector
<1>6. CASE \/ AllocateChunk \/ FinishInitializing \/ EndRound \/ EndRounds
           \/ BeginWorkerRound \/ AcceptChunk \/ EndWorkerRound \/ EndWorkerRounds
           \/ BeginWorkersRound \/ GatherWorker \/ EndWorkersRound
    <2>1. UNCHANGED <<slots, expected, expectedBest>> /\ phase' # "scanning"
        BY <1>6 DEF AllocateChunk, FinishInitializing, EndRound, EndRounds, BeginWorkerRound,
           AcceptChunk, EndWorkerRound, EndWorkerRounds, BeginWorkersRound, GatherWorker,
           EndWorkersRound, options, benchmark
    <2>2. QED BY <1>2, <2>1 DEF BestInv, ScanBestInv
<1>7. QED BY <1>1, <1>3, <1>4, <1>5, <1>6 DEF Next

LEMMA BestHolds == Spec => [](PlacesInv /\ BestInv)
<1>1. Init => BestInv
    BY DEF Init, BestInv, ExpectedBestInv, ScanBestInv
<1>2. QED BY <1>1, PlacesInit, PlacesStep, BestStep, PTL DEF Spec

\* A scan finds the expected best match where it is expected, but for the initial
\* 0 at 0.0, which only a positive score replaces (benchmark.cpp:104-123,
\* test_round.cpp:27 and :63-66).
THEOREM ScansFindExpected == Spec => []ScanFindsExpected
<1>1. PlacesInv /\ NeededInv /\ BestInv => ScanFindsExpected
    <2> SUFFICES ASSUME PlacesInv, NeededInv, BestInv, phase = "scanning", vectorIdx = numVectors
                 PROVE  best = IF expectedBest.score > 0 THEN expectedBest ELSE Score(0, 0, 0)
        BY DEF ScanFindsExpected
    <2> DEFINE n == Len(expected)
    <2>1. /\ vectorIdx = n /\ n \in Nat /\ expected \in Seq(Int) /\ slots \in Nat \ {0}
          /\ \A i \in 1..n : expected[i] \in Int
        BY ScoresAreIntegers DEF PlacesInv, CounterTypes, InitializedInv
    <2>2. n # 0
        <3>1. /\ Len(chunks) - 1 \in Nat /\ Len(chunks) > 0
              /\ (Len(chunks) - 1) * slots < numVectors
            BY DEF PlacesInv, CounterTypes, ScanningInv, NeededInv
        <3>2. (Len(chunks) - 1) * slots \in Nat
            BY <2>1, <3>1
        <3>3. QED BY <2>1, <3>1, <3>2
    <2>3. IsBestVector(expectedBest, expected, n)
        BY <2>2 DEF BestInv, ExpectedBestInv
    <2>4. PICK v \in 0..(n - 1), c \in Nat :
            expectedBest = Score(c, v, expected[v + 1]) /\ IsFirstBest(v, expected, n)
        BY <2>3 DEF IsBestVector
    <2>5. expectedBest.score = expected[v + 1]
        BY <2>4 DEF Score
    <2>6. CASE best = Score(0, 0, 0) /\ \A u \in 0..(vectorIdx - 1) : expected[u + 1] <= 0
        <3>1. ~(expectedBest.score > 0)
            BY <2>1, <2>5, <2>6
        <3>2. QED BY <2>6, <3>1
    <2>7. CASE best.score > 0 /\ IsBestVector(best, expected, vectorIdx)
        <3>1. best = expectedBest
            BY <2>1, <2>3, <2>7, BestVectorIsUnique
        <3>2. QED BY <2>7, <3>1
    <2>8. QED BY <2>6, <2>7 DEF BestInv, ScanBestInv
<1>2. QED BY <1>1, RoundsHold, BestHolds, PTL DEF RoundsInv

-----------------------------------------------------------------------------
(* What the workers find.                                                    *)

\* The vectors fill the chunks if a chunk's size divides their number.
LEMMA AllSlotsAreWritten ==
    ASSUME PlacesInv, NeededInv, Len(chunks) > 0, phase # "initializing", numVectors % slots = 0
    PROVE  numVectors = Len(chunks) * slots
<1> DEFINE n == Len(chunks)
           q == numVectors \div slots
<1>1. /\ slots \in Nat \ {0} /\ numVectors \in Nat /\ n \in Nat \ {0}
      /\ numVectors <= n * slots /\ (n - 1) * slots < numVectors
    BY DEF PlacesInv, CounterTypes, InitializedInv, VectorsInPlace, NeededInv
<1>2. q \in Nat /\ numVectors = q * slots
    BY <1>1
<1> HIDE DEF n, q
<1>3. ~(n < q)
    <2>1. ASSUME n < q PROVE FALSE
        <3>1. n * slots + slots <= q * slots
            BY <1>1, <1>2, <2>1, SmallerMultiple
        <3>2. n * slots \in Nat
            BY <1>1
        <3>3. QED BY <1>1, <1>2, <3>1, <3>2
    <2>2. QED BY <2>1
<1>4. n - 1 < q
    <2>1. n - 1 \in Nat /\ 0 \in 0..(slots - 1) /\ (n - 1) * slots + 0 < q * slots
        BY <1>1, <1>2
    <2>2. QED BY <1>1, <1>2, <2>1, PlaceBounds
<1>5. n = q
    BY <1>1, <1>2, <1>3, <1>4
<1>6. QED BY <1>2, <1>5 DEF n

\* A slot then has the score of the vector whose number says its place.
LEMMA SlotsAreVectors ==
    ASSUME PlacesInv, phase # "initializing", numVectors = Len(chunks) * slots,
           NEW c \in 0..(Len(chunks) - 1), NEW i \in 0..(slots - 1)
    PROVE  /\ c * slots + i \in 0..(numVectors - 1)
           /\ SlotScore(c, i) = Score(c, i, expected[c * slots + i + 1])
           /\ expected[c * slots + i + 1] \in Int
<1> DEFINE v == c * slots + i
<1>1. /\ slots \in Nat \ {0} /\ Len(chunks) \in Nat /\ numVectors \in Nat
      /\ expected \in Seq(Scores) /\ Len(expected) = numVectors
    BY DEF PlacesInv, CounterTypes, InitializedInv
<1>2. c \in Nat /\ c < Len(chunks) /\ c + 1 \in 1..Len(chunks) /\ (c + 1) - 1 = c
    BY <1>1
<1>3. v \in Nat /\ v < numVectors
    BY <1>1, <1>2, PlaceBounds
<1>4. ((c + 1) - 1) * slots + i < Len(expected)
    BY <1>1, <1>2, <1>3
<1>5. chunks[c + 1][i] = expected[((c + 1) - 1) * slots + i + 1]
    BY <1>2, <1>4 DEF PlacesInv, VectorsInPlace
<1>6. chunks[c + 1][i] = expected[v + 1]
    BY <1>2, <1>5
<1> HIDE DEF v
<1>7. v + 1 \in 1..Len(expected) /\ v \in 0..(numVectors - 1)
    BY <1>1, <1>3
<1>8. expected[v + 1] \in Int
    BY <1>1, <1>7, ScoresAreIntegers
<1>9. QED BY <1>6, <1>7, <1>8 DEF SlotScore, v

\* The expected best match is one of them.
LEMMA ExpectedIsThere ==
    ASSUME PlacesInv, ExpectedBestInv, phase # "initializing", Len(chunks) > 0,
           numVectors = Len(chunks) * slots
    PROVE  \E c \in 0..(Len(chunks) - 1), i \in 0..(slots - 1) :
                LET v == c * slots + i
                IN  expectedBest = Score(c, v, expected[v + 1]) /\ IsFirstBest(v, expected, numVectors)
<1>1. /\ slots \in Nat \ {0} /\ Len(chunks) \in Nat \ {0} /\ numVectors \in Nat
      /\ Len(expected) = numVectors
    BY DEF PlacesInv, CounterTypes, InitializedInv
<1>2. numVectors # 0
    <2>1. 0 * slots + 0 < Len(chunks) * slots
        <3>1. 0 \in 0..(slots - 1) /\ 0 \in Nat /\ 0 < Len(chunks)
            BY <1>1
        <3>2. QED BY <1>1, <3>1, PlaceBounds
    <2>2. QED BY <1>1, <2>1
<1>3. PICK v \in 0..(numVectors - 1), c \in Nat :
        /\ c * slots <= v /\ v < c * slots + slots
        /\ expectedBest = Score(c, v, expected[v + 1])
        /\ IsFirstBest(v, expected, numVectors)
    BY <1>1, <1>2 DEF ExpectedBestInv, IsBestVector
<1>4. c * slots \in Nat
    BY <1>1
<1> DEFINE i == v - c * slots
<1>5. i \in 0..(slots - 1) /\ c * slots + i = v
    BY <1>1, <1>3, <1>4
<1>6. c < Len(chunks)
    <2>1. c * slots + i < Len(chunks) * slots
        BY <1>1, <1>3, <1>5
    <2>2. QED BY <1>1, <1>5, <2>1, PlaceBounds
<1>7. c \in 0..(Len(chunks) - 1)
    BY <1>1, <1>6
<1>8. QED BY <1>3, <1>5, <1>7

\* What a worker finds in all chunks is the expected best match.
LEMMA WorkerFinds ==
    ASSUME PlacesInv, TypesInv, ExpectedBestInv, phase # "initializing", Len(chunks) > 0,
           numVectors = Len(chunks) * slots,
           KeepsAll(collected, InOrder, Len(chunks))
    PROVE  LET r == SelectBest(collected) IN
           /\ r.score = expectedBest.score
           /\ r.chunk = expectedBest.chunk
           /\ r.chunk * slots + r.index = expectedBest.index
<1> DEFINE r == SelectBest(collected)
           n == Len(chunks)
<1>1. /\ slots \in Nat \ {0} /\ n \in Nat /\ numVectors \in Nat /\ expected \in Seq(Int)
      /\ Len(expected) = numVectors /\ collected \in Seq(Results)
    BY ScoresAreIntegers, FoundAreResults
       DEF PlacesInv, CounterTypes, InitializedInv, TypesInv, FoundTypes
<1>2. PICK c \in 0..(n - 1), i \in 0..(slots - 1) :
        LET v == c * slots + i
        IN  expectedBest = Score(c, v, expected[v + 1]) /\ IsFirstBest(v, expected, numVectors)
    BY ExpectedIsThere
<1> DEFINE v == c * slots + i
<1>3. Len(collected) = numVectors
    BY DEF KeepsAll
<1>4. ASSUME NEW p \in 1..numVectors
      PROVE  \E b \in 0..(n - 1), k \in 0..(slots - 1) :
                /\ p = b * slots + k + 1 /\ collected[p] = Score(b, k, expected[p])
                /\ ScoreKey[collected[p]] = expected[p] /\ expected[p] \in Int
    <2>1. p \in 1..Len(collected)
        BY <1>3
    <2>2. PICK h \in 1..Len(chunks), k \in 0..(slots - 1) :
            p = (h - 1) * slots + k + 1 /\ collected[p] = SlotScore(InOrder[h], k)
        <3>1. Len(chunks) \in Nat
            BY <1>1
        <3>2. IsOfSlot(p, collected, InOrder, Len(chunks))
            BY <1>1, <2>1, <3>1, KeptAreSlots, Zenon
        <3>3. QED BY <3>2, Zenon DEF IsOfSlot
    <2> DEFINE b == h - 1
    <2>3. b \in 0..(n - 1) /\ InOrder[h] = b
        BY <1>1 DEF InOrder
    <2>4. p = b * slots + k + 1
        BY <2>2
    <2> HIDE DEF b, n
    <2>5. /\ SlotScore(b, k) = Score(b, k, expected[b * slots + k + 1])
          /\ expected[b * slots + k + 1] \in Int
        BY <2>3, SlotsAreVectors DEF n
    <2>6. collected[p] = Score(b, k, expected[p]) /\ expected[p] \in Int
        BY <2>2, <2>3, <2>4, <2>5
    <2>7. collected[p] \in Results
        BY <1>1, <2>1
    <2>8. ScoreKey[collected[p]] = expected[p]
        BY <2>6, <2>7 DEF ScoreKey, Score
    <2>9. QED BY <2>3, <2>4, <2>6, <2>8
<1>5. IsFirstMaximum(r, collected, numVectors, ScoreKey)
    BY <1>1, <1>3, SelectBestFindsFirst
<1>6. v \in 0..(numVectors - 1) /\ v + 1 \in 1..numVectors
    <2>1. v \in 0..(numVectors - 1)
        BY <1>2, SlotsAreVectors
    <2> HIDE DEF v
    <2>2. QED BY <1>1, <2>1
<1> HIDE DEF r, v, n
<1>7. \A p \in 1..numVectors :
        ScoreKey[collected[p]] # NaN /\ ScoreKey[collected[p]] = expected[p]
    BY <1>4, ScoresAssumption
<1>8. PICK p \in 1..numVectors :
        /\ r = collected[p]
        /\ \A j \in 1..numVectors : expected[j] <= expected[p]
        /\ \A j \in 1..(p - 1) : expected[j] < expected[p]
    <2>1. ~ \A j \in 1..numVectors : ScoreKey[collected[j]] = NaN
        BY <1>6, <1>7
    <2>2. PICK p \in 1..numVectors :
            /\ r = collected[p]
            /\ \A j \in 1..numVectors : ScoreKey[collected[j]] # NaN
                    => ScoreKey[collected[j]] <= ScoreKey[collected[p]]
            /\ \A j \in 1..(p - 1) : ScoreKey[collected[j]] # NaN
                    => ScoreKey[collected[j]] < ScoreKey[collected[p]]
        BY <1>5, <2>1 DEF IsFirstMaximum
    <2>3. \A j \in 1..(p - 1) : j \in 1..numVectors
        BY <1>1
    <2>4. QED BY <1>7, <2>2, <2>3
<1>9. p - 1 = v
    <2>1. p - 1 \in 0..(numVectors - 1) /\ (p - 1) + 1 = p
        BY <1>1
    <2>2. \A u \in 0..(numVectors - 1) : u + 1 \in 1..numVectors
        BY <1>1
    <2>3. \A u \in 0..((p - 1) - 1) : u + 1 \in 1..(p - 1)
        BY <1>1
    <2>4. IsFirstBest(p - 1, expected, numVectors)
        BY <1>8, <2>1, <2>2, <2>3 DEF IsFirstBest
    <2>5. IsFirstBest(v, expected, numVectors)
        BY <1>2 DEF v
    <2>6. numVectors \in 0..Len(expected)
        BY <1>1
    <2>7. QED BY <1>1, <2>4, <2>5, <2>6, FirstBestIsUnique
<1>10. p = v + 1
    BY <1>1, <1>6, <1>9
<1>11. PICK b \in 0..(n - 1), k \in 0..(slots - 1) :
        p = b * slots + k + 1 /\ collected[p] = Score(b, k, expected[p])
    BY <1>4
<1>12. b * slots + k = v
    <2> DEFINE a == b * slots
    <2>1. a \in Nat /\ k \in Nat
        BY <1>1
    <2>2. v + 1 = a + k + 1
        BY <1>10, <1>11
    <2> HIDE DEF a
    <2>3. a + k = v
        BY <1>6, <2>1, <2>2
    <2>4. QED BY <2>3 DEF a
<1>13. b = c
    <2>1. b \in Nat /\ c \in Nat
        BY <1>1
    <2>2. b * slots + k = c * slots + i
        BY <1>12 DEF v
    <2>3. QED BY <1>1, <2>1, <2>2, PlacesAreDistinct
<1>14. r.score = expected[v + 1] /\ r.chunk = b /\ r.index = k
    BY <1>8, <1>10, <1>11 DEF Score
<1>15. expectedBest.score = expected[v + 1] /\ expectedBest.chunk = c /\ expectedBest.index = v
    BY <1>2 DEF Score, v
<1>16. QED BY <1>12, <1>13, <1>14, <1>15 DEF r

\* What the workers find in all chunks, in whatever order, has the expected score.
LEMMA WorkersFind ==
    ASSUME PlacesInv, TypesInv, ExpectedBestInv, phase # "initializing", Len(chunks) > 0,
           numVectors = Len(chunks) * slots,
           HasGathered(WorkerCount), EveryChunkIsDealt
    PROVE  LET r == SelectBest(collected) IN
           /\ r.score = expectedBest.score
           /\ r.score = expected[r.chunk * slots + r.index + 1]
<1> DEFINE r == SelectBest(collected)
           n == Len(chunks)
<1>1. /\ slots \in Nat \ {0} /\ n \in Nat /\ numVectors \in Nat /\ expected \in Seq(Int)
      /\ Len(expected) = numVectors /\ collected \in Seq(Results)
    BY ScoresAreIntegers, FoundAreResults
       DEF PlacesInv, CounterTypes, InitializedInv, TypesInv, FoundTypes
<1>2. PICK c \in 0..(n - 1), i \in 0..(slots - 1) :
        LET v == c * slots + i
        IN  expectedBest = Score(c, v, expected[v + 1]) /\ IsFirstBest(v, expected, numVectors)
    BY ExpectedIsThere
<1> DEFINE v == c * slots + i
<1>3. PICK row \in Seq(0..(n - 1)) :
        /\ KeepsAll(collected, row, Len(row))
        /\ \A w \in 1..WorkerCount : Range(Deal(byAddress, w)) \subseteq Range(row)
    BY DEF HasGathered
<1>4. \A u \in 0..(numVectors - 1) : expected[u + 1] \in Int /\ expected[u + 1] <= expected[v + 1]
    BY <1>1, <1>2 DEF IsFirstBest
<1>5. ASSUME NEW p \in 1..Len(collected)
      PROVE  \E b \in 0..(n - 1), k \in 0..(slots - 1) :
                /\ collected[p] = Score(b, k, expected[b * slots + k + 1])
                /\ b * slots + k \in 0..(numVectors - 1)
                /\ ScoreKey[collected[p]] = expected[b * slots + k + 1]
                /\ ScoreKey[collected[p]] \in Int
    <2>1. PICK h \in 1..Len(row), k \in 0..(slots - 1) :
            p = (h - 1) * slots + k + 1 /\ collected[p] = SlotScore(row[h], k)
        <3>1. Len(row) \in Nat
            OBVIOUS
        <3>2. QED BY <1>1, <1>3, <3>1, KeptAreSlots DEF IsOfSlot
    <2> DEFINE b == row[h]
    <2>2. b \in 0..(n - 1)
        OBVIOUS
    <2> HIDE DEF b
    <2>3. /\ b * slots + k \in 0..(numVectors - 1)
          /\ SlotScore(b, k) = Score(b, k, expected[b * slots + k + 1])
          /\ expected[b * slots + k + 1] \in Int
        BY <2>2, SlotsAreVectors
    <2>4. collected[p] = Score(b, k, expected[b * slots + k + 1])
        BY <2>1, <2>3 DEF b
    <2>5. collected[p] \in Results
        BY <1>1
    <2>6. ScoreKey[collected[p]] = expected[b * slots + k + 1]
        BY <2>4, <2>5 DEF ScoreKey, Score
    <2>7. QED BY <2>2, <2>3, <2>4, <2>6
<1>6. PICK q \in 1..Len(collected) : ScoreKey[collected[q]] = expected[v + 1]
    <2>1. PICK w \in Workers : c \in Range(Deal(byAddress, w))
        BY DEF EveryChunkIsDealt, ToSet, Range
    <2>2. c \in Range(row)
        BY <1>3, <2>1 DEF Workers
    <2>3. PICK h \in 1..Len(row) : row[h] = c
        BY <2>2 DEF Range
    <2> DEFINE q == (h - 1) * slots + i
    <2>4. h - 1 \in Nat /\ h - 1 < Len(row) /\ Len(row) \in Nat
        OBVIOUS
    <2>5. q \in Nat /\ q < Len(row) * slots
        <3>1. (h - 1) * slots \in Nat /\ (h - 1) * slots + i < Len(row) * slots
            BY <1>1, <2>4, PlaceBounds, Zenon
        <3>2. q \in Nat
            <4> DEFINE a == (h - 1) * slots
            <4>1. a \in Nat /\ i \in Nat
                BY <3>1
            <4> HIDE DEF a
            <4>2. a + i \in Nat
                BY <4>1
            <4>3. QED BY <4>2 DEF a
        <3>3. QED BY <3>1, <3>2
    <2>6. collected[q + 1] = SlotScore(c, i)
        BY <1>3, <2>3 DEF KeepsAll
    <2>7. Len(collected) = Len(row) * slots
        BY <1>3 DEF KeepsAll
    <2> HIDE DEF q
    <2>8. q + 1 \in 1..Len(collected)
        BY <1>1, <2>5, <2>7
    <2>9. collected[q + 1] = Score(c, i, expected[v + 1])
        BY <1>2, <2>6, SlotsAreVectors
    <2>10. ScoreKey[collected[q + 1]] = expected[v + 1]
        <3>1. collected[q + 1] \in Results
            BY <1>1, <2>8
        <3>2. QED BY <2>9, <3>1 DEF ScoreKey, Score
    <2>11. QED BY <2>8, <2>10
<1>7. IsFirstMaximum(r, collected, Len(collected), ScoreKey)
    BY <1>1, SelectBestFindsFirst
<1> HIDE DEF r, v, n
<1>8. \A p \in 1..Len(collected) : ScoreKey[collected[p]] # NaN
    BY <1>5, ScoresAssumption
<1>9. PICK p \in 1..Len(collected) :
        r = collected[p] /\ ScoreKey[collected[q]] <= ScoreKey[collected[p]]
    BY <1>6, <1>7, <1>8 DEF IsFirstMaximum
<1>10. PICK b \in 0..(n - 1), k \in 0..(slots - 1) :
        /\ r = Score(b, k, expected[b * slots + k + 1])
        /\ b * slots + k \in 0..(numVectors - 1)
        /\ ScoreKey[r] = expected[b * slots + k + 1]
        /\ ScoreKey[r] \in Int
    BY <1>5, <1>9
<1> DEFINE u == b * slots + k
<1>11. r.score = expected[u + 1] /\ r.chunk * slots + r.index = u
    BY <1>10 DEF Score
<1>12. r.score = expected[v + 1]
    <2>1. expected[u + 1] <= expected[v + 1] /\ expected[u + 1] \in Int
        BY <1>4, <1>10
    <2> HIDE DEF u
    <2>2. v \in 0..(numVectors - 1)
        BY <1>2 DEF IsFirstBest, v
    <2>3. expected[v + 1] \in Int /\ expected[v + 1] <= expected[u + 1]
        BY <1>4, <1>6, <1>9, <1>10, <2>2 DEF u
    <2>4. QED BY <1>11, <2>1, <2>3
<1>13. expectedBest.score = expected[v + 1]
    BY <1>2 DEF Score, v
<1>14. QED BY <1>11, <1>12, <1>13 DEF r

\* When all slots are written, a worker finds the expected best match, and the
\* workers one of the same score if every chunk is dealt (test_round_worker.cpp:28-44,
\* test_round_worker_mt.cpp:33-49).
THEOREM WorkersFindExpected == Spec => []WorkerFindsExpected
<1>1. PlacesInv /\ TypesInv /\ RoundsInv /\ BestInv => WorkerFindsExpected
    <2> SUFFICES ASSUME PlacesInv, TypesInv, RoundsInv, BestInv, repetition > 0,
                        numVectors % slots = 0, phase \in {"worker_round", "workers_round"}
                 PROVE  /\ phase = "worker_round" =>
                            /\ best.score = expectedBest.score
                            /\ best.chunk = expectedBest.chunk
                            /\ best.chunk * slots + best.index = expectedBest.index
                        /\ phase = "workers_round" /\ EveryChunkIsDealt =>
                            /\ best.score = expectedBest.score
                            /\ best.score = expected[best.chunk * slots + best.index + 1]
        BY DEF WorkerFindsExpected
    <2>1. Len(chunks) > 0 /\ phase # "initializing" /\ NeededInv /\ ExpectedBestInv
        BY DEF RoundsInv, UsedInv, BestInv
    <2>2. numVectors = Len(chunks) * slots
        BY <2>1, AllSlotsAreWritten
    <2>3. CASE phase = "worker_round"
        <3>1. KeepsAll(collected, InOrder, Len(chunks)) /\ best = SelectBest(collected)
            BY <2>3 DEF RoundsInv, CollectedInv
        <3>2. QED BY <2>1, <2>2, <2>3, <3>1, WorkerFinds
    <2>4. CASE phase = "workers_round"
        <3>1. HasGathered(WorkerCount) /\ best = SelectBest(collected)
            BY <2>4 DEF RoundsInv, CollectedInv
        <3>2. QED BY <2>1, <2>2, <2>4, <3>1, WorkersFind
    <2>5. QED BY <2>3, <2>4
<1>2. QED BY <1>1, RoundsHold, BestHolds, PTL

=============================================================================
