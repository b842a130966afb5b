------------------------------ MODULE VectorOps ------------------------------
(***************************************************************************)
(* The operations on single vectors: dot products, norms and normalisation,  *)
(* in the variants of dot_product_naive.cpp, dot_product_openmp.cpp,         *)
(* dot_product_sse42.cpp and dot_product_avx256.cpp.  Which elements a       *)
(* variant reads, in which lane it adds them up, and which ones it writes,   *)
(* is modelled; rounding is not, elements are integers.                      *)
(*                                                                         *)
(* A norm is kept as its square.  Normalising multiplies an element by the   *)
(* inverse of the norm: scaled counts how often that happened to each one.   *)
(* The dimensions are the multiples of 32 that the callers assert            *)
(* (test_round.cpp:58).                                                      *)
(***************************************************************************)
EXTENDS Integers

CONSTANTS
    Dimensions,     \* the numbers of elements a vector may have
    Rows,           \* the number of vectors in a chunk
    Contents,       \* dimension -> what a buffer may contain
    TinySquare      \* the square of FLOAT_ZERO_EPSILON

\* The positions of a chunk, and those of the memory behind it that the widest
\* access at its end could reach.
Positions(d) == 0..(Rows * d + 31)

ASSUME DimensionsAssumption == \A d \in Dimensions : d \in Nat /\ d % 32 = 0
ASSUME RowsAssumption == Rows \in Nat \ {0}
ASSUME ContentsAssumption == \A d \in Dimensions : Contents[d] \subseteq [Positions(d) -> Int]
ASSUME TinySquareAssumption == TinySquare \in Nat \ {0}

Variants == {"naive", "unrolled_8", "openmp", "sse42", "avx256"}

\* The functions there are: only the dot product exists in the variant unrolled_8.
Operations ==
    ({"dot_product"} \X Variants) \union
    ({"vec_norm", "vec_normalize"} \X (Variants \ {"unrolled_8"}))

VARIABLES
    phase,          \* the loop that is running: summing, scaling; or done
    operation,      \* the function that was called, and its variant
    n,              \* N
    row,            \* the number of the vector a_row in its chunk
    chunk,          \* the elements of the chunk and behind it, before the call
    query,          \* the elements at b_row and behind
    i,              \* the counter of the loop
    lanes,          \* total: lane -> partial sum
    norm,           \* the square of the norm that vec_normalize uses
    scaled,         \* position in the chunk -> how often it was scaled
    result          \* what is returned

arguments == <<operation, n, row, chunk, query>>
vars == <<phase, arguments, i, lanes, norm, scaled, result>>

op == operation[1]
variant == operation[2]

\* The loop that adds up: vec_norm_naive uses the unrolled dot product, and so
\* does vec_normalize_openmp, which calls vec_norm_naive.
Summation ==
    IF \/ op # "dot_product" /\ variant = "naive"
       \/ op = "vec_normalize" /\ variant = "openmp"
    THEN "unrolled_8" ELSE variant

-----------------------------------------------------------------------------
(* One iteration of each loop.                                               *)

Start == row * n    \* the position of a_row in the chunk

\* a_row[k] * b_row[k], also for what the widest access could read behind a_row.
Products ==
    [k \in 0..(n + 31) |->
        chunk[Start + k] * (IF op = "dot_product" THEN query[k] ELSE chunk[Start + k])]

\* The sum of `count' elements of f, from the one at `first' on.
Sum(f, first, count) ==
    LET total[m \in 0..count] == IF m = 0 THEN 0 ELSE total[m - 1] + f[first + m - 1]
    IN  total[count]

SumOfProducts(first, count) == Sum(Products, first, count)

\* The instructions _mm_dp_ps and _mm256_dp_ps with the mask 0xff: each lane gets
\* the dot product of the group of four lanes it belongs to.
DotProductOfLanes(first, width) ==
    [lane \in 0..(width - 1) |->
        SumOfProducts(first + 4 * (lane \div 4), 4)]

NaiveSum == lanes[0] + Products[i]

Unrolled8Sum == lanes[0] + SumOfProducts(i, 8)

OpenmpSum == lanes[0] + Products[i]

Sse42Sum == LET dp == DotProductOfLanes(i, 4) IN [lane \in 0..3 |-> lanes[lane] + dp[lane]]

Avx256Sum ==
    LET c0 == DotProductOfLanes(i, 8)
        c1 == DotProductOfLanes(i + 8, 8)
        c2 == DotProductOfLanes(i + 16, 8)
        c3 == DotProductOfLanes(i + 24, 8)
    IN  [lane \in 0..7 |-> lanes[lane] + c0[lane] + c1[lane] + c2[lane] + c3[lane]]

LaneCount(loop) == CASE loop = "sse42" -> 4 [] loop = "avx256" -> 8 [] OTHER -> 1

\* The elements an iteration of a loop accesses, from its counter on.
Width(loop) ==
    CASE loop = "unrolled_8" -> 8
      [] loop = "sse42" -> 4
      [] loop = "avx256" -> 32
      [] OTHER -> 1

\* Mutant: the loop over 32 elements advances by the eight of a register.
SumStrideOfRegister(loop) ==
    CASE loop = "unrolled_8" -> 8
      [] loop = "sse42" -> 4
      [] loop = "avx256" -> 8
      [] OTHER -> 1
\* Mutant: it advances by three loads where there are four.
SumStrideOfThreeLoads(loop) ==
    CASE loop = "unrolled_8" -> 8
      [] loop = "sse42" -> 4
      [] loop = "avx256" -> 24
      [] OTHER -> 1
\* How far an iteration of a loop advances.
SumStride(loop) ==
    CASE loop = "unrolled_8" -> 8
      [] loop = "sse42" -> 4
      [] loop = "avx256" -> 32
      [] OTHER -> 1

ScaleStride(loop) == CASE loop = "sse42" -> 4 [] loop = "avx256" -> 32 [] OTHER -> 1

\* Mutant: both lanes are taken from the same group, ptr[0] + ptr[3].
TotalOfFirstGroup(loop) == IF loop = "avx256" THEN lanes[0] + lanes[3] ELSE lanes[0]
\* What is taken from the lanes in the end: ptr[0], or ptr[0] + ptr[5].
Total(loop) == IF loop = "avx256" THEN lanes[0] + lanes[5] ELSE lanes[0]

\* The elements an iteration of the normalisation multiplies.
Sse42Scales == i..(i + 3)
\* Mutant: the fourth register is not stored.
Avx256ScalesThree == UNION {j..(j + 7) : j \in {i, i + 8, i + 16}}
Avx256Scales == UNION {j..(j + 7) : j \in {i, i + 8, i + 16, i + 24}}
Scales ==
    CASE variant = "sse42" -> Sse42Scales
      [] variant = "avx256" -> Avx256Scales
      [] OTHER -> {i}

-----------------------------------------------------------------------------
Init ==
    /\ phase = "summing"
    /\ operation \in Operations
    /\ n \in Dimensions
    /\ row \in 0..(Rows - 1)
    /\ chunk \in Contents[n]
    /\ query \in IF op = "dot_product" THEN Contents[n] ELSE {chunk}
    /\ i = 0
    /\ lanes = [lane \in 0..(LaneCount(Summation) - 1) |-> 0]
    /\ norm = 0
    /\ scaled = [p \in Positions(n) |-> 0]
    /\ result = 0

AddScalars ==
    /\ phase = "summing" /\ i < n
    /\ Summation \in {"naive", "unrolled_8", "openmp"}
    /\ lanes' = [lane \in {0} |->
                    CASE Summation = "naive" -> NaiveSum
                      [] Summation = "unrolled_8" -> Unrolled8Sum
                      [] Summation = "openmp" -> OpenmpSum]
    /\ i' = i + SumStride(Summation)
    /\ UNCHANGED <<phase, arguments, norm, scaled, result>>

AddLanes ==
    /\ phase = "summing" /\ i < n
    /\ Summation \in {"sse42", "avx256"}
    /\ lanes' = IF Summation = "sse42" THEN Sse42Sum ELSE Avx256Sum
    /\ i' = i + SumStride(Summation)
    /\ UNCHANGED <<phase, arguments, norm, scaled, result>>

\* dot_product and vec_norm return after the loop.
ReturnTotal ==
    /\ phase = "summing" /\ i >= n
    /\ op # "vec_normalize"
    /\ phase' = "done"
    /\ result' = Total(Summation)
    /\ UNCHANGED <<arguments, i, lanes, norm, scaled>>

\* vec_normalize does not divide by a norm that is about zero.
ReturnZero ==
    /\ phase = "summing" /\ i >= n
    /\ op = "vec_normalize" /\ Total(Summation) < TinySquare
    /\ phase' = "done"
    /\ result' = 0
    /\ UNCHANGED <<arguments, i, lanes, norm, scaled>>

BeginScaling ==
    /\ phase = "summing" /\ i >= n
    /\ op = "vec_normalize" /\ Total(Summation) >= TinySquare
    /\ phase' = "scaling"
    /\ norm' = Total(Summation)
    /\ i' = 0
    /\ UNCHANGED <<arguments, lanes, scaled, result>>

Scale ==
    /\ phase = "scaling" /\ i < n
    /\ scaled' = [p \in DOMAIN scaled |->
                    IF p - Start \in Scales THEN scaled[p] + 1 ELSE scaled[p]]
    /\ i' = i + ScaleStride(variant)
    /\ UNCHANGED <<phase, arguments, lanes, norm, result>>

ReturnNorm ==
    /\ phase = "scaling" /\ i >= n
    /\ phase' = "done"
    /\ result' = norm
    /\ UNCHANGED <<arguments, i, lanes, norm, scaled>>

Returned == phase = "done" /\ UNCHANGED vars

Next ==
    \/ AddScalars \/ AddLanes \/ ReturnTotal
    \/ ReturnZero \/ BeginScaling \/ Scale \/ ReturnNorm
    \/ Returned

Spec == Init /\ [][Next]_vars

-----------------------------------------------------------------------------
TypeOK ==
    /\ phase \in {"summing", "scaling", "done"}
    /\ operation \in Operations
    /\ n \in Dimensions
    /\ row \in 0..(Rows - 1)
    /\ chunk \in [Positions(n) -> Int]
    /\ query \in [Positions(n) -> Int]
    /\ i \in 0..n
    /\ lanes \in [0..(LaneCount(Summation) - 1) -> Int]
    /\ norm \in Int
    /\ scaled \in [Positions(n) -> Nat]
    /\ result \in Int

\* Every variant computes the same dot product and norm as the definition, and
\* vec_normalize returns the norm unless it is about zero.  A lane that is left
\* out or counted twice, or an element read behind the vector, breaks it.
ResultIsRight ==
    phase = "done" =>
        LET sum == SumOfProducts(0, n) IN
        result = IF op = "vec_normalize" /\ sum < TinySquare THEN 0 ELSE sum

\* vec_normalize multiplies every element of its vector exactly once, nothing in
\* the vectors next to it, and nothing at all when the norm is about zero: what
\* it leaves has norm one or is as it was (VectorNorm, test_dot_product_naive.cpp:16-36).
ScaledOnce ==
    phase = "done" =>
        \A p \in Positions(n) :
            scaled[p] = IF /\ p \in Start..(Start + n - 1)
                           /\ op = "vec_normalize"
                           /\ SumOfProducts(0, n) >= TinySquare
                        THEN 1 ELSE 0

\* The elements the next iteration reads or writes are elements of the vector,
\* and they begin at an address the aligned loads and stores accept: chunks
\* begin at one (mem_chunk_t::byte_alignment), and the lanes divide what is before.
Loop == IF phase = "summing" THEN Summation ELSE variant
AccessesInBounds ==
    phase # "done" /\ i < n =>
        /\ i + Width(Loop) <= n
        /\ (Start + i) % LaneCount(Loop) = 0

=============================================================================
