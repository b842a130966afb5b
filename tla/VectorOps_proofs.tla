---------------------------- MODULE VectorOps_proofs ---------------------------
(***************************************************************************)
(* Theorems about VectorOps for every dimension that is a multiple of 32,    *)
(* any integers as elements and any number of vectors in a chunk.  The loops  *)
(* stay inside their vectors and read at aligned addresses; however many     *)
(* elements an iteration handles, they add up the same sum, and scale each    *)
(* element once.                                                             *)
(***************************************************************************)
EXTENDS VectorOps, WellFoundedInduction, TLAPS

\* The counter of a loop is a multiple of what an iteration advances by, and
\* only vec_normalize, of which there is no variant unrolled_8, scales.
StrideInv ==
    /\ phase \in {"summing", "scaling", "done"}
    /\ operation \in Operations
    /\ n \in Dimensions
    /\ row \in Nat
    /\ i \in Nat
    /\ phase = "summing" => i % SumStride(Summation) = 0
    /\ phase = "scaling" => i % ScaleStride(variant) = 0 /\ op = "vec_normalize"

\* Every loop has one of four shapes.
LEMMA Shapes ==
    ASSUME operation \in Operations
    PROVE  /\ variant \in Variants
           /\ Summation \in Variants
           /\ op # "dot_product" => variant # "unrolled_8"
    BY DEF Operations, Variants, Summation, op, variant

\* A counter that is a multiple of a divisor of 32 is so still one stride later,
\* and leaves room for it in a vector.
LEMMA Strides ==
    ASSUME NEW a \in Nat, NEW d \in Nat, d % 32 = 0,
           NEW stride \in {1, 4, 8, 32}, a % stride = 0
    PROVE  /\ a + stride \in Nat
           /\ (a + stride) % stride = 0
           /\ a < d => a + stride <= d
<1>1. CASE stride = 1
    BY <1>1
<1>2. CASE stride = 4
    BY <1>2
<1>3. CASE stride = 8
    BY <1>3
<1>4. CASE stride = 32
    BY <1>4
<1>5. QED BY <1>1, <1>2, <1>3, <1>4

LEMMA StrideInit == Init => StrideInv
    BY DimensionsAssumption, RowsAssumption, Shapes
    DEF Init, StrideInv, SumStride, Variants

LEMMA StrideNext == StrideInv /\ [Next]_vars => StrideInv'
<1> SUFFICES ASSUME StrideInv, [Next]_vars PROVE StrideInv'
    OBVIOUS
<1>1. n \in Nat /\ n % 32 = 0 /\ i \in Nat
    BY DimensionsAssumption DEF StrideInv
<1>2. SumStride(Summation) \in {1, 4, 8, 32} /\ ScaleStride(variant) \in {1, 4, 8, 32}
    BY DEF SumStride, ScaleStride
<1>3. ASSUME UNCHANGED arguments
      PROVE  /\ operation' \in Operations /\ n' \in Dimensions /\ row' \in Nat
             /\ SumStride(Summation)' = SumStride(Summation)
             /\ ScaleStride(variant)' = ScaleStride(variant)
             /\ op' = op
    BY <1>3 DEF arguments, StrideInv, SumStride, ScaleStride, Summation, op, variant
<1>4. CASE AddScalars \/ AddLanes
    <2>1. /\ phase = "summing" /\ phase' = "summing" /\ UNCHANGED arguments
          /\ i' = i + SumStride(Summation)
        BY <1>4 DEF AddScalars, AddLanes
    <2>2. i % SumStride(Summation) = 0
        BY <2>1 DEF StrideInv
    <2>3. i' \in Nat /\ i' % SumStride(Summation) = 0
        BY <2>1, <2>2, <1>1, <1>2, Strides
    <2>4. QED BY <2>1, <2>3, <1>3 DEF StrideInv
<1>5. CASE ReturnTotal \/ ReturnZero \/ ReturnNorm
    BY <1>3, <1>5 DEF ReturnTotal, ReturnZero, ReturnNorm, StrideInv
<1>6. CASE BeginScaling
    <2>1. phase' = "scaling" /\ i' = 0 /\ UNCHANGED arguments /\ op = "vec_normalize"
        BY <1>6 DEF BeginScaling
    <2>2. 0 % ScaleStride(variant) = 0
        BY <1>2
    <2>3. QED BY <2>1, <2>2, <1>3 DEF StrideInv
<1>7. CASE Scale
    <2>1. /\ phase = "scaling" /\ phase' = "scaling" /\ UNCHANGED arguments
          /\ i' = i + ScaleStride(variant)
        BY <1>7 DEF Scale
    <2>2. i % ScaleStride(variant) = 0 /\ op = "vec_normalize"
        BY <2>1 DEF StrideInv
    <2>3. i' \in Nat /\ i' % ScaleStride(variant) = 0
        BY <2>1, <2>2, <1>1, <1>2, Strides
    <2>4. QED BY <2>1, <2>3, <1>3 DEF StrideInv
<1>8. CASE Returned \/ UNCHANGED vars
    BY <1>3, <1>8 DEF Returned, vars, StrideInv
<1>9. QED BY <1>4, <1>5, <1>6, <1>7, <1>8 DEF Next

\* What the invariant says of the next iteration: the stride of a loop is the
\* number of elements it accesses, and its lanes divide that and the dimension.
LEMMA StrideBounds == StrideInv => AccessesInBounds
<1> SUFFICES ASSUME StrideInv, phase \in {"summing", "scaling"}, i < n
             PROVE  i + Width(Loop) <= n /\ (Start + i) % LaneCount(Loop) = 0
    BY DEF AccessesInBounds, StrideInv
<1>1. n \in Nat /\ n % 32 = 0 /\ i \in Nat /\ row \in Nat
    BY DimensionsAssumption DEF StrideInv
<1>2. Width(Loop) \in {1, 4, 8, 32} /\ LaneCount(Loop) \in {1, 4, 8}
    BY DEF Width, LaneCount
<1>3. i % Width(Loop) = 0
    <2>1. CASE phase = "summing"
        <3>1. Width(Loop) = SumStride(Summation)
            BY <2>1 DEF Loop, Width, SumStride
        <3>2. QED BY <3>1, <2>1 DEF StrideInv
    <2>2. CASE phase = "scaling"
        <3>1. variant # "unrolled_8"
            BY <2>2, Shapes DEF StrideInv
        <3>2. Width(Loop) = ScaleStride(variant)
            BY <3>1, <2>2 DEF Loop, Width, ScaleStride
        <3>3. QED BY <3>2, <2>2 DEF StrideInv
    <2>3. QED BY <2>1, <2>2
<1>4. i + Width(Loop) <= n
    BY <1>1, <1>2, <1>3, Strides
<1>5. i % LaneCount(Loop) = 0
    BY <1>1, <1>3 DEF Width, LaneCount
<1>6. Start \in Nat /\ Start % 32 = 0
    <2>1. PICK m \in Nat : n = 32 * m
        <3>1. n = 32 * (n \div 32) /\ n \div 32 \in Nat
            BY <1>1
        <3>2. QED BY <3>1
    <2>2. row * m \in Nat /\ row * (32 * m) = 32 * (row * m)
        BY <1>1
    <2>3. Start = 32 * (row * m)
        BY <2>1, <2>2 DEF Start
    <2>4. QED BY <2>2, <2>3
<1>7. (Start + i) % LaneCount(Loop) = 0
    BY <1>1, <1>2, <1>5, <1>6
<1>8. QED BY <1>4, <1>7

-----------------------------------------------------------------------------

\* No operation accesses an element outside its vector, and every load and store
\* of a register is aligned, for any multiple of 32 and any vector of a chunk
\* (dot_product_sse42.cpp:19-24, dot_product_avx256.cpp:17-45 and :72-93).
THEOREM InBounds == Spec => []AccessesInBounds
BY StrideInit, StrideNext, StrideBounds, PTL DEF Spec

-----------------------------------------------------------------------------
(* Sums.  The induction theorems of the library take a predicate, here it is  *)
(* a set.                                                                    *)

LEMMA Induction ==
    ASSUME NEW S \in SUBSET Nat, 0 \in S, \A m \in S : m + 1 \in S
    PROVE  S = Nat
<1> DEFINE Less == OpToRel(<, Nat)
           T == Nat \ S
<1>1. ASSUME NEW a \in Nat, NEW b \in Nat, a < b PROVE <<a, b>> \in Less
    BY <1>1, Zenon DEF OpToRel
<1>2. SUFFICES ASSUME T # {} PROVE FALSE
    OBVIOUS
<1>3. PICK x \in T : \A y \in T : <<y, x>> \notin Less
    <2>1. IsWellFoundedOn(Less, Nat)
        BY NatLessThanWellFounded, Zenon
    <2>2. T \subseteq Nat
        OBVIOUS
    <2> HIDE DEF T, Less
    <2>3. QED BY <1>2, <2>1, <2>2, WFMin
<1> HIDE DEF Less
<1>4. x - 1 \in S /\ x \in Nat
    <2>1. x # 0 /\ x \in Nat
        OBVIOUS
    <2>2. x - 1 \in Nat /\ x - 1 < x
        BY <2>1
    <2>3. QED BY <2>1, <2>2, <1>1, <1>3
<1>5. QED BY <1>4

\* The recursive function in Sum.
IsTotal(t, f, first, count) ==
    t = [m \in 0..count |-> IF m = 0 THEN 0 ELSE t[m - 1] + f[first + m - 1]]

LEMMA TotalExists ==
    ASSUME NEW f, NEW first \in Nat
    PROVE  \A c \in Nat : \E t : IsTotal(t, f, first, c)
<1> DEFINE S == {c \in Nat : \E t : IsTotal(t, f, first, c)}
<1>1. 0 \in S
    <2> DEFINE t == [m \in {0} |-> 0]
    <2>1. IsTotal(t, f, first, 0)
        <3>1. 0..0 = {0}
            OBVIOUS
        <3>2. QED BY <3>1 DEF IsTotal
    <2>2. QED BY <2>1
<1>2. ASSUME NEW c \in S PROVE c + 1 \in S
    <2>1. PICK t : IsTotal(t, f, first, c)
        OBVIOUS
    <2> DEFINE u == [m \in 0..(c + 1) |-> IF m = c + 1 THEN t[c] + f[first + c] ELSE t[m]]
    <2>2. ASSUME NEW m \in 0..(c + 1)
          PROVE  u[m] = IF m = 0 THEN 0 ELSE u[m - 1] + f[first + m - 1]
        <3>1. CASE m = c + 1
            BY <3>1
        <3>2. CASE m \in 0..c
            <4>1. u[m] = t[m] /\ (m # 0 => u[m - 1] = t[m - 1])
                BY <3>2
            <4>2. t[m] = IF m = 0 THEN 0 ELSE t[m - 1] + f[first + m - 1]
                BY <2>1, <3>2 DEF IsTotal
            <4>3. QED BY <4>1, <4>2
        <3>3. QED BY <3>1, <3>2
    <2>3. IsTotal(u, f, first, c + 1)
        BY <2>2 DEF IsTotal
    <2>4. QED BY <2>3
<1>3. S = Nat
    <2> HIDE DEF S
    <2>1. S \in SUBSET Nat
        BY DEF S
    <2>2. QED BY <1>1, <1>2, <2>1, Induction
<1>4. QED BY <1>3

LEMMA SumIsLastTotal ==
    ASSUME NEW f, NEW first \in Nat, NEW c \in Nat
    PROVE  \E t : IsTotal(t, f, first, c) /\ Sum(f, first, c) = t[c]
<1> DEFINE t == CHOOSE t : t = [m \in 0..c |-> IF m = 0 THEN 0 ELSE t[m - 1] + f[first + m - 1]]
<1>1. Sum(f, first, c) = t[c]
    BY DEF Sum
<1>2. IsTotal(t, f, first, c)
    BY TotalExists DEF IsTotal
<1>3. QED BY <1>1, <1>2

\* A sum grows by one element at a time.
LEMMA SumNext ==
    ASSUME NEW f, NEW first \in Nat, NEW c \in Nat
    PROVE  /\ Sum(f, first, 0) = 0
           /\ Sum(f, first, c + 1) = Sum(f, first, c) + f[first + c]
<1>1. Sum(f, first, 0) = 0
    <2>1. PICK t : IsTotal(t, f, first, 0) /\ Sum(f, first, 0) = t[0]
        BY SumIsLastTotal
    <2>2. t[0] = 0
        BY <2>1 DEF IsTotal
    <2>3. QED BY <2>1, <2>2
<1>2. PICK t : IsTotal(t, f, first, c) /\ Sum(f, first, c) = t[c]
    BY SumIsLastTotal
<1>3. PICK u : IsTotal(u, f, first, c + 1) /\ Sum(f, first, c + 1) = u[c + 1]
    BY SumIsLastTotal
<1> DEFINE S == {m \in Nat : m <= c => t[m] = u[m]}
<1>4. 0 \in S
    BY <1>2, <1>3 DEF IsTotal
<1>5. ASSUME NEW m \in S PROVE m + 1 \in S
    <2>1. SUFFICES ASSUME m + 1 <= c PROVE t[m + 1] = u[m + 1]
        OBVIOUS
    <2>2. t[m] = u[m] /\ m + 1 \in 0..c /\ m + 1 \in 0..(c + 1) /\ m + 1 # 0 /\ (m + 1) - 1 = m
        BY <2>1
    <2>3. t[m + 1] = t[m] + f[first + (m + 1) - 1] /\ u[m + 1] = u[m] + f[first + (m + 1) - 1]
        BY <1>2, <1>3, <2>2 DEF IsTotal
    <2>4. QED BY <2>2, <2>3
<1>6. S = Nat
    <2> HIDE DEF S
    <2>1. S \in SUBSET Nat
        BY DEF S
    <2>2. QED BY <1>4, <1>5, <2>1, Induction
<1>7. t[c] = u[c]
    BY <1>6
<1>8. u[c + 1] = u[c] + f[first + c]
    <2>1. c + 1 \in 0..(c + 1) /\ c + 1 # 0 /\ (c + 1) - 1 = c /\ first + (c + 1) - 1 = first + c
        OBVIOUS
    <2>2. u[c + 1] = u[(c + 1) - 1] + f[first + (c + 1) - 1]
        BY <1>3, <2>1 DEF IsTotal
    <2>3. QED BY <2>1, <2>2
<1>9. QED BY <1>1, <1>2, <1>3, <1>7, <1>8

\* Sums of integers are integers, and may be taken piece by piece.
LEMMA SumSplits ==
    ASSUME NEW N \in Nat, NEW f \in [0..N -> Int], NEW a \in Nat, NEW b \in Nat
    PROVE  \A c \in Nat : a + b + c <= N + 1 =>
                /\ Sum(f, a + b, c) \in Int
                /\ Sum(f, a, b + c) = Sum(f, a, b) + Sum(f, a + b, c)
<1>1. ASSUME NEW k \in Nat
      PROVE  \A c \in Nat : k + c <= N + 1 => Sum(f, k, c) \in Int
    <2> DEFINE S == {c \in Nat : k + c <= N + 1 => Sum(f, k, c) \in Int}
    <2>1. 0 \in S
        BY SumNext
    <2>2. ASSUME NEW c \in S PROVE c + 1 \in S
        <3>1. SUFFICES ASSUME k + (c + 1) <= N + 1 PROVE Sum(f, k, c + 1) \in Int
            OBVIOUS
        <3>2. Sum(f, k, c) \in Int /\ k + c \in 0..N
            BY <3>1
        <3>3. f[k + c] \in Int
            BY <3>2
        <3>4. Sum(f, k, c + 1) = Sum(f, k, c) + f[k + c]
            BY SumNext
        <3>5. QED BY <3>2, <3>3, <3>4
    <2>3. S = Nat
        <3> HIDE DEF S
        <3>1. S \in SUBSET Nat
            BY DEF S
        <3>2. QED BY <2>1, <2>2, <3>1, Induction
    <2>4. QED BY <2>3
<1> DEFINE S == {c \in Nat : a + b + c <= N + 1 =>
                                Sum(f, a, b + c) = Sum(f, a, b) + Sum(f, a + b, c)}
<1>2. 0 \in S
    <2>1. SUFFICES ASSUME a + b <= N + 1 PROVE Sum(f, a, b + 0) = Sum(f, a, b) + Sum(f, a + b, 0)
        OBVIOUS
    <2>2. Sum(f, a, b) \in Int
        BY <2>1, <1>1
    <2>3. Sum(f, a + b, 0) = 0 /\ b + 0 = b
        BY SumNext
    <2>4. QED BY <2>2, <2>3
<1>3. ASSUME NEW c \in S PROVE c + 1 \in S
    <2>1. SUFFICES ASSUME a + b + (c + 1) <= N + 1
                   PROVE  Sum(f, a, b + (c + 1)) = Sum(f, a, b) + Sum(f, a + b, c + 1)
        OBVIOUS
    <2>2. Sum(f, a, b + c) = Sum(f, a, b) + Sum(f, a + b, c)
        BY <2>1
    <2>3. a + b \in Nat /\ b + c \in Nat /\ a + b + c \in 0..N /\ a + (b + c) = a + b + c
          /\ b + (c + 1) = (b + c) + 1
        BY <2>1
    <2>4. Sum(f, a, (b + c) + 1) = Sum(f, a, b + c) + f[a + (b + c)]
        BY <2>3, SumNext
    <2>5. Sum(f, a + b, c + 1) = Sum(f, a + b, c) + f[a + b + c]
        BY <2>3, SumNext
    <2>6. /\ Sum(f, a, b) \in Int /\ Sum(f, a + b, c) \in Int /\ f[a + b + c] \in Int
        <3>1. a + b <= N + 1 /\ (a + b) + c <= N + 1
            BY <2>1
        <3>2. QED BY <3>1, <2>3, <1>1
    <2>7. Sum(f, a, b + (c + 1)) = Sum(f, a, b) + Sum(f, a + b, c) + f[a + b + c]
        BY <2>2, <2>3, <2>4
    <2>8. QED BY <2>5, <2>6, <2>7
<1>4. S = Nat
    <2> HIDE DEF S
    <2>1. S \in SUBSET Nat
        BY DEF S
    <2>2. QED BY <1>2, <1>3, <2>1, Induction
<1>5. ASSUME NEW c \in Nat, a + b + c <= N + 1
      PROVE  /\ Sum(f, a + b, c) \in Int
             /\ Sum(f, a, b + c) = Sum(f, a, b) + Sum(f, a + b, c)
    <2>1. Sum(f, a + b, c) \in Int
        BY <1>1, <1>5
    <2>2. c \in S
        BY <1>4
    <2>3. QED BY <1>5, <2>1, <2>2
<1>6. QED BY <1>5

\* A loop over 32 elements adds up eight groups of four.
LEMMA SumOfGroups ==
    ASSUME NEW N \in Nat, NEW f \in [0..N -> Int], NEW a \in Nat, a + 32 <= N + 1
    PROVE  /\ \A g \in {0, 4, 8, 12, 16, 20, 24, 28} : Sum(f, a + g, 4) \in Int
           /\ Sum(f, a, 32) =
                Sum(f, a, 4) + Sum(f, a + 4, 4) + Sum(f, a + 8, 4) + Sum(f, a + 12, 4)
                + Sum(f, a + 16, 4) + Sum(f, a + 20, 4) + Sum(f, a + 24, 4) + Sum(f, a + 28, 4)
<1>1. ASSUME NEW b \in 0..28
      PROVE  /\ Sum(f, a, b) \in Int /\ Sum(f, a + b, 4) \in Int
             /\ Sum(f, a, b + 4) = Sum(f, a, b) + Sum(f, a + b, 4)
    <2>1. a + b + 4 <= N + 1 /\ a + 0 + b <= N + 1 /\ a + 0 = a /\ b \in Nat /\ 4 \in Nat /\ 0 \in Nat
        BY <1>1
    <2>2. Sum(f, a + 0, b) \in Int
        BY <2>1, SumSplits
    <2>3. Sum(f, a + b, 4) \in Int
        BY <2>1, SumSplits
    <2>4. Sum(f, a, b + 4) = Sum(f, a, b) + Sum(f, a + b, 4)
        BY <2>1, SumSplits
    <2>5. QED BY <2>1, <2>2, <2>3, <2>4
<1>2. \A g \in {0, 4, 8, 12, 16, 20, 24, 28} : Sum(f, a + g, 4) \in Int
    <2>1. ASSUME NEW g \in {0, 4, 8, 12, 16, 20, 24, 28} PROVE Sum(f, a + g, 4) \in Int
        <3>1. g \in 0..28
            OBVIOUS
        <3>2. QED BY <3>1, <1>1
    <2>2. QED BY <2>1
<1> DEFINE P(b) == Sum(f, a, b)
           G(b) == Sum(f, a + b, 4)
<1>3. \A b \in 0..28 : P(b) \in Int /\ G(b) \in Int /\ P(b + 4) = P(b) + G(b)
    BY <1>1
<1>4. P(0) = 0 /\ P(4) = Sum(f, a, 4) /\ G(0) = Sum(f, a, 4) /\ P(32) = Sum(f, a, 32)
    BY SumNext
<1>5. /\ G(4) = Sum(f, a + 4, 4) /\ G(8) = Sum(f, a + 8, 4) /\ G(12) = Sum(f, a + 12, 4)
      /\ G(16) = Sum(f, a + 16, 4) /\ G(20) = Sum(f, a + 20, 4) /\ G(24) = Sum(f, a + 24, 4)
      /\ G(28) = Sum(f, a + 28, 4)
    OBVIOUS
<1> HIDE DEF P, G
<1>6. /\ P(4) \in Int /\ P(8) = P(4) + G(4) /\ P(12) = P(8) + G(8) /\ P(16) = P(12) + G(12)
      /\ P(20) = P(16) + G(16) /\ P(24) = P(20) + G(20) /\ P(28) = P(24) + G(24)
      /\ P(32) = P(28) + G(28)
    BY <1>3
<1>7. P(32) = P(4) + G(4) + G(8) + G(12) + G(16) + G(20) + G(24) + G(28)
    BY <1>3, <1>6
<1>8. QED BY <1>2, <1>4, <1>5, <1>7

-----------------------------------------------------------------------------
(* What the loops compute.                                                   *)

\* The elements of a vector, and the 31 behind it, are in the chunk or behind it.
LEMMA ProductsAreIntegers ==
    ASSUME TypeOK
    PROVE  /\ n \in Nat /\ n % 32 = 0 /\ Start \in Nat
           /\ Products \in [0..(n + 31) -> Int]
           /\ \A k \in 0..(n - 1) : Start + k \in Positions(n)
<1>1. n \in Nat /\ n % 32 = 0 /\ Rows \in Nat /\ row \in Nat /\ row + 1 <= Rows
    BY DimensionsAssumption, RowsAssumption DEF TypeOK
<1>2. Start \in Nat /\ Start + n <= Rows * n
    <2>1. row * n \in Nat /\ (row + 1) * n = row * n + n
        BY <1>1
    <2>2. (row + 1) * n <= Rows * n
        BY <1>1
    <2>3. QED BY <2>1, <2>2 DEF Start
<1>3. ASSUME NEW k \in 0..(n + 31) PROVE Start + k \in Positions(n) /\ k \in Positions(n)
    <2>1. Rows * n \in Nat
        BY <1>1
    <2>2. QED BY <2>1, <1>1, <1>2 DEF Positions
<1>4. \A p \in Positions(n) : chunk[p] \in Int /\ query[p] \in Int
    BY DEF TypeOK
<1>5. \A x, y \in Int : x * y \in Int
    OBVIOUS
<1>6. Products \in [0..(n + 31) -> Int]
    BY <1>3, <1>4, <1>5 DEF Products
<1>7. QED BY <1>1, <1>2, <1>3, <1>6

LEMMA SumsOfProducts ==
    ASSUME TypeOK, NEW a \in Nat, NEW b \in Nat \ {0}, a + b <= n + 32
    PROVE  /\ SumOfProducts(a, b) \in Int
           /\ SumOfProducts(0, 0) = 0
           /\ SumOfProducts(0, a) \in Int
           /\ SumOfProducts(0, a + b) = SumOfProducts(0, a) + SumOfProducts(a, b)
           /\ SumOfProducts(a, 1) = Products[a]
<1>1. n + 31 \in Nat /\ Products \in [0..(n + 31) -> Int] /\ n \in Nat
    BY ProductsAreIntegers
<1>2. /\ Sum(Products, a, b) \in Int
      /\ Sum(Products, 0, a + b) = Sum(Products, 0, a) + Sum(Products, a, b)
    <2>1. 0 + a + b <= (n + 31) + 1 /\ 0 + a = a
        BY <1>1
    <2>2. Sum(Products, 0 + a, b) \in Int
          /\ Sum(Products, 0, a + b) = Sum(Products, 0, a) + Sum(Products, 0 + a, b)
        BY <1>1, <2>1, SumSplits
    <2>3. QED BY <2>1, <2>2
<1>3. Sum(Products, 0, 0) = 0
    BY SumNext
<1>4. Sum(Products, a, 1) = Products[a]
    <2>1. Sum(Products, a, 0) = 0 /\ Sum(Products, a, 0 + 1) = Sum(Products, a, 0) + Products[a + 0]
        BY SumNext
    <2>2. Products[a] \in Int /\ a + 0 = a /\ 0 + 1 = 1
        BY <1>1
    <2>3. QED BY <2>1, <2>2
<1>5. Sum(Products, 0, a) \in Int
    <2>1. 0 + 0 + a <= (n + 31) + 1 /\ 0 + 0 = 0
        BY <1>1
    <2>2. Sum(Products, 0 + 0, a) \in Int
        BY <1>1, <2>1, SumSplits
    <2>3. QED BY <2>1, <2>2
<1>6. QED BY <1>2, <1>3, <1>4, <1>5 DEF SumOfProducts

\* What a loop has added up is the sum of the products so far; the scaling has
\* come as far as its counter, in its own vector only.
SumInv ==
    /\ phase = "summing" => Total(Summation) = SumOfProducts(0, i)
    /\ phase = "scaling" =>
        /\ norm = SumOfProducts(0, n)
        /\ SumOfProducts(0, n) >= TinySquare
    /\ ResultIsRight

ScaleInv ==
    /\ phase = "summing" => \A p \in Positions(n) : scaled[p] = 0
    /\ phase = "scaling" => \A p \in Positions(n) :
        scaled[p] = IF p \in Start..(Start + i - 1) THEN 1 ELSE 0
    /\ ScaledOnce

LoopInv == StrideInv /\ TypeOK /\ SumInv /\ ScaleInv

LEMMA LoopInit == Init => LoopInv
<1> SUFFICES ASSUME Init PROVE LoopInv
    OBVIOUS
<1>1. StrideInv
    BY StrideInit
<1>2. TypeOK
    <2>1. /\ n \in Dimensions /\ n \in Nat /\ operation \in Operations
          /\ row \in 0..(Rows - 1) /\ phase = "summing" /\ i = 0 /\ norm = 0 /\ result = 0
        BY DimensionsAssumption DEF Init
    <2>2. Contents[n] \subseteq [Positions(n) -> Int]
        BY <2>1, ContentsAssumption
    <2>3. chunk \in [Positions(n) -> Int] /\ query \in [Positions(n) -> Int]
        BY <2>2 DEF Init
    <2>4. lanes \in [0..(LaneCount(Summation) - 1) -> Int] /\ scaled \in [Positions(n) -> Nat]
        BY DEF Init
    <2>5. QED BY <2>1, <2>3, <2>4 DEF TypeOK
<1>3. /\ phase = "summing" /\ i = 0
      /\ Total(Summation) = 0
    BY DEF Init, Total, LaneCount
<1>4. SumOfProducts(0, 0) = 0
    BY SumNext DEF SumOfProducts
<1>5. SumInv
    BY <1>3, <1>4 DEF SumInv, ResultIsRight
<1>6. ScaleInv
    BY <1>3 DEF Init, ScaleInv, ScaledOnce
<1>7. QED BY <1>1, <1>2, <1>5, <1>6 DEF LoopInv

\* The arguments of the call stay as they are, and with them what is right.
LEMMA SameCall ==
    ASSUME UNCHANGED arguments
    PROVE  /\ op' = op /\ variant' = variant /\ Summation' = Summation /\ Start' = Start
           /\ Products' = Products
           /\ UNCHANGED <<operation, n, row, chunk, query>>
<1>1. UNCHANGED <<operation, n, row, chunk, query>>
    BY DEF arguments
<1>2. op' = op /\ variant' = variant /\ Start' = Start
    BY <1>1 DEF op, variant, Start
<1>3. Summation' = Summation
    BY <1>2 DEF Summation
<1>4. Products' = Products
    BY <1>1, <1>2 DEF Products
<1>5. QED BY <1>1, <1>2, <1>3, <1>4

\* What the next iteration of a loop over the vector may read.
LEMMA NextGroup ==
    ASSUME LoopInv, phase = "summing", i < n
    PROVE  /\ i \in Nat /\ n \in Nat
           /\ SumStride(Summation) \in {1, 4, 8, 32}
           /\ i + SumStride(Summation) \in 0..n
<1>1. n \in Nat /\ n % 32 = 0
    BY ProductsAreIntegers DEF LoopInv
<1>2. i \in Nat /\ i % SumStride(Summation) = 0 /\ SumStride(Summation) \in {1, 4, 8, 32}
    BY DEF LoopInv, StrideInv, SumStride
<1>3. i + SumStride(Summation) <= n /\ i + SumStride(Summation) \in Nat
    BY <1>1, <1>2, Strides
<1>4. QED BY <1>1, <1>2, <1>3

\* An iteration of a scalar loop adds the next elements to its only lane.
LEMMA ScalarsAdded ==
    ASSUME LoopInv, AddScalars
    PROVE  /\ lanes' \in [0..(LaneCount(Summation) - 1) -> Int]
           /\ Total(Summation) \in Int /\ SumOfProducts(i, SumStride(Summation)) \in Int
           /\ Total(Summation)' = Total(Summation) + SumOfProducts(i, SumStride(Summation))
<1>1. phase = "summing" /\ i < n /\ Summation \in {"naive", "unrolled_8", "openmp"} /\ Summation' = Summation
    BY SameCall DEF AddScalars
<1>2. i \in Nat /\ SumStride(Summation) \in {1, 8} /\ i + SumStride(Summation) <= n /\ n \in Nat
    BY <1>1, NextGroup DEF SumStride
<1>3. /\ SumOfProducts(i, SumStride(Summation)) \in Int
      /\ SumOfProducts(i, 1) = Products[i]
    BY <1>2, SumsOfProducts DEF LoopInv
<1>4. LaneCount(Summation) = 1 /\ 0..0 = {0}
    BY <1>1 DEF LaneCount
<1>5. lanes[0] \in Int
    BY <1>4 DEF LoopInv, TypeOK
<1>6. lanes' = [lane \in {0} |-> lanes[0] + SumOfProducts(i, SumStride(Summation))]
    <2>1. CASE Summation \in {"naive", "openmp"}
        BY <2>1, <1>3 DEF AddScalars, SumStride, NaiveSum, OpenmpSum
    <2>2. CASE Summation = "unrolled_8"
        BY <2>2 DEF AddScalars, SumStride, Unrolled8Sum
    <2>3. QED BY <1>1, <2>1, <2>2
<1>7. QED BY <1>1, <1>3, <1>4, <1>5, <1>6 DEF Total

\* An iteration over registers adds each group of four to the lanes above it;
\* the lanes 0 and 5, which make the total of AVX, get all of them between them.
LEMMA LanesAdded ==
    ASSUME LoopInv, AddLanes
    PROVE  /\ lanes' \in [0..(LaneCount(Summation) - 1) -> Int]
           /\ Total(Summation) \in Int /\ SumOfProducts(i, SumStride(Summation)) \in Int
           /\ Total(Summation)' = Total(Summation) + SumOfProducts(i, SumStride(Summation))
<1>1. phase = "summing" /\ i < n /\ Summation \in {"sse42", "avx256"} /\ Summation' = Summation
    BY SameCall DEF AddLanes
<1>2. /\ i \in Nat /\ SumStride(Summation) \in {4, 32} /\ i + SumStride(Summation) <= n /\ n \in Nat
    BY <1>1, NextGroup DEF SumStride
<1>3. SumOfProducts(i, SumStride(Summation)) \in Int
    BY <1>2, SumsOfProducts DEF LoopInv
<1>4. lanes \in [0..(LaneCount(Summation) - 1) -> Int]
    BY DEF LoopInv, TypeOK
<1>5. CASE Summation = "sse42"
    <2>1. SumStride(Summation) = 4 /\ LaneCount(Summation) = 4 /\ 0..(4 - 1) = 0..3
        BY <1>5 DEF SumStride, LaneCount
    <2>2. \A lane \in 0..3 : lane \div 4 = 0 /\ i + 4 * (lane \div 4) = i
        BY <1>2
    <2>3. DotProductOfLanes(i, 4) = [lane \in 0..3 |-> SumOfProducts(i, 4)]
        BY <2>1, <2>2 DEF DotProductOfLanes
    <2>4. lanes' = [lane \in 0..3 |-> lanes[lane] + SumOfProducts(i, 4)]
        BY <1>5, <2>3 DEF AddLanes, Sse42Sum
    <2>5. \A lane \in 0..3 : lanes[lane] \in Int
        BY <1>4, <2>1
    <2>6. SumOfProducts(i, 4) \in Int
        BY <1>3, <2>1
    <2>7. lanes' \in [0..3 -> Int] /\ lanes'[0] = lanes[0] + SumOfProducts(i, 4) /\ lanes[0] \in Int
        BY <2>4, <2>5, <2>6
    <2>8. Total(Summation) = lanes[0] /\ Total(Summation)' = lanes'[0]
        BY <1>1, <1>5 DEF Total
    <2>9. QED BY <2>1, <2>6, <2>7, <2>8
<1>6. CASE Summation = "avx256"
    <2> DEFINE G(g) == SumOfProducts(i + g, 4)
    <2>1. SumStride(Summation) = 32 /\ LaneCount(Summation) = 8 /\ 0..(8 - 1) = 0..7
        BY <1>6 DEF SumStride, LaneCount
    <2>2. /\ \A g \in {0, 4, 8, 12, 16, 20, 24, 28} : G(g) \in Int
          /\ SumOfProducts(i, 32) = G(0) + G(4) + G(8) + G(12) + G(16) + G(20) + G(24) + G(28)
        <3>1. n + 31 \in Nat /\ Products \in [0..(n + 31) -> Int] /\ i + 32 <= (n + 31) + 1
            BY <1>2, <2>1, ProductsAreIntegers DEF LoopInv
        <3>2. /\ \A g \in {0, 4, 8, 12, 16, 20, 24, 28} : Sum(Products, i + g, 4) \in Int
              /\ Sum(Products, i, 32) =
                    Sum(Products, i, 4) + Sum(Products, i + 4, 4) + Sum(Products, i + 8, 4)
                    + Sum(Products, i + 12, 4) + Sum(Products, i + 16, 4)
                    + Sum(Products, i + 20, 4) + Sum(Products, i + 24, 4)
                    + Sum(Products, i + 28, 4)
            BY <3>1, <1>2, SumOfGroups
        <3>3. i + 0 = i
            BY <1>2
        <3>4. QED BY <3>2, <3>3 DEF SumOfProducts
    <2>3. ASSUME NEW b \in {0, 8, 16, 24}
          PROVE  DotProductOfLanes(i + b, 8) =
                    [lane \in 0..7 |-> IF lane \in 0..3 THEN G(b) ELSE G(b + 4)]
        <3>1. ASSUME NEW lane \in 0..7
              PROVE  SumOfProducts((i + b) + 4 * (lane \div 4), 4)
                        = IF lane \in 0..3 THEN G(b) ELSE G(b + 4)
            <4>1. CASE lane \in 0..3
                <5>1. (i + b) + 4 * (lane \div 4) = i + b
                    BY <4>1, <1>2
                <5>2. QED BY <4>1, <5>1
            <4>2. CASE lane \in 4..7
                <5>1. (i + b) + 4 * (lane \div 4) = i + (b + 4) /\ lane \notin 0..3
                    BY <4>2, <1>2
                <5>2. QED BY <5>1
            <4>3. QED BY <4>1, <4>2
        <3> HIDE DEF G
        <3>2. QED BY <2>1, <3>1 DEF DotProductOfLanes
    <2>4. /\ DotProductOfLanes(i, 8) = [lane \in 0..7 |-> IF lane \in 0..3 THEN G(0) ELSE G(4)]
          /\ DotProductOfLanes(i + 8, 8) = [lane \in 0..7 |-> IF lane \in 0..3 THEN G(8) ELSE G(12)]
          /\ DotProductOfLanes(i + 16, 8) = [lane \in 0..7 |-> IF lane \in 0..3 THEN G(16) ELSE G(20)]
          /\ DotProductOfLanes(i + 24, 8) = [lane \in 0..7 |-> IF lane \in 0..3 THEN G(24) ELSE G(28)]
        <3>1. i + 0 = i /\ 0 + 4 = 4 /\ 8 + 4 = 12 /\ 16 + 4 = 20 /\ 24 + 4 = 28
            BY <1>2
        <3> HIDE DEF G
        <3>2. QED BY <2>3, <3>1
    <2> HIDE DEF G
    <2>5. \A lane \in 0..7 : lanes[lane] \in Int
        BY <1>4, <2>1
    <2>6. lanes' = [lane \in 0..7 |->
                        IF lane \in 0..3
                        THEN lanes[lane] + G(0) + G(8) + G(16) + G(24)
                        ELSE lanes[lane] + G(4) + G(12) + G(20) + G(28)]
        <3>1. lanes' = Avx256Sum
            BY <1>6 DEF AddLanes
        <3>2. QED BY <3>1, <2>4 DEF Avx256Sum
    <2>7. lanes' \in [0..7 -> Int]
        BY <2>2, <2>5, <2>6
    <2>8. /\ lanes'[0] = lanes[0] + G(0) + G(8) + G(16) + G(24)
          /\ lanes'[5] = lanes[5] + G(4) + G(12) + G(20) + G(28)
        BY <2>6
    <2>9. lanes[0] \in Int /\ lanes[5] \in Int
        BY <2>5
    <2>10. lanes'[0] + lanes'[5] = lanes[0] + lanes[5] + SumOfProducts(i, 32)
        BY <2>2, <2>8, <2>9
    <2>11. Total(Summation) = lanes[0] + lanes[5] /\ Total(Summation)' = lanes'[0] + lanes'[5]
        BY <1>1, <1>6 DEF Total
    <2>12. SumOfProducts(i, 32) \in Int /\ Total(Summation) \in Int
        BY <1>3, <2>1, <2>9, <2>11
    <2>13. Total(Summation)' = Total(Summation) + SumOfProducts(i, 32)
        BY <2>10, <2>11
    <2>14. QED BY <2>1, <2>7, <2>12, <2>13
<1>7. QED BY <1>1, <1>5, <1>6

\* Which elements an iteration of the normalisation multiplies.
LEMMA ScalesStride ==
    ASSUME operation \in Operations, op = "vec_normalize", i \in Nat
    PROVE  Scales = i..(i + ScaleStride(variant) - 1)
<1>1. variant \in {"naive", "openmp", "sse42", "avx256"}
    BY Shapes DEF Variants
<1>2. CASE variant \in {"naive", "openmp"}
    <2>1. Scales = {i} /\ ScaleStride(variant) = 1
        BY <1>2 DEF Scales, ScaleStride
    <2>2. {i} = i..(i + 1 - 1)
        OBVIOUS
    <2>3. QED BY <2>1, <2>2
<1>3. CASE variant = "sse42"
    <2>1. Scales = i..(i + 3) /\ ScaleStride(variant) = 4
        BY <1>3 DEF Scales, ScaleStride, Sse42Scales
    <2>2. i + 3 = i + 4 - 1
        OBVIOUS
    <2>3. QED BY <2>1, <2>2
<1>4. CASE variant = "avx256"
    <2>1. Scales = Avx256Scales /\ ScaleStride(variant) = 32
        BY <1>4 DEF Scales, ScaleStride
    <2>2. ASSUME NEW k \in i..(i + 31) PROVE k \in Avx256Scales
        <3>1. CASE k \in i..(i + 7)
            BY <3>1 DEF Avx256Scales
        <3>2. CASE k \in (i + 8)..(i + 8 + 7)
            BY <3>2 DEF Avx256Scales
        <3>3. CASE k \in (i + 16)..(i + 16 + 7)
            BY <3>3 DEF Avx256Scales
        <3>4. CASE k \in (i + 24)..(i + 24 + 7)
            BY <3>4 DEF Avx256Scales
        <3>5. QED BY <3>1, <3>2, <3>3, <3>4
    <2>3. ASSUME NEW k \in Avx256Scales PROVE k \in i..(i + 31)
        <3>1. PICK j \in {i, i + 8, i + 16, i + 24} : k \in j..(j + 7)
            BY DEF Avx256Scales
        <3>2. QED BY <3>1
    <2>4. Avx256Scales = i..(i + 31)
        BY <2>2, <2>3
    <2>5. i + 31 = i + 32 - 1
        OBVIOUS
    <2>6. QED BY <2>1, <2>4, <2>5
<1>5. QED BY <1>1, <1>2, <1>3, <1>4

\* What the call asks for is the same after a step that leaves its arguments.
LEMMA SameRight ==
    ASSUME UNCHANGED arguments
    PROVE  /\ SumOfProducts(0, n)' = SumOfProducts(0, n)
           /\ Positions(n)' = Positions(n)
BY SameCall DEF SumOfProducts, Positions

\* An iteration of the loop that adds up.
LEMMA SummingKeeps ==
    ASSUME LoopInv, AddScalars \/ AddLanes
    PROVE  TypeOK' /\ SumInv' /\ ScaleInv'
<1>1. /\ phase = "summing" /\ phase' = "summing" /\ i < n
      /\ UNCHANGED arguments /\ UNCHANGED <<norm, scaled, result>>
      /\ i' = i + SumStride(Summation)
    BY DEF AddScalars, AddLanes
<1>2. /\ UNCHANGED <<operation, n, row, chunk, query>>
      /\ Summation' = Summation /\ Products' = Products
    BY <1>1, SameCall
<1>3. /\ lanes' \in [0..(LaneCount(Summation) - 1) -> Int]
      /\ Total(Summation) \in Int /\ SumOfProducts(i, SumStride(Summation)) \in Int
      /\ Total(Summation)' = Total(Summation) + SumOfProducts(i, SumStride(Summation))
    BY ScalarsAdded, LanesAdded
<1>4. /\ i \in Nat /\ n \in Nat /\ SumStride(Summation) \in Nat \ {0}
      /\ i + SumStride(Summation) \in 0..n
    BY <1>1, NextGroup
<1>5. TypeOK'
    <2>1. LaneCount(Summation)' = LaneCount(Summation) /\ Positions(n)' = Positions(n)
        BY <1>1, <1>2, SameRight DEF LaneCount
    <2>2. QED BY <1>1, <1>2, <1>3, <1>4, <2>1 DEF LoopInv, TypeOK
<1>6. SumInv'
    <2>1. Total(Summation) = SumOfProducts(0, i)
        BY <1>1 DEF LoopInv, SumInv
    <2>2. i + SumStride(Summation) <= n + 32
        BY <1>4
    <2>3. SumOfProducts(0, i + SumStride(Summation))
            = SumOfProducts(0, i) + SumOfProducts(i, SumStride(Summation))
        BY <1>4, <2>2, SumsOfProducts DEF LoopInv
    <2>4. SumOfProducts(0, i)' = SumOfProducts(0, i + SumStride(Summation))
        BY <1>1, <1>2 DEF SumOfProducts
    <2>5. Total(Summation)' = SumOfProducts(0, i)'
        BY <1>3, <2>1, <2>3, <2>4
    <2>6. QED BY <1>1, <2>5 DEF SumInv, ResultIsRight
<1>7. ScaleInv'
    BY <1>1, SameRight DEF LoopInv, ScaleInv, ScaledOnce
<1>8. QED BY <1>5, <1>6, <1>7

\* At the end of a loop its counter is at the end of the vector, and the sum is
\* that of all products.
LEMMA SumIsComplete ==
    ASSUME LoopInv, i >= n
    PROVE  /\ i = n /\ n \in Nat
           /\ SumOfProducts(0, n) \in Int
           /\ phase = "summing" => Total(Summation) = SumOfProducts(0, n)
<1>1. n \in Nat /\ i \in 0..n
    BY ProductsAreIntegers DEF LoopInv, TypeOK
<1>2. SumOfProducts(0, n) \in Int
    BY <1>1, SumsOfProducts DEF LoopInv
<1>3. QED BY <1>1, <1>2 DEF LoopInv, SumInv

\* The end of the loop that adds up.
LEMMA TotalKeeps ==
    ASSUME LoopInv, ReturnTotal \/ ReturnZero \/ BeginScaling
    PROVE  TypeOK' /\ SumInv' /\ ScaleInv'
<1>1. /\ phase = "summing" /\ i >= n /\ phase' \in {"done", "scaling"}
      /\ UNCHANGED arguments /\ UNCHANGED <<lanes, scaled>>
      /\ i' = i \/ i' = 0
    BY DEF ReturnTotal, ReturnZero, BeginScaling
<1>2. /\ UNCHANGED <<operation, n, row, chunk, query>>
      /\ Summation' = Summation /\ op' = op /\ Start' = Start
    BY <1>1, SameCall
<1>3. /\ i = n /\ n \in Nat /\ SumOfProducts(0, n) \in Int
      /\ Total(Summation) = SumOfProducts(0, n)
    BY <1>1, SumIsComplete
<1>4. SumOfProducts(0, n)' = SumOfProducts(0, n) /\ Positions(n)' = Positions(n)
    BY <1>1, SameRight
<1>5. /\ norm' \in Int /\ result' \in Int
      /\ phase' = "scaling" =>
            norm' = SumOfProducts(0, n) /\ SumOfProducts(0, n) >= TinySquare /\ i' = 0
      /\ phase' = "done" =>
            result' = IF op = "vec_normalize" /\ SumOfProducts(0, n) < TinySquare
                      THEN 0 ELSE SumOfProducts(0, n)
      /\ phase' = "done" => op # "vec_normalize" \/ SumOfProducts(0, n) < TinySquare
    <2>1. norm \in Int /\ result \in Int
        BY DEF LoopInv, TypeOK
    <2>2. CASE ReturnTotal
        BY <1>3, <2>1, <2>2 DEF ReturnTotal
    <2>3. CASE ReturnZero
        BY <1>3, <2>1, <2>3 DEF ReturnZero
    <2>4. CASE BeginScaling
        BY <1>3, <2>1, <2>4 DEF BeginScaling
    <2>5. QED BY <2>2, <2>3, <2>4
<1>6. TypeOK'
    <2>1. LaneCount(Summation)' = LaneCount(Summation)
        BY <1>2 DEF LaneCount
    <2>2. i' \in 0..n
        BY <1>1, <1>3
    <2>3. QED BY <1>1, <1>2, <1>4, <1>5, <2>1, <2>2 DEF LoopInv, TypeOK
<1>7. SumInv'
    BY <1>1, <1>2, <1>4, <1>5 DEF SumInv, ResultIsRight
<1>8. ScaleInv'
    <2>1. \A p \in Positions(n) : scaled[p] = 0
        BY <1>1 DEF LoopInv, ScaleInv
    <2>2. phase' = "scaling" => Start' \in Int /\ Start'..(Start' + i' - 1) = {}
        BY <1>2, <1>5, ProductsAreIntegers DEF LoopInv
    <2>3. phase' = "done" => ~(op = "vec_normalize" /\ SumOfProducts(0, n) >= TinySquare)
        BY <1>3, <1>5, TinySquareAssumption
    <2>4. QED BY <1>1, <1>2, <1>4, <2>1, <2>2, <2>3 DEF ScaleInv, ScaledOnce
<1>9. QED BY <1>6, <1>7, <1>8

\* An iteration of the loop that scales, and its end.
LEMMA ScalingKeeps ==
    ASSUME LoopInv, Scale \/ ReturnNorm
    PROVE  TypeOK' /\ SumInv' /\ ScaleInv'
<1>1. /\ phase = "scaling" /\ UNCHANGED arguments /\ UNCHANGED <<lanes, norm>>
      /\ op = "vec_normalize" /\ operation \in Operations
    BY DEF Scale, ReturnNorm, LoopInv, StrideInv
<1>2. /\ UNCHANGED <<operation, n, row, chunk, query>>
      /\ Summation' = Summation /\ op' = op /\ Start' = Start
      /\ SumOfProducts(0, n)' = SumOfProducts(0, n) /\ Positions(n)' = Positions(n)
      /\ LaneCount(Summation)' = LaneCount(Summation)
    BY <1>1, SameCall, SameRight DEF LaneCount
<1>3. /\ n \in Nat /\ n % 32 = 0 /\ Start \in Nat /\ i \in 0..n
      /\ scaled \in [Positions(n) -> Nat]
    BY ProductsAreIntegers DEF LoopInv, TypeOK
<1>4. /\ norm = SumOfProducts(0, n) /\ SumOfProducts(0, n) >= TinySquare
      /\ \A p \in Positions(n) : scaled[p] = IF p \in Start..(Start + i - 1) THEN 1 ELSE 0
    BY <1>1 DEF LoopInv, SumInv, ScaleInv
<1>5. CASE Scale
    <2> DEFINE stride == ScaleStride(variant)
    <2>1. /\ i < n /\ i' = i + stride /\ phase' = "scaling" /\ UNCHANGED result
          /\ scaled' = [p \in Positions(n) |->
                            IF p - Start \in Scales THEN scaled[p] + 1 ELSE scaled[p]]
        BY <1>1, <1>3, <1>5 DEF Scale
    <2>2. stride \in {1, 4, 8, 32} /\ i % stride = 0
        BY <1>1 DEF ScaleStride, LoopInv, StrideInv
    <2>3. i + stride \in 0..n
        <3>1. i + stride \in Nat /\ i + stride <= n
            BY <1>3, <2>1, <2>2, Strides
        <3>2. QED BY <3>1, <1>3
    <2>4. Scales = i..(i + stride - 1)
        BY <1>1, <1>3, ScalesStride
    <2> HIDE DEF stride
    <2>5. ASSUME NEW p \in Positions(n)
          PROVE  scaled'[p] = IF p \in Start..(Start + i' - 1) THEN 1 ELSE 0
        <3>1. p \in Int
            <4>1. Positions(n) \subseteq Int
                BY <1>3, RowsAssumption DEF Positions
            <4>2. QED BY <4>1
        <3>2. CASE p \in Start..(Start + i - 1)
            <4>1. p - Start \notin i..(i + stride - 1) /\ p \in Start..(Start + i' - 1)
                BY <1>3, <2>1, <2>2, <3>1, <3>2
            <4>2. scaled[p] = 1
                BY <1>4, <3>2
            <4>3. QED BY <2>1, <2>4, <4>1, <4>2
        <3>3. CASE p \in (Start + i)..(Start + i' - 1)
            <4>1. /\ p - Start \in i..(i + stride - 1) /\ p \in Start..(Start + i' - 1)
                  /\ p \notin Start..(Start + i - 1)
                BY <1>3, <2>1, <2>2, <3>1, <3>3
            <4>2. scaled[p] = 0
                BY <1>4, <4>1
            <4>3. QED BY <2>1, <2>4, <4>1, <4>2
        <3>4. CASE p \notin Start..(Start + i' - 1)
            <4>1. p - Start \notin i..(i + stride - 1) /\ p \notin Start..(Start + i - 1)
                BY <1>3, <2>1, <2>2, <3>1, <3>4
            <4>2. scaled[p] = 0
                BY <1>4, <4>1
            <4>3. QED BY <2>1, <2>4, <3>4, <4>1, <4>2
        <3>5. QED BY <3>2, <3>3, <3>4, <3>1, <1>3, <2>1, <2>2
    <2>6. scaled' \in [Positions(n) -> Nat]
        <3>1. \A p \in Positions(n) : scaled[p] + 1 \in Nat
            BY <1>3
        <3>2. QED BY <1>3, <2>1, <3>1
    <2>7. TypeOK'
        BY <1>1, <1>2, <2>1, <2>3, <2>6 DEF LoopInv, TypeOK
    <2>8. SumInv'
        BY <1>1, <1>2, <1>4, <2>1 DEF SumInv, ResultIsRight
    <2>9. ScaleInv'
        BY <1>2, <2>1, <2>5 DEF ScaleInv, ScaledOnce
    <2>10. QED BY <2>7, <2>8, <2>9
<1>6. CASE ReturnNorm
    <2>1. /\ i = n /\ i' = i /\ phase' = "done" /\ result' = norm /\ scaled' = scaled
          /\ SumOfProducts(0, n) \in Int
        BY <1>6, SumIsComplete DEF ReturnNorm
    <2>2. TypeOK'
        BY <1>1, <1>2, <2>1 DEF LoopInv, TypeOK
    <2>3. SumInv'
        BY <1>1, <1>2, <1>4, <2>1, TinySquareAssumption DEF SumInv, ResultIsRight
    <2>4. ScaleInv'
        BY <1>1, <1>2, <1>4, <2>1 DEF ScaleInv, ScaledOnce
    <2>5. QED BY <2>2, <2>3, <2>4
<1>7. QED BY <1>5, <1>6

LEMMA LoopNext == LoopInv /\ [Next]_vars => LoopInv'
<1> SUFFICES ASSUME LoopInv, [Next]_vars PROVE LoopInv'
    OBVIOUS
<1>1. StrideInv'
    BY StrideNext DEF LoopInv
<1>2. CASE Returned \/ UNCHANGED vars
    <2>1. UNCHANGED vars /\ UNCHANGED arguments
        BY <1>2 DEF Returned, vars
    <2>2. /\ UNCHANGED <<phase, i, lanes, norm, scaled, result>>
          /\ UNCHANGED <<operation, n, row, chunk, query>>
          /\ op' = op /\ Summation' = Summation /\ Products' = Products /\ Start' = Start
          /\ SumOfProducts(0, n)' = SumOfProducts(0, n) /\ Positions(n)' = Positions(n)
        BY <2>1, SameCall, SameRight DEF vars
    <2>3. TypeOK'
        BY <2>2 DEF LoopInv, TypeOK, LaneCount
    <2>4. SumInv'
        <3>1. Total(Summation)' = Total(Summation) /\ SumOfProducts(0, i)' = SumOfProducts(0, i)
            BY <2>2 DEF Total, SumOfProducts
        <3>2. QED BY <2>2, <3>1 DEF LoopInv, SumInv, ResultIsRight
    <2>5. ScaleInv'
        BY <2>2 DEF LoopInv, ScaleInv, ScaledOnce
    <2>6. QED BY <1>1, <2>3, <2>4, <2>5 DEF LoopInv
<1>3. CASE Next
    BY <1>1, <1>2, <1>3, SummingKeeps, TotalKeeps, ScalingKeeps DEF Next, LoopInv
<1>4. QED BY <1>2, <1>3

-----------------------------------------------------------------------------

LEMMA LoopInvariance == Spec => []LoopInv
BY LoopInit, LoopNext, PTL DEF Spec

\* Sums stay integers, counters stay in the vector, lanes stay those of the loop.
THEOREM TypesCorrect == Spec => []TypeOK
<1>1. LoopInv => TypeOK
    BY DEF LoopInv
<1>2. QED BY <1>1, LoopInvariance, PTL

\* Every variant returns what the definition of the dot product or the norm
\* gives, for any vector of integers (dot_product_naive.cpp, dot_product_openmp.cpp,
\* dot_product_sse42.cpp, dot_product_avx256.cpp).
THEOREM ResultsRight == Spec => []ResultIsRight
<1>1. LoopInv => ResultIsRight
    BY DEF LoopInv, SumInv
<1>2. QED BY <1>1, LoopInvariance, PTL

\* vec_normalize multiplies every element of its vector exactly once and nothing
\* else in the chunk, or nothing at all (dot_product_avx256.cpp:72-93).
THEOREM EachScaledOnce == Spec => []ScaledOnce
<1>1. LoopInv => ScaledOnce
    BY DEF LoopInv, ScaleInv
<1>2. QED BY <1>1, LoopInvariance, PTL

=============================================================================
