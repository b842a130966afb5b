----------------------------- MODULE MCVectorOps -----------------------------
(***************************************************************************)
(* Contents of buffers for TLC: ones that tell all lanes apart, ones with    *)
(* signs that cancel, the vector of the tests with its last element set      *)
(* only (VectorNorm.cpp), and ones whose first or second vector is about     *)
(* zero.                                                                     *)
(***************************************************************************)
EXTENDS VectorOps

SomeContents ==
    [d \in Dimensions |->
        {[p \in Positions(d) |-> p + 1],
         [p \in Positions(d) |-> (p % 3) - 1],
         [p \in Positions(d) |-> IF p % d = d - 1 THEN 17 ELSE 0],
         [p \in Positions(d) |-> IF p < d THEN 0 ELSE 5],
         [p \in Positions(d) |-> IF p = 2 * d - 3 THEN 1 ELSE IF p < d THEN 2 ELSE 0]}]

=============================================================================
