--------------------------- MODULE MCVectorSearch ----------------------------
(***************************************************************************)
(* Scores for TLC: a negative one, the initial one of a scan, a positive one. *)
(* Memory that was not written may seem better than all of them.             *)
(***************************************************************************)
EXTENDS VectorSearch

FewScores == {-1, 0, 1}
FewGarbage == {NaN, 2}

=============================================================================
