------------------------------ MODULE MapReduce ------------------------------
(***************************************************************************)
(* The results that mappers, combiners and reducers hand to each other, and  *)
(* the plugins of the program, which keep all scores in the order in which   *)
(* they get them.                                                           *)
(***************************************************************************)
EXTENDS Sequences

\* A score_result_t is the result of a mapper, of a combiner and of a reducer.
ScoreResult(scores) == [type |-> "score_result_t", value |-> scores]

\* any_cast of a result to the type of its value.
AnyCast(result) == result.value

\* Mutant: the combiner goes on with what it has.
BeginCombiningAgain(scores) == scores

\* keep_all_combiner: begin, ...
BeginCombining(scores) == <<>>

\* ... combine, which gets a map_result and casts it, ...
Combine(scores, other) == scores \o AnyCast(other)

\* ... and finish.
FinishCombining(scores) == ScoreResult(scores)

\* keep_all_reducer: begin, ...
BeginReducing(scores) == <<>>

\* ... reduce, which gets a combine_result or a reduce_result and casts it, ...
Reduce(scores, other) == scores \o AnyCast(other)

\* ... and finish.
FinishReducing(scores) == ScoreResult(scores)

=============================================================================
