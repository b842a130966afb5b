------------------------------ MODULE JobStatus ------------------------------
(***************************************************************************)
(* The vocabulary of job_status_t.h: how a job, or the part of a job that   *)
(* one executor was given, can end, and how the answers of the executors    *)
(* combine into the status and the result of the whole job.                 *)
(***************************************************************************)
EXTENDS Naturals

CONSTANT CarriesResult
    \* The completions whose answers come with a reduce_result: the others
    \* leave job_result_t::result() empty.

\* The values of job_completion that a finished answer can have; `none' is
\* the value of a job that has not ended.
Completions == {"succeeded", "succeeded_partially", "cancelled", "failed"}

\* The tracker asserts that a successful answer carries a result.
ASSUME CarriesResultAssumption ==
    /\ CarriesResult \subseteq Completions
    /\ "succeeded" \in CarriesResult

\* What the tracker publishes for the answers of the executors in `from':
\* every result that is there is reduced, and a single answer that is not a
\* success makes the outcome partial.
Outcome(answer, from) ==
    [ completion |-> IF \A e \in from : answer[e] = "succeeded"
                     THEN "succeeded" ELSE "succeeded_partially",
      reduced    |-> {e \in from : answer[e] \in CarriesResult} ]

\* The outcome of a job that has none.
NoOutcome == [completion |-> "none", reduced |-> {}]

=============================================================================
