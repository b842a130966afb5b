----------------------------- MODULE JobService ------------------------------
(***************************************************************************)
(* What a caller of job_coordinator may rely on, without the tracker, the   *)
(* notification queue and the update thread.  A submitted job is pending     *)
(* until the future of the caller is settled, which happens at most once:    *)
(* with the combination of the answers of ALL executors that were asked, or  *)
(* with a broken promise when the coordinator is destroyed first.  The       *)
(* service may fail to ask an executor, and does not tell the caller so.     *)
(***************************************************************************)
EXTENDS JobStatus

CONSTANTS Jobs, Executors

VARIABLES
    open,       \* the coordinator exists
    stage,      \* per job, what its future shows
    answer,     \* per job and executor, the answer given, "skipped" or "none"
    outcome     \* per job, the value of its future

serviceVars == <<open, stage, answer, outcome>>

Stages == {"new", "pending", "resolved", "failed", "abandoned"}

Init ==
    /\ open = TRUE
    /\ stage = [j \in Jobs |-> "new"]
    /\ answer = [j \in Jobs |-> [e \in Executors |-> "none"]]
    /\ outcome = [j \in Jobs |-> NoOutcome]

Submit(j) ==
    /\ open
    /\ stage[j] = "new"
    /\ stage' = [stage EXCEPT ![j] = "pending"]
    /\ UNCHANGED <<open, answer, outcome>>

\* The coordinator could not register the job.
Refuse(j) ==
    /\ open
    /\ stage[j] = "new"
    /\ stage' = [stage EXCEPT ![j] = "failed"]
    /\ UNCHANGED <<open, answer, outcome>>

\* An executor answers once; it may do so after the job was abandoned.
Answer(j, e) ==
    /\ stage[j] \in {"pending", "abandoned"}
    /\ answer[j][e] = "none"
    /\ \E a \in Completions : answer' = [answer EXCEPT ![j][e] = a]
    /\ UNCHANGED <<open, stage, outcome>>

\* The coordinator could not ask an executor.  It notices so while it hands the
\* job out, before anybody can be given the outcome.
Skip(j, e) ==
    /\ open
    /\ stage[j] = "pending"
    /\ answer[j][e] = "none"
    /\ answer' = [answer EXCEPT ![j][e] = "skipped"]
    /\ UNCHANGED <<open, stage, outcome>>

Asked(j) == {e \in Executors : answer[j][e] # "skipped"}

Resolve(j) ==
    /\ open
    /\ stage[j] = "pending"
    /\ \A e \in Executors : answer[j][e] # "none"
    /\ stage' = [stage EXCEPT ![j] = "resolved"]
    /\ outcome' = [outcome EXCEPT ![j] = Outcome(answer[j], Asked(j))]
    /\ UNCHANGED <<open, answer>>

Close ==
    /\ open
    /\ open' = FALSE
    /\ stage' = [j \in Jobs |-> IF stage[j] = "pending" THEN "abandoned" ELSE stage[j]]
    /\ UNCHANGED <<answer, outcome>>

Next ==
    \/ \E j \in Jobs : Submit(j) \/ Refuse(j) \/ Resolve(j)
    \/ \E j \in Jobs, e \in Executors : Answer(j, e) \/ Skip(j, e)
    \/ Close

Spec == Init /\ [][Next]_serviceVars

=============================================================================
