--------------------------- MODULE CompletionSignal --------------------------
(***************************************************************************)
(* completion_signal_t (completion_signal_t.h): threads wait on a condition  *)
(* variable, with a lock they bring along, until another one has called      *)
(* notify_completed, which takes no lock.                                   *)
(***************************************************************************)
EXTENDS Naturals

CONSTANTS
    Waiters,        \* threads that call wait
    TimedWaiters,   \* threads that call wait_for or wait_until
    Nobody          \* the lock is free

VARIABLES
    completed,      \* _completed
    notifier,       \* where notify_completed is
    place,          \* where each waiting thread is
    holder,         \* who has the lock
    answer          \* what the timed waits returned

vars == <<completed, notifier, place, holder, answer>>

Threads == Waiters \union TimedWaiters

Init ==
    /\ completed = FALSE
    /\ notifier = "idle"
    /\ place = [t \in Threads |-> "idle"]
    /\ holder = Nobody
    /\ answer = [t \in TimedWaiters |-> FALSE]

\* notify_completed: the store ...
StoreCompleted ==
    /\ notifier = "idle"
    /\ completed' = TRUE
    /\ notifier' = "stored"
    /\ UNCHANGED <<place, holder, answer>>

\* ... and the notification of those that are blocked by now.
NotifyAll ==
    /\ notifier = "stored"
    /\ place' = [t \in Threads |-> IF place[t] = "blocked" THEN "woken" ELSE place[t]]
    /\ notifier' = "returned"
    /\ UNCHANGED <<completed, holder, answer>>

\* wait is called with the lock, and a woken thread takes it again.
Lock(t) ==
    /\ place[t] \in {"idle", "woken"}
    /\ holder = Nobody
    /\ holder' = t
    /\ place' = [place EXCEPT ![t] = "testing"]
    /\ UNCHANGED <<completed, notifier, answer>>

\* The predicate holds: the wait returns, and the lock is destroyed with it.
ReturnCompleted(t) ==
    /\ place[t] = "testing"
    /\ completed
    /\ place' = [place EXCEPT ![t] = "returned"]
    /\ answer' = IF t \in TimedWaiters THEN [answer EXCEPT ![t] = TRUE] ELSE answer
    /\ holder' = Nobody
    /\ UNCHANGED <<completed, notifier>>

\* It does not: the thread is going to block ...
TestFails(t) ==
    /\ place[t] = "testing"
    /\ ~completed
    /\ place' = [place EXCEPT ![t] = "blocking"]
    /\ UNCHANGED <<completed, notifier, holder, answer>>

\* ... and blocks, giving up the lock.
Block(t) ==
    /\ place[t] = "blocking"
    /\ place' = [place EXCEPT ![t] = "blocked"]
    /\ holder' = Nobody
    /\ UNCHANGED <<completed, notifier, answer>>

\* A timed wait that is not notified in time returns the predicate.
TimeOut(t) ==
    /\ t \in TimedWaiters
    /\ place[t] = "blocked"
    /\ holder = Nobody
    /\ place' = [place EXCEPT ![t] = "returned"]
    /\ answer' = [answer EXCEPT ![t] = completed]
    /\ UNCHANGED <<completed, notifier, holder>>

WaiterStep(t) == Lock(t) \/ ReturnCompleted(t) \/ TestFails(t) \/ Block(t) \/ TimeOut(t)

Next ==
    \/ StoreCompleted \/ NotifyAll
    \/ \E t \in Threads : WaiterStep(t)

\* Every thread keeps running; nobody needs to start a wait.
FairSpec ==
    /\ Init /\ [][Next]_vars
    /\ WF_vars(NotifyAll)
    /\ \A t \in Threads : WF_vars(place[t] # "idle" /\ WaiterStep(t))

\* Who waits for the completion returns when it has come
\* (completion_signal_t.h:28, "Waits for the callback to be triggered.").
WaitReturns ==
    \A t \in Threads : completed /\ place[t] # "idle" ~> place[t] = "returned"

=============================================================================
