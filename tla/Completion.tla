----------------------------- MODULE Completion ------------------------------
(***************************************************************************)
(* Promises that an executor fulfils: execution_completion_promise with the  *)
(* auto_reset_event it may share with others, and the forms of process that  *)
(* return a future (executor_t.h, worker_thread_coordinator.cpp).            *)
(*                                                                         *)
(* The callback of a promise captures its address.  process makes the        *)
(* promise on its stack, gives the callback away, and destroys the promise   *)
(* when it returns: the executors have run the callback before that, or, as  *)
(* the remote executor does, have destroyed it without running it.           *)
(*                                                                         *)
(* Every member of the event works under its mutex from its first to its     *)
(* last line, but for the time a wait is blocked: each is one step, and a    *)
(* wait one for each time it has the mutex.                                 *)
(***************************************************************************)
EXTENDS Naturals, FiniteSets

CONSTANTS
    Promises,       \* the calls of process, each on a thread of its own
    Signalling,     \* the promises that were created with the event
    Silent,         \* the promises of executors that never call back
    Waiters,        \* threads that call wait on the event
    TimedWaiters    \* threads that call wait_for or wait_until

ASSUME PromisesAssumption ==
    /\ IsFiniteSet(Promises)
    /\ Signalling \subseteq Promises
    /\ Silent \subseteq Promises
ASSUME WaitersAssumption == Waiters \intersect TimedWaiters = {}

Threads == Waiters \union TimedWaiters

VARIABLES
    initial,        \* the argument of the constructor of the event
    flag,           \* _flag
    place,          \* where each waiting thread is
    returns,        \* history: how many waits came back with a signal
    process,        \* where each call of process is
    ready,          \* the promises whose future has its value
    broken          \* the promises destroyed before their future had one

eventVars == <<initial, flag, place, returns>>
promiseVars == <<process, ready, broken>>
vars == <<eventVars, promiseVars>>

ThreadPlaces == {"idle", "blocked", "woken"}
CallPlaces == {"none", "created", "executing", "valued", "answered", "dropped",
               "finished"}

Init ==
    /\ initial \in BOOLEAN
    /\ flag = initial
    /\ place = [t \in Threads |-> "idle"]
    /\ returns = 0
    /\ process = [p \in Promises |-> "none"]
    /\ ready = {}
    /\ broken = {}

-----------------------------------------------------------------------------
(* auto_reset_event.                                                         *)

\* Mutant: set notifies nobody.
SetSilently ==
    /\ flag' = TRUE
    /\ UNCHANGED <<initial, place, returns>>

\* set: the flag, then everyone that is blocked.
Set ==
    /\ flag' = TRUE
    /\ place' = [t \in Threads |-> IF place[t] = "blocked" THEN "woken" ELSE place[t]]
    /\ UNCHANGED <<initial, returns>>

\* Mutant: a wait leaves the flag as it is.
TakeSignalOnly(t) ==
    /\ flag
    /\ place' = [place EXCEPT ![t] = "idle"]
    /\ returns' = returns + 1
    /\ UNCHANGED <<initial, flag>>

\* A wait that finds the flag takes it back and returns, ...
TakeSignal(t) ==
    /\ flag
    /\ flag' = FALSE
    /\ place' = [place EXCEPT ![t] = "idle"]
    /\ returns' = returns + 1
    /\ UNCHANGED initial

\* ... and one that does not is blocked.
WaitForSignal(t) ==
    /\ ~flag
    /\ place' = [place EXCEPT ![t] = "blocked"]
    /\ UNCHANGED <<initial, flag, returns>>

\* wait, wait_for and wait_until.
Wait(t) ==
    /\ place[t] = "idle"
    /\ TakeSignal(t) \/ WaitForSignal(t)
    /\ UNCHANGED promiseVars

\* A thread that was notified has the mutex again.
WakeUp(t) ==
    /\ place[t] = "woken"
    /\ TakeSignal(t) \/ WaitForSignal(t)
    /\ UNCHANGED promiseVars

\* The time is up: false, unless the flag is set after all.
TimeOut(t) ==
    /\ t \in TimedWaiters
    /\ place[t] \in {"blocked", "woken"}
    /\ \/ TakeSignal(t)
       \/ /\ ~flag
          /\ place' = [place EXCEPT ![t] = "idle"]
          /\ UNCHANGED <<initial, flag, returns>>
    /\ UNCHANGED promiseVars

\* A condition variable may wake a thread for no reason.
WakeSpuriously(t) ==
    /\ place[t] = "blocked"
    /\ place' = [place EXCEPT ![t] = "woken"]
    /\ UNCHANGED <<initial, flag, returns, promiseVars>>

\* reset: whoever was notified and is not back yet blocks again.
Reset ==
    /\ flag
    /\ flag' = FALSE
    /\ UNCHANGED <<initial, place, returns, promiseVars>>

-----------------------------------------------------------------------------
(* Promises.                                                                 *)

At(p, where) == process[p] = where
Go(p, where) == process' = [process EXCEPT ![p] = where]

\* create_promise and get_future.
CreatePromise(p) ==
    /\ At(p, "none")
    /\ Go(p, "created")
    /\ UNCHANGED <<eventVars, ready, broken>>

\* The callback is moved into the virtual process of the executor.
Execute(p) ==
    /\ At(p, "created")
    /\ Go(p, "executing")
    /\ UNCHANGED <<eventVars, ready, broken>>

\* Mutant: the callback signals the event and then sets the value.
SignalFirst(p) ==
    /\ At(p, "executing")
    /\ p \notin Silent
    /\ Go(p, "valued")
    /\ IF p \in Signalling THEN Set ELSE UNCHANGED eventVars
    /\ UNCHANGED <<ready, broken>>

\* The callback of the promise: the value ...
SetValue(p) ==
    /\ At(p, "executing")
    /\ p \notin Silent
    /\ Go(p, "valued")
    /\ ready' = ready \union {p}
    /\ UNCHANGED <<eventVars, broken>>

\* ... and the event, if the promise has one.
SignalEvent(p) ==
    /\ At(p, "valued")
    /\ Go(p, "answered")
    /\ IF p \in Signalling THEN Set ELSE UNCHANGED eventVars
    /\ UNCHANGED <<ready, broken>>

\* The virtual process returns, and its argument is destroyed with the callback.
DropCallback(p) ==
    /\ At(p, "executing")
    /\ p \in Silent
    /\ Go(p, "dropped")
    /\ UNCHANGED <<eventVars, ready, broken>>

\* process returns the future, and its promise is destroyed: one without a value
\* leaves a broken promise in its future.
ReturnFuture(p) ==
    /\ At(p, "answered") \/ At(p, "dropped")
    /\ Go(p, "finished")
    /\ broken' = IF p \in ready THEN broken ELSE broken \union {p}
    /\ UNCHANGED <<eventVars, ready>>

ProcessStep(p) ==
    \/ CreatePromise(p) \/ Execute(p) \/ SetValue(p) \/ SignalEvent(p)
    \/ DropCallback(p) \/ ReturnFuture(p)

-----------------------------------------------------------------------------

Next ==
    \/ \E t \in Threads : Wait(t) \/ WakeUp(t) \/ TimeOut(t) \/ WakeSpuriously(t)
    \/ Reset
    \/ \E p \in Promises : ProcessStep(p)

Spec == Init /\ [][Next]_vars

\* A thread that was notified gets the mutex.  Nothing else is needed: no time
\* runs out, and nobody has to wait, to reset or to process.
Fairness == \A t \in Threads : WF_vars(WakeUp(t))

FairSpec == Spec /\ Fairness

-----------------------------------------------------------------------------
(* Properties.                                                               *)

\* The variables keep their ranges, and a future that process returns is settled,
\* so that future.get() does not block: with the value if the executor calls
\* back, and only otherwise with a broken promise, on which get() throws.
TypeOK ==
    /\ initial \in BOOLEAN
    /\ flag \in BOOLEAN
    /\ place \in [Threads -> ThreadPlaces]
    /\ returns \in Nat
    /\ process \in [Promises -> CallPlaces]
    /\ ready \subseteq Promises
    /\ broken \subseteq Silent \ ready
    /\ \A p \in Promises : process[p] = "finished" => p \in ready \union broken

CountIf(given) == IF given THEN 1 ELSE 0

\* The signals that were given back by waits, and the one that may be left.
Signals == returns + CountIf(flag)

\* No more waits come back with a signal than futures have their values, but for
\* one if the event was created set: a signal releases one wait only, however
\* many threads it wakes and whether their time is up or not, and it is not
\* given before the value it announces.
WaitersSeeResults == Signals <= Cardinality(ready \intersect Signalling) + CountIf(initial)

\* A signal that is set is taken by some wait if there are any, or reset: none
\* of the waiting threads sleeps through it.
SignalIsTaken ==
    \A t \in Threads : flag /\ place[t] # "idle" ~> ~flag \/ place[t] = "idle"

=============================================================================
