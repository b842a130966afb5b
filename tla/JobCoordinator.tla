--------------------------- MODULE JobCoordinator ----------------------------
(***************************************************************************)
(* job_coordinator (job_coordinator.cpp) with its job_trackers              *)
(* (job_tracker.h, job_tracker.cpp), the notification queue                 *)
(* (job_status_notification.h) and the executors seen through executor_t.   *)
(*                                                                         *)
(* The processes are                                                        *)
(*   - one client thread per job, inside job_coordinator::query;            *)
(*   - the threads on which a deferred executor runs its callback;          *)
(*   - the update thread;                                                   *)
(*   - the thread that destroys the coordinator.                            *)
(*                                                                         *)
(* A job, its job_info_t and its job_tracker are identified with each       *)
(* other: the keys of _jobs are compared by address (unordered_map over     *)
(* shared_ptr), and create_job_info makes a new object for every query, so  *)
(* the branch for an ID collision cannot be taken and is not modelled.      *)
(***************************************************************************)
EXTENDS JobStatus, Functions

CONSTANTS
    Jobs,               \* the queries issued while the coordinator lives
    NullInfo,           \* the nullptr the destructor enqueues
    ExecutorCount,      \* _executors.size()
    InstanceOf,         \* executor -> instance_identifier_t object
    KindOf,             \* executor -> "local", "deferred" or "remote"
    DeferredAnswers,    \* the completions a deferred executor may answer
    MaxDequeue,         \* max_dequeue_count, 16 in the code
    InsertMayThrow      \* an insertion into _jobs or _executor_results may throw

Executors == 1..ExecutorCount
Infos == Jobs \union {NullInfo}
Kinds == {"local", "deferred", "remote"}

\* The executors run on different instances, as the map of the tracker expects.
DistinctInstances ==
    \A d, e \in Executors : InstanceOf[d] = InstanceOf[e] => d = e

\* Every executor calls back, and memory does not run out.
NoFaults ==
    /\ \A e \in Executors : KindOf[e] # "remote"
    /\ ~InsertMayThrow

ASSUME ConstantsAssumption ==
    /\ NullInfo \notin Jobs
    /\ ExecutorCount \in Nat
    /\ DOMAIN InstanceOf = Executors
    /\ KindOf \in [Executors -> Kinds]
    /\ DeferredAnswers \subseteq Completions
    /\ MaxDequeue \in Nat \ {0}
    /\ InsertMayThrow \in BOOLEAN

VARIABLES
    client,             \* where the thread of each query is
    cursor,             \* the executor its loop over _executors has reached
    jobs,               \* the keys of _jobs
    entries,            \* per job, the executors whose future is in _executor_results
    slot,               \* per job and executor, the state behind that future
    owed,               \* per job, the deferred callbacks between set_value and notify
    addingComplete,     \* _adding_complete
    alreadyProcessed,   \* _already_processed
    promise,            \* _promise of each tracker
    outcome,            \* the value _promise was given
    signals,            \* _queue, as a bag: it keeps no order between producers
    updater,            \* where the update thread is
    batch,              \* infos, what the last dequeue returned and is not yet looked at
    current,            \* the entry of infos being looked at
    torn,               \* should_update runs over a map that is being changed
    toUpdate,           \* trackers_to_update
    shutdown,           \* _shutdown
    destructor,         \* where ~Impl is
    crash               \* why the process died, or "none"

clientVars   == <<client, cursor, jobs>>
trackerVars  == <<entries, slot, owed, addingComplete>>
promiseVars  == <<alreadyProcessed, promise, outcome>>
updaterVars  == <<updater, batch, current, torn, toUpdate>>
lifeVars     == <<shutdown, destructor, crash>>
vars == <<clientVars, trackerVars, promiseVars, signals, updaterVars, lifeVars>>

ClientPlaces == {"idle", "failing", "scheduling", "inserting", "dispatching",
                 "announcing", "completing", "returned"}
Slots == {"none", "pending", "broken", "skipped"} \union Completions
UpdaterPlaces == {"waiting", "dequeued", "locked", "testing", "updating",
                  "looping", "exited"}
Crashes == {"none", "terminate", "null_lookup", "torn_iterator", "dangling_tracker"}

EmptyBag == [i \in Infos |-> 0]

Init ==
    /\ client = [j \in Jobs |-> "idle"]
    /\ cursor = [j \in Jobs |-> 1]
    /\ jobs = {}
    /\ entries = [j \in Jobs |-> {}]
    /\ slot = [j \in Jobs |-> [e \in Executors |-> "none"]]
    /\ owed = [j \in Jobs |-> {}]
    /\ addingComplete = [j \in Jobs |-> FALSE]
    /\ alreadyProcessed = [j \in Jobs |-> FALSE]
    /\ promise = [j \in Jobs |-> "unset"]
    /\ outcome = [j \in Jobs |-> NoOutcome]
    /\ signals = EmptyBag
    /\ updater = "waiting"
    /\ batch = EmptyBag
    /\ current = NullInfo
    /\ torn = FALSE
    /\ toUpdate = {}
    /\ shutdown = FALSE
    /\ destructor = "alive"
    /\ crash = "none"

-----------------------------------------------------------------------------
(* The notification queue: one enqueue adds one info to the bag, and a bulk  *)
(* dequeue takes between one element and MaxDequeue of what is there.        *)

Notify(i) == signals' = [signals EXCEPT ![i] = @ + 1]

\* Mutant: a dequeue that may return one element more than infos holds.
BatchesOverflowing ==
    {b \in [Infos -> 0..(MaxDequeue + 1)] :
        /\ \A i \in Infos : b[i] <= signals[i]
        /\ FoldFunction(+, 0, b) \in 1..(MaxDequeue + 1)}

Batches ==
    {b \in [Infos -> 0..MaxDequeue] :
        /\ \A i \in Infos : b[i] <= signals[i]
        /\ FoldFunction(+, 0, b) \in 1..MaxDequeue}

\* The update thread holds _mutex as a reader in these places; the sections of
\* the writers are single steps.
ReadLocked == updater \in {"locked", "testing"}

\* Whether should_update of this tracker is being evaluated.
BeingTested(j) == updater = "testing" /\ current = j

IsReady(j, e) == slot[j][e] \notin {"none", "pending"}

-----------------------------------------------------------------------------
(* job_coordinator::query, on the thread of its caller.                      *)

\* The tracker is created and inserted into _jobs under the write lock.  The
\* caller keeps the coordinator alive during the call.
InsertJob(j) ==
    /\ client[j] = "idle"
    /\ destructor = "alive"
    /\ ~ReadLocked
    /\ jobs' = jobs \union {j}
    /\ client' = [client EXCEPT ![j] = "scheduling"]
    /\ UNCHANGED <<cursor, trackerVars, promiseVars, signals, updaterVars, lifeVars>>

\* The insertion throws: fail_with_exception sets the promise and notifies.
InsertThrows(j) ==
    /\ InsertMayThrow
    /\ client[j] = "idle"
    /\ destructor = "alive"
    /\ ~ReadLocked
    /\ promise' = [promise EXCEPT ![j] = "exception"]
    /\ Notify(j)
    /\ client' = [client EXCEPT ![j] = "failing"]
    /\ UNCHANGED <<cursor, jobs, trackerVars, alreadyProcessed, outcome, updaterVars, lifeVars>>

\* fail_with_exception then calls _promise.get_future() although the
\* constructor has taken that future: the exception leaves a noexcept function.
FutureAlreadyRetrieved(j) ==
    /\ client[j] = "failing"
    /\ crash' = "terminate"
    /\ UNCHANGED <<clientVars, trackerVars, promiseVars, signals, updaterVars, shutdown, destructor>>

\* process_on starts changing _executor_results, without any lock.
BeginInsertResult(j) ==
    /\ client[j] = "scheduling"
    /\ cursor[j] \in Executors
    /\ client' = [client EXCEPT ![j] = "inserting"]
    /\ torn' = (torn \/ BeingTested(j))
    /\ UNCHANGED <<cursor, jobs, trackerVars, promiseVars, signals,
                   updater, batch, current, toUpdate, lifeVars>>

\* The future of the executor is in the map, unless there is one for the same
\* instance: unordered_map::insert keeps the old one and the result is ignored.
EndInsertResult(j) ==
    LET e == cursor[j] IN
    /\ client[j] = "inserting"
    /\ slot' = [slot EXCEPT ![j][e] = "pending"]
    /\ entries' = [entries EXCEPT ![j] =
                    IF \E d \in @ : InstanceOf[d] = InstanceOf[e] THEN @ ELSE @ \union {e}]
    /\ client' = [client EXCEPT ![j] = "dispatching"]
    /\ UNCHANGED <<cursor, jobs, owed, addingComplete, promiseVars, signals, updaterVars, lifeVars>>

\* process_on returns to the loop of query, which goes on to the next executor.
NextExecutor(j) ==
    /\ client' = [client EXCEPT ![j] = "scheduling"]
    /\ cursor' = [cursor EXCEPT ![j] = @ + 1]

\* The insertion throws, which leaves the map as it was.  The exception goes to
\* a promise whose future nobody has, and the executor is never called.
InsertResultThrows(j) ==
    /\ InsertMayThrow
    /\ client[j] = "scheduling"
    /\ cursor[j] \in Executors
    /\ slot' = [slot EXCEPT ![j][cursor[j]] = "skipped"]
    /\ NextExecutor(j)
    /\ UNCHANGED <<jobs, entries, owed, addingComplete, promiseVars, signals, updaterVars, lifeVars>>

\* The local executor runs the job to its end on the calling thread, always
\* answers `succeeded', and calls the callback: set_value ...
ProcessLocally(j) ==
    /\ client[j] = "dispatching"
    /\ KindOf[cursor[j]] = "local"
    /\ slot' = [slot EXCEPT ![j][cursor[j]] = "succeeded"]
    /\ client' = [client EXCEPT ![j] = "announcing"]
    /\ UNCHANGED <<cursor, jobs, entries, owed, addingComplete, promiseVars, signals,
                   updaterVars, lifeVars>>

\* ... and then notify.
AnnounceLocally(j) ==
    /\ client[j] = "announcing"
    /\ Notify(j)
    /\ NextExecutor(j)
    /\ UNCHANGED <<jobs, trackerVars, promiseVars, updaterVars, lifeVars>>

\* An executor that keeps the callback for a thread of its own.
HandOver(j) ==
    /\ client[j] = "dispatching"
    /\ KindOf[cursor[j]] = "deferred"
    /\ NextExecutor(j)
    /\ UNCHANGED <<jobs, trackerVars, promiseVars, signals, updaterVars, lifeVars>>

\* remote_executor_t::process drops the callback, and with it the promise.
DropCallback(j) ==
    /\ client[j] = "dispatching"
    /\ KindOf[cursor[j]] = "remote"
    /\ slot' = [slot EXCEPT ![j][cursor[j]] = "broken"]
    /\ NextExecutor(j)
    /\ UNCHANGED <<jobs, entries, owed, addingComplete, promiseVars, signals, updaterVars, lifeVars>>

\* complete_adding: store ...
StoreAddingComplete(j) ==
    /\ client[j] = "scheduling"
    /\ cursor[j] \notin Executors
    /\ addingComplete' = [addingComplete EXCEPT ![j] = TRUE]
    /\ client' = [client EXCEPT ![j] = "completing"]
    /\ UNCHANGED <<cursor, jobs, entries, slot, owed, promiseVars, signals, updaterVars, lifeVars>>

\* ... then notify_upstream; query returns the future.
AnnounceAddingComplete(j) ==
    /\ client[j] = "completing"
    /\ Notify(j)
    /\ client' = [client EXCEPT ![j] = "returned"]
    /\ UNCHANGED <<cursor, jobs, trackerVars, promiseVars, updaterVars, lifeVars>>

ClientStep(j) ==
    \/ InsertJob(j)
    \/ InsertThrows(j)
    \/ FutureAlreadyRetrieved(j)
    \/ BeginInsertResult(j)
    \/ EndInsertResult(j)
    \/ InsertResultThrows(j)
    \/ ProcessLocally(j)
    \/ AnnounceLocally(j)
    \/ HandOver(j)
    \/ DropCallback(j)
    \/ StoreAddingComplete(j)
    \/ AnnounceAddingComplete(j)

-----------------------------------------------------------------------------
(* The callback of process_on on the thread of a deferred executor.          *)

DeferredAnswer(j, e) ==
    /\ KindOf[e] = "deferred"
    /\ slot[j][e] = "pending"
    /\ cursor[j] > e
    /\ \E a \in DeferredAnswers : slot' = [slot EXCEPT ![j][e] = a]
    /\ owed' = [owed EXCEPT ![j] = @ \union {e}]
    /\ UNCHANGED <<clientVars, entries, addingComplete, promiseVars, signals, updaterVars, lifeVars>>

\* Mutant: the callback sets the value and tells nobody.
DeferredAnnounceSilently(j, e) ==
    /\ e \in owed[j]
    /\ owed' = [owed EXCEPT ![j] = @ \ {e}]
    /\ UNCHANGED <<clientVars, entries, slot, addingComplete, promiseVars, signals,
                   updaterVars, lifeVars>>

\* The callback reaches the queue through its tracker, which only _jobs owns.
DeferredAnnounce(j, e) ==
    /\ e \in owed[j]
    /\ owed' = [owed EXCEPT ![j] = @ \ {e}]
    /\ IF destructor = "joined"
       THEN crash' = "dangling_tracker" /\ UNCHANGED signals
       ELSE Notify(j) /\ UNCHANGED crash
    /\ UNCHANGED <<clientVars, entries, slot, addingComplete, promiseVars, updaterVars,
                   shutdown, destructor>>

DeferredStep(j, e) == DeferredAnswer(j, e) \/ DeferredAnnounce(j, e)

-----------------------------------------------------------------------------
(* job_coordinator::update_thread.                                           *)

\* wait_dequeue_bulk_timed gives up.  How long it waits is not relied upon:
\* the thread may read _dequeue_timeout before it is initialised.
DequeueTimeout ==
    /\ updater = "waiting"
    /\ signals = EmptyBag
    /\ updater' = "dequeued"
    /\ UNCHANGED <<clientVars, trackerVars, promiseVars, signals, batch, current, torn,
                   toUpdate, lifeVars>>

Dequeue ==
    /\ updater = "waiting"
    /\ \E b \in Batches :
        /\ batch' = b
        /\ signals' = [i \in Infos |-> signals[i] - b[i]]
    /\ updater' = "dequeued"
    /\ UNCHANGED <<clientVars, trackerVars, promiseVars, current, torn, toUpdate, lifeVars>>

\* Mutant: _shutdown is not read between the dequeue and the look-ups.
CheckShutdownLate ==
    /\ updater = "dequeued"
    /\ updater' = IF batch = EmptyBag THEN "looping" ELSE "locked"
    /\ UNCHANGED <<clientVars, trackerVars, promiseVars, signals, batch, current, torn,
                   toUpdate, lifeVars>>

\* `if (_shutdown) break; if (dequeue_count == 0) continue;' and otherwise the
\* read lock is taken.
CheckShutdown ==
    /\ updater = "dequeued"
    /\ updater' = IF shutdown THEN "exited"
                  ELSE IF batch = EmptyBag THEN "looping" ELSE "locked"
    /\ UNCHANGED <<clientVars, trackerVars, promiseVars, signals, batch, current, torn,
                   toUpdate, lifeVars>>

\* Mutant: the loop over infos ends after the first element.
LookUpFirstOnly(i) ==
    /\ updater = "locked"
    /\ batch[i] > 0
    /\ batch' = EmptyBag
    /\ crash' = IF i = NullInfo THEN "null_lookup" ELSE crash
    /\ IF i \in jobs
       THEN /\ updater' = "testing"
            /\ current' = i
            /\ torn' = (client[i] = "inserting")
       ELSE UNCHANGED <<updater, current, torn>>
    /\ UNCHANGED <<clientVars, trackerVars, promiseVars, signals, toUpdate, shutdown, destructor>>

\* _jobs.at(id): hashing dereferences id; the exception for an id that is not
\* there is swallowed; otherwise should_update starts.
LookUp(i) ==
    /\ updater = "locked"
    /\ batch[i] > 0
    /\ batch' = [batch EXCEPT ![i] = @ - 1]
    /\ crash' = IF i = NullInfo THEN "null_lookup" ELSE crash
    /\ IF i \in jobs
       THEN /\ updater' = "testing"
            /\ current' = i
            /\ torn' = (client[i] = "inserting")
       ELSE UNCHANGED <<updater, current, torn>>
    /\ UNCHANGED <<clientVars, trackerVars, promiseVars, signals, toUpdate, shutdown, destructor>>

\* should_update has read the futures one by one, in a map nobody changed.
EndTest ==
    /\ updater = "testing"
    /\ ~torn
    /\ toUpdate' = IF \A e \in entries[current] : IsReady(current, e)
                   THEN toUpdate \union {current} ELSE toUpdate
    /\ updater' = "locked"
    /\ current' = NullInfo
    /\ UNCHANGED <<clientVars, trackerVars, promiseVars, signals, batch, torn, lifeVars>>

\* It has read a map that was changed meanwhile: either answer may come out ...
EndTornTest ==
    /\ updater = "testing"
    /\ torn
    /\ toUpdate' \in {toUpdate, toUpdate \union {current}}
    /\ updater' = "locked"
    /\ current' = NullInfo
    /\ torn' = FALSE
    /\ UNCHANGED <<clientVars, trackerVars, promiseVars, signals, batch, lifeVars>>

\* ... or its iterator is no longer valid.
TornIterator ==
    /\ updater = "testing"
    /\ torn
    /\ crash' = "torn_iterator"
    /\ UNCHANGED <<clientVars, trackerVars, promiseVars, signals, updaterVars,
                   shutdown, destructor>>

\* The read lock is released.
Unlock ==
    /\ updater = "locked"
    /\ batch = EmptyBag
    /\ updater' = "updating"
    /\ UNCHANGED <<clientVars, trackerVars, promiseVars, signals, batch, current, torn,
                   toUpdate, lifeVars>>

\* job_tracker::update(false) returns without publishing.
UpdateReturnsEarly(j) ==
    /\ updater = "updating"
    /\ j \in toUpdate
    /\ \/ ~addingComplete[j]
       \/ alreadyProcessed[j]
       \/ \E e \in entries[j] : ~IsReady(j, e)
    /\ toUpdate' = toUpdate \ {j}
    /\ UNCHANGED <<clientVars, trackerVars, promiseVars, signals, updater, batch, current,
                   torn, lifeVars>>

\* Mutants: update does not look at _adding_complete, or not at the futures.
ReadyBeforeAllAdded(j) ==
    /\ updater = "updating"
    /\ j \in toUpdate
    /\ ~alreadyProcessed[j]
    /\ \A e \in entries[j] : IsReady(j, e)

ReadyBeforeAllAnswered(j) ==
    /\ updater = "updating"
    /\ j \in toUpdate
    /\ addingComplete[j]
    /\ ~alreadyProcessed[j]

\* job_tracker::update(false) past its early returns.
ReadyToPublish(j) ==
    /\ updater = "updating"
    /\ j \in toUpdate
    /\ addingComplete[j]
    /\ ~alreadyProcessed[j]
    /\ \A e \in entries[j] : IsReady(j, e)

\* Mutant: an executor that never answered is passed over in silence.
PublishingIgnoresBroken(j) == promise[j] # "unset"

\* The get of a broken promise throws, and so would a second set_value; the
\* exception leaves a noexcept function.
PublishingThrows(j) ==
    \/ promise[j] # "unset"
    \/ \E e \in entries[j] : slot[j][e] = "broken"

\* Mutant: _already_processed is not set.
UpdatePublishesForgetfully(j) ==
    /\ ReadyToPublish(j)
    /\ ~PublishingThrows(j)
    /\ outcome' = [outcome EXCEPT ![j] = Outcome(slot[j], entries[j])]
    /\ promise' = [promise EXCEPT ![j] = "value"]
    /\ toUpdate' = toUpdate \ {j}
    /\ UNCHANGED <<clientVars, trackerVars, alreadyProcessed, signals, updater, batch, current,
                   torn, lifeVars>>

UpdatePublishes(j) ==
    /\ ReadyToPublish(j)
    /\ ~PublishingThrows(j)
    /\ outcome' = [outcome EXCEPT ![j] = Outcome(slot[j], entries[j])]
    /\ promise' = [promise EXCEPT ![j] = "value"]
    /\ alreadyProcessed' = [alreadyProcessed EXCEPT ![j] = TRUE]
    /\ toUpdate' = toUpdate \ {j}
    /\ UNCHANGED <<clientVars, trackerVars, signals, updater, batch, current, torn, lifeVars>>

UpdateTerminates(j) ==
    /\ ReadyToPublish(j)
    /\ PublishingThrows(j)
    /\ crash' = "terminate"
    /\ UNCHANGED <<clientVars, trackerVars, promiseVars, signals, updaterVars,
                   shutdown, destructor>>

FinishUpdates ==
    /\ updater = "updating"
    /\ toUpdate = {}
    /\ updater' = "looping"
    /\ UNCHANGED <<clientVars, trackerVars, promiseVars, signals, batch, current, torn,
                   toUpdate, lifeVars>>

\* `while (!_shutdown.load())', also reached by `continue'.
LoopCondition ==
    /\ updater = "looping"
    /\ updater' = IF shutdown THEN "exited" ELSE "waiting"
    /\ UNCHANGED <<clientVars, trackerVars, promiseVars, signals, batch, current, torn,
                   toUpdate, lifeVars>>

UpdaterStep ==
    \/ Dequeue
    \/ CheckShutdown
    \/ \E i \in Infos : LookUp(i)
    \/ EndTest
    \/ EndTornTest
    \/ TornIterator
    \/ Unlock
    \/ \E j \in Jobs : UpdateReturnsEarly(j) \/ UpdatePublishes(j) \/ UpdateTerminates(j)
    \/ FinishUpdates
    \/ LoopCondition

-----------------------------------------------------------------------------
(* job_coordinator::Impl::~Impl.                                             *)

\* No thread is inside query any more: an object may be destroyed only then.
StoreShutdown ==
    /\ destructor = "alive"
    /\ \A j \in Jobs : client[j] \in {"idle", "returned"}
    /\ shutdown' = TRUE
    /\ destructor' = "stored"
    /\ UNCHANGED <<clientVars, trackerVars, promiseVars, signals, updaterVars, crash>>

\* Mutant: the destructor stores the flag and waits for the timeout.
NotifyNobody ==
    /\ destructor = "stored"
    /\ destructor' = "notified"
    /\ UNCHANGED <<clientVars, trackerVars, promiseVars, signals, updaterVars, shutdown, crash>>

NotifyNull ==
    /\ destructor = "stored"
    /\ Notify(NullInfo)
    /\ destructor' = "notified"
    /\ UNCHANGED <<clientVars, trackerVars, promiseVars, updaterVars, shutdown, crash>>

\* The thread is joined and the members are destroyed: every tracker notifies
\* once more, and a promise that was never set is broken.
Join ==
    /\ destructor = "notified"
    /\ updater = "exited"
    /\ destructor' = "joined"
    /\ promise' = [j \in Jobs |->
                    IF j \in jobs /\ promise[j] = "unset" THEN "broken" ELSE promise[j]]
    /\ signals' = [i \in Infos |-> IF i \in jobs THEN signals[i] + 1 ELSE signals[i]]
    /\ UNCHANGED <<clientVars, trackerVars, alreadyProcessed, outcome, updaterVars,
                   shutdown, crash>>

-----------------------------------------------------------------------------

\* Nothing is left to run.
Stopped ==
    /\ \/ crash # "none"
       \/ /\ destructor = "joined"
          /\ \A j \in Jobs : owed[j] = {}
          /\ \A j \in Jobs, e \in Executors :
                KindOf[e] = "deferred" => slot[j][e] # "pending"
    /\ UNCHANGED vars

Next ==
    \/ /\ crash = "none"
       /\ \/ \E j \in Jobs : ClientStep(j)
          \/ \E j \in Jobs, e \in Executors : DeferredStep(j, e)
          \/ DequeueTimeout
          \/ UpdaterStep
          \/ StoreShutdown
          \/ NotifyNull
          \/ Join
    \/ Stopped

Spec == Init /\ [][Next]_vars


\* Every thread of the program keeps running, a deferred executor eventually
\* calls back, and a dequeue eventually returns when there is something to take.
\* Nobody needs to submit a job or to destroy the coordinator, and the timeout
\* of the dequeue is never needed.
Fairness ==
    /\ \A j \in Jobs : WF_vars(crash = "none" /\ client[j] # "idle" /\ ClientStep(j))
    /\ \A j \in Jobs, e \in Executors : WF_vars(crash = "none" /\ DeferredStep(j, e))
    /\ WF_vars(crash = "none" /\ UpdaterStep)
    /\ WF_vars(crash = "none" /\ NotifyNull)
    /\ WF_vars(crash = "none" /\ Join)

FairSpec == Spec /\ Fairness

-----------------------------------------------------------------------------
(* Properties.                                                               *)

TypeOK ==
    /\ client \in [Jobs -> ClientPlaces]
    /\ cursor \in [Jobs -> 1..(ExecutorCount + 1)]
    /\ jobs \subseteq Jobs
    /\ entries \in [Jobs -> SUBSET Executors]
    /\ slot \in [Jobs -> [Executors -> Slots]]
    /\ owed \in [Jobs -> SUBSET Executors]
    /\ addingComplete \in [Jobs -> BOOLEAN]
    /\ alreadyProcessed \in [Jobs -> BOOLEAN]
    /\ promise \in [Jobs -> {"unset", "value", "exception", "broken"}]
    /\ outcome \in [Jobs -> [completion : Completions \union {"none"},
                             reduced : SUBSET Executors]]
    /\ signals \in [Infos -> Nat]
    /\ updater \in UpdaterPlaces
    /\ batch \in [Infos -> 0..MaxDequeue]
    /\ current \in Infos
    /\ torn \in BOOLEAN
    /\ toUpdate \subseteq Jobs
    /\ shutdown \in BOOLEAN
    /\ destructor \in {"alive", "stored", "notified", "joined"}
    /\ crash \in Crashes

\* The update thread never hashes the nullptr with which the destructor wakes
\* it: the flag is stored before the pointer is enqueued and read after it was
\* dequeued.
NullNeverLookedUp == crash # "null_lookup"

\* No exception leaves a noexcept function: no promise is set twice, no future
\* is retrieved twice, and no broken promise is read.
NeverTerminates == crash # "terminate"

\* should_update never reads a map that process_on is changing.
NoTornRead == ~torn

\* All answers of a job have reached their promises and the queue, and query
\* has returned.
AllDone(j) ==
    /\ client[j] = "returned"
    /\ owed[j] = {}
    /\ \A e \in Executors : IsReady(j, e)

\* A job whose answers are all there and whose future is not settled has not
\* been forgotten: a notification for it is queued, was dequeued and not looked
\* at yet, or has led to a test or an update that is still to come.
NoLostNotification ==
    \A j \in Jobs :
        AllDone(j) /\ promise[j] = "unset" /\ crash = "none" /\ ~shutdown =>
            \/ signals[j] > 0
            \/ batch[j] > 0
            \/ BeingTested(j) /\ ~torn
            \/ j \in toUpdate

\* A job that is reported as succeeded contains the result of every executor,
\* and each of them succeeded (job_status_t.h).  An insertion that throws in
\* process_on breaks this: see AskedSucceeded.
SucceededMeansAll ==
    \A j \in Jobs :
        outcome[j].completion = "succeeded" =>
            /\ outcome[j].reduced = Executors
            /\ \A e \in Executors : slot[j][e] = "succeeded"

\* What remains of it then: the executors whose insertion threw are missing from
\* a result that does not say so; all others are in it, and succeeded.
Asked(j) == {e \in Executors : slot[j][e] # "skipped"}

AskedSucceeded ==
    \A j \in Jobs :
        outcome[j].completion = "succeeded" =>
            /\ outcome[j].reduced = Asked(j)
            /\ \A e \in Asked(j) : slot[j][e] = "succeeded"

\* Every query is answered while the coordinator lives: its future gets a value
\* unless the coordinator is being destroyed or the process has died.
EventuallyResolved ==
    \A j \in Jobs :
        client[j] = "returned" ~> promise[j] = "value" \/ shutdown \/ crash # "none"

-----------------------------------------------------------------------------
(* The abstract service.                                                     *)

StageOf(j) ==
    IF client[j] = "idle" THEN "new"
    ELSE IF promise[j] = "exception" THEN "failed"
    ELSE IF promise[j] = "value" THEN "resolved"
    ELSE IF promise[j] = "broken" THEN "abandoned"
    ELSE "pending"

AnswerOf(j) ==
    [e \in Executors |->
        IF slot[j][e] \in Completions \union {"skipped"} THEN slot[j][e] ELSE "none"]

Service == INSTANCE JobService WITH
    open <- destructor # "joined",
    stage <- [j \in Jobs |-> StageOf(j)],
    answer <- [j \in Jobs |-> AnswerOf(j)],
    outcome <- outcome

\* The coordinator implements the service: a future is settled at most once,
\* and with a value only by combining the answers of all executors that were
\* asked, which are all executors unless an insertion threw.
ServiceSpec == Service!Spec

=============================================================================
