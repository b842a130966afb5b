------------------------ MODULE JobCoordinator_proofs ------------------------
(***************************************************************************)
(* Theorems about JobCoordinator for any number of jobs and executors: its   *)
(* own invariants, then that it implements JobService and what follows for   *)
(* the results it publishes.                                                *)
(***************************************************************************)
EXTENDS JobCoordinator, TLAPS

\* A notification is counted, and no other one is lost by it.
LEMMA NotifyCounts ==
    ASSUME signals \in [Infos -> Nat], NEW j \in Infos, Notify(j)
    PROVE  /\ signals'[j] > 0
           /\ \A i \in Infos : signals[i] > 0 => signals'[i] > 0
<1>1. signals'[j] = signals[j] + 1 /\ \A i \in Infos \ {j} : signals'[i] = signals[i]
    BY DEF Notify
<1>2. signals[j] \in Nat
    OBVIOUS
<1>3. signals'[j] > 0
    BY <1>1, <1>2
<1>4. QED BY <1>1, <1>3

\* What a dequeue takes was in the queue.
LEMMA BatchesBounded ==
    ASSUME NEW b \in Batches
    PROVE  /\ b \in [Infos -> 0..MaxDequeue]
           /\ \A i \in Infos : b[i] <= signals[i]
BY DEF Batches

-----------------------------------------------------------------------------
(* Type correctness.                                                         *)

LEMMA TypeInit == Init => TypeOK
<1> SUFFICES ASSUME Init PROVE TypeOK
    OBVIOUS
<1>1. cursor \in [Jobs -> 1..(ExecutorCount + 1)]
    BY ConstantsAssumption DEF Init
<1>2. outcome \in [Jobs -> [completion : Completions \union {"none"},
                            reduced : SUBSET Executors]]
    BY DEF Init, NoOutcome
<1>3. signals \in [Infos -> Nat] /\ batch \in [Infos -> 0..MaxDequeue]
    BY ConstantsAssumption DEF Init, EmptyBag
<1>4. slot \in [Jobs -> [Executors -> Slots]]
    BY DEF Init, Slots
<1>5. QED
    BY <1>1, <1>2, <1>3, <1>4
       DEF Init, TypeOK, Infos, ClientPlaces, UpdaterPlaces, Crashes

\* TypeOK alone is not inductive: it needs to know that a thread that is busy
\* with an executor has not run past the end of _executors, and that the update
\* thread tests trackers only.
CursorInv ==
    /\ updater = "testing" => current \in Jobs
    /\ \A j \in Jobs :
        /\ client[j] \in {"inserting", "dispatching", "announcing"} => cursor[j] \in Executors
        /\ client[j] \in {"completing", "returned"} => cursor[j] \notin Executors

LEMMA CursorInit == Init => CursorInv
BY DEF Init, CursorInv

LEMMA NextExecutorPlace ==
    ASSUME TypeOK, CursorInv, NEW j \in Jobs, NextExecutor(j),
           cursor[j] \in Executors, UNCHANGED <<updater, current>>
    PROVE  /\ client' \in [Jobs -> ClientPlaces]
           /\ cursor' \in [Jobs -> 1..(ExecutorCount + 1)]
           /\ CursorInv'
<1>1. cursor[j] \in 1..ExecutorCount
    BY DEF Executors
<1>2. client' \in [Jobs -> ClientPlaces]
    BY DEF TypeOK, NextExecutor, ClientPlaces
<1>3. cursor' \in [Jobs -> 1..(ExecutorCount + 1)]
    BY <1>1, ConstantsAssumption DEF TypeOK, NextExecutor
<1>4. CursorInv'
    BY DEF TypeOK, CursorInv, NextExecutor
<1>5. QED BY <1>2, <1>3, <1>4

LEMMA TypeClient ==
    ASSUME TypeOK, CursorInv, NEW j \in Jobs, ClientStep(j)
    PROVE  TypeOK' /\ CursorInv'
<1> USE ConstantsAssumption DEF TypeOK, CursorInv, Executors, Infos, ClientPlaces, Slots, Crashes,
        clientVars, trackerVars, promiseVars, updaterVars, lifeVars, Notify
<1>1. CASE InsertJob(j) BY <1>1 DEF InsertJob
<1>2. CASE InsertThrows(j) BY <1>2 DEF InsertThrows
<1>3. CASE FutureAlreadyRetrieved(j) BY <1>3 DEF FutureAlreadyRetrieved
<1>4. CASE BeginInsertResult(j) BY <1>4 DEF BeginInsertResult, BeingTested
<1>5. CASE EndInsertResult(j)
    <2>1. cursor[j] \in Executors
        BY <1>5 DEF EndInsertResult
    <2>2. entries' \in [Jobs -> SUBSET Executors]
        BY <1>5, <2>1 DEF EndInsertResult
    <2>3. slot' \in [Jobs -> [Executors -> Slots]]
        BY <1>5 DEF EndInsertResult
    <2>4. QED BY <1>5, <2>1, <2>2, <2>3 DEF EndInsertResult
<1>6. CASE ProcessLocally(j)
    <2>1. "succeeded" \in Slots
        BY DEF Completions
    <2>2. cursor[j] \in Executors
        BY <1>6 DEF ProcessLocally
    <2>3. slot' \in [Jobs -> [Executors -> Slots]]
        BY <1>6, <2>1, <2>2 DEF ProcessLocally
    <2>4. QED BY <1>6, <2>2, <2>3 DEF ProcessLocally
<1>7. CASE AnnounceLocally(j)
    <2>1. /\ client' \in [Jobs -> ClientPlaces]
          /\ cursor' \in [Jobs -> 1..(ExecutorCount + 1)]
          /\ CursorInv'
        BY <1>7, NextExecutorPlace DEF AnnounceLocally
    <2>2. QED BY <1>7, <2>1 DEF AnnounceLocally
<1>8. CASE HandOver(j)
    <2>1. /\ client' \in [Jobs -> ClientPlaces]
          /\ cursor' \in [Jobs -> 1..(ExecutorCount + 1)]
          /\ CursorInv'
        BY <1>8, NextExecutorPlace DEF HandOver
    <2>2. QED BY <1>8, <2>1 DEF HandOver
<1>9. CASE DropCallback(j)
    <2>1. /\ client' \in [Jobs -> ClientPlaces]
          /\ cursor' \in [Jobs -> 1..(ExecutorCount + 1)]
          /\ CursorInv'
        BY <1>9, NextExecutorPlace DEF DropCallback
    <2>2. slot' \in [Jobs -> [Executors -> Slots]]
        BY <1>9 DEF DropCallback
    <2>3. QED BY <1>9, <2>1, <2>2 DEF DropCallback
<1>10. CASE StoreAddingComplete(j) BY <1>10 DEF StoreAddingComplete
<1>11. CASE AnnounceAddingComplete(j) BY <1>11 DEF AnnounceAddingComplete
<1>12. CASE InsertResultThrows(j)
    <2>1. cursor[j] \in Executors
        BY <1>12 DEF InsertResultThrows
    <2>2. /\ client' \in [Jobs -> ClientPlaces]
          /\ cursor' \in [Jobs -> 1..(ExecutorCount + 1)]
          /\ CursorInv'
        BY <1>12, NextExecutorPlace DEF InsertResultThrows
    <2>3. slot' \in [Jobs -> [Executors -> Slots]]
        BY <1>12, <2>1 DEF InsertResultThrows
    <2>4. QED BY <1>12, <2>2, <2>3 DEF InsertResultThrows
<1>13. QED BY <1>1, <1>2, <1>3, <1>4, <1>5, <1>6, <1>7, <1>8, <1>9, <1>10, <1>11, <1>12
       DEF ClientStep

LEMMA TypeDeferred ==
    ASSUME TypeOK, CursorInv, NEW j \in Jobs, NEW e \in Executors, DeferredStep(j, e)
    PROVE  TypeOK' /\ CursorInv'
<1> USE ConstantsAssumption DEF TypeOK, CursorInv, Infos, Crashes, clientVars, trackerVars,
        promiseVars, updaterVars, lifeVars, Notify
<1>1. CASE DeferredAnswer(j, e)
    <2>1. slot' \in [Jobs -> [Executors -> Slots]]
        BY <1>1 DEF DeferredAnswer, Slots
    <2>2. QED BY <1>1, <2>1 DEF DeferredAnswer
<1>2. CASE DeferredAnnounce(j, e) BY <1>2 DEF DeferredAnnounce
<1>3. QED BY <1>1, <1>2 DEF DeferredStep

LEMMA TypeUpdater ==
    ASSUME TypeOK, CursorInv, UpdaterStep \/ DequeueTimeout
    PROVE  TypeOK' /\ CursorInv'
<1> USE ConstantsAssumption DEF TypeOK, CursorInv, Infos, Crashes, UpdaterPlaces, clientVars,
        trackerVars, promiseVars, updaterVars, lifeVars
<1>1. CASE Dequeue
    <2>1. PICK b \in Batches : /\ batch' = b
                               /\ signals' = [i \in Infos |-> signals[i] - b[i]]
        BY <1>1 DEF Dequeue
    <2>2. batch' \in [Infos -> 0..MaxDequeue] /\ signals' \in [Infos -> Nat]
        BY <2>1, BatchesBounded
    <2>3. QED BY <1>1, <2>2 DEF Dequeue
<1>2. CASE CheckShutdown BY <1>2 DEF CheckShutdown
<1>3. ASSUME NEW i \in Infos, LookUp(i) PROVE TypeOK' /\ CursorInv'
    <2>1. batch' \in [Infos -> 0..MaxDequeue]
        BY <1>3 DEF LookUp
    <2>2. updater' = "testing" => current' \in Jobs
        BY <1>3 DEF LookUp
    <2>3. QED BY <1>3, <2>1, <2>2 DEF LookUp
<1>4. CASE EndTest
    <2>2. toUpdate' \subseteq Jobs
        BY <1>4 DEF EndTest
    <2>3. QED BY <1>4, <2>2 DEF EndTest
<1>5. CASE EndTornTest BY <1>5 DEF EndTornTest
<1>6. CASE TornIterator BY <1>6 DEF TornIterator
<1>7. CASE Unlock BY <1>7 DEF Unlock
<1>8. ASSUME NEW j \in Jobs, UpdateReturnsEarly(j) PROVE TypeOK' /\ CursorInv'
    BY <1>8 DEF UpdateReturnsEarly
<1>9. ASSUME NEW j \in Jobs, UpdatePublishes(j) PROVE TypeOK' /\ CursorInv'
    <2>1. entries[j] \subseteq Executors
        OBVIOUS
    <2>2. Outcome(slot[j], entries[j]) \in [completion : Completions \union {"none"},
                                            reduced : SUBSET Executors]
        BY <2>1 DEF Outcome, Completions
    <2>3. outcome' \in [Jobs -> [completion : Completions \union {"none"},
                                 reduced : SUBSET Executors]]
        BY <1>9, <2>2 DEF UpdatePublishes
    <2>4. QED BY <1>9, <2>3 DEF UpdatePublishes, ReadyToPublish
<1>10. ASSUME NEW j \in Jobs, UpdateTerminates(j) PROVE TypeOK' /\ CursorInv'
    BY <1>10 DEF UpdateTerminates
<1>11. CASE FinishUpdates BY <1>11 DEF FinishUpdates
<1>12. CASE LoopCondition BY <1>12 DEF LoopCondition
<1>13. CASE DequeueTimeout BY <1>13 DEF DequeueTimeout
<1>14. QED BY <1>1, <1>2, <1>3, <1>4, <1>5, <1>6, <1>7, <1>8, <1>9, <1>10, <1>11, <1>12, <1>13
       DEF UpdaterStep

LEMMA TypeDestructor ==
    ASSUME TypeOK, CursorInv, StoreShutdown \/ NotifyNull \/ Join
    PROVE  TypeOK' /\ CursorInv'
<1> USE ConstantsAssumption DEF TypeOK, CursorInv, Infos, clientVars, trackerVars, promiseVars,
        updaterVars, lifeVars
<1>1. CASE StoreShutdown BY <1>1 DEF StoreShutdown
<1>2. CASE NotifyNull BY <1>2 DEF NotifyNull, Notify
<1>3. CASE Join BY <1>3 DEF Join
<1>4. QED BY <1>1, <1>2, <1>3

LEMMA TypeStutter ==
    ASSUME TypeOK, CursorInv, UNCHANGED vars
    PROVE  TypeOK' /\ CursorInv'
BY DEF vars, clientVars, trackerVars, promiseVars, updaterVars, lifeVars, TypeOK, CursorInv

LEMMA TypeStep == TypeOK /\ CursorInv /\ [Next]_vars => TypeOK' /\ CursorInv'
BY TypeClient, TypeDeferred, TypeUpdater, TypeDestructor, TypeStutter DEF Next, Stopped

\* Every variable keeps its type, for any number of jobs and executors.
THEOREM TypeCorrect == Spec => [](TypeOK /\ CursorInv)
<1>1. Init => TypeOK /\ CursorInv
    BY TypeInit, CursorInit
<1>2. TypeOK /\ CursorInv /\ [Next]_vars => (TypeOK /\ CursorInv)'
    BY TypeStep
<1>3. QED BY <1>1, <1>2, PTL DEF Spec
-----------------------------------------------------------------------------
(* The nullptr of the destructor.                                            *)

\* NullNeverLookedUp is not inductive.  What makes it true: the nullptr is in
\* the queue or in infos only after _shutdown was stored, and the update thread
\* holds a batch with the read lock only if it saw _shutdown unset after it had
\* dequeued the batch.
ShutdownInv ==
    /\ destructor # "alive" => shutdown
    /\ signals[NullInfo] > 0 => shutdown
    /\ batch[NullInfo] > 0 => shutdown
    /\ ReadLocked => batch[NullInfo] = 0
    /\ NullNeverLookedUp

LEMMA ShutdownClient ==
    ASSUME TypeOK, ShutdownInv, NEW j \in Jobs, ClientStep(j)
    PROVE  ShutdownInv'
<1> USE ConstantsAssumption DEF TypeOK, ShutdownInv, NullNeverLookedUp, ReadLocked, Infos,
        clientVars, trackerVars, promiseVars, updaterVars, lifeVars, Notify
<1>1. CASE InsertJob(j) BY <1>1 DEF InsertJob
<1>2. CASE InsertThrows(j) BY <1>2 DEF InsertThrows
<1>3. CASE FutureAlreadyRetrieved(j) BY <1>3 DEF FutureAlreadyRetrieved
<1>4. CASE BeginInsertResult(j) BY <1>4 DEF BeginInsertResult
<1>5. CASE EndInsertResult(j) BY <1>5 DEF EndInsertResult
<1>6. CASE ProcessLocally(j) BY <1>6 DEF ProcessLocally
<1>7. CASE AnnounceLocally(j) BY <1>7 DEF AnnounceLocally
<1>8. CASE HandOver(j) BY <1>8 DEF HandOver
<1>9. CASE DropCallback(j) BY <1>9 DEF DropCallback
<1>10. CASE StoreAddingComplete(j) BY <1>10 DEF StoreAddingComplete
<1>11. CASE AnnounceAddingComplete(j) BY <1>11 DEF AnnounceAddingComplete
<1>12. CASE InsertResultThrows(j) BY <1>12 DEF InsertResultThrows, NextExecutor
<1>13. QED BY <1>1, <1>2, <1>3, <1>4, <1>5, <1>6, <1>7, <1>8, <1>9, <1>10, <1>11, <1>12
       DEF ClientStep

LEMMA ShutdownUpdater ==
    ASSUME TypeOK, ShutdownInv, UpdaterStep \/ DequeueTimeout
    PROVE  ShutdownInv'
<1> USE ConstantsAssumption DEF TypeOK, ShutdownInv, NullNeverLookedUp, ReadLocked, Infos,
        clientVars, trackerVars, promiseVars, updaterVars, lifeVars
<1>1. CASE Dequeue
    <2>1. PICK b \in Batches : /\ batch' = b
                               /\ signals' = [i \in Infos |-> signals[i] - b[i]]
        BY <1>1 DEF Dequeue
    <2>2. b[NullInfo] \in Nat /\ b[NullInfo] <= signals[NullInfo]
        BY BatchesBounded
    <2>3. QED BY <1>1, <2>1, <2>2 DEF Dequeue
<1>2. CASE CheckShutdown BY <1>2 DEF CheckShutdown, EmptyBag
<1>3. ASSUME NEW i \in Infos, LookUp(i) PROVE ShutdownInv'
    <2>1. i # NullInfo
        BY <1>3 DEF LookUp
    <2>2. QED BY <1>3, <2>1 DEF LookUp
<1>4. CASE EndTest BY <1>4 DEF EndTest
<1>5. CASE EndTornTest BY <1>5 DEF EndTornTest
<1>6. CASE TornIterator BY <1>6 DEF TornIterator
<1>7. CASE Unlock BY <1>7 DEF Unlock
<1>8. ASSUME NEW j \in Jobs, UpdateReturnsEarly(j) PROVE ShutdownInv'
    BY <1>8 DEF UpdateReturnsEarly
<1>9. ASSUME NEW j \in Jobs, UpdatePublishes(j) PROVE ShutdownInv'
    BY <1>9 DEF UpdatePublishes, ReadyToPublish
<1>10. ASSUME NEW j \in Jobs, UpdateTerminates(j) PROVE ShutdownInv'
    BY <1>10 DEF UpdateTerminates
<1>11. CASE FinishUpdates BY <1>11 DEF FinishUpdates
<1>12. CASE LoopCondition BY <1>12 DEF LoopCondition
<1>13. CASE DequeueTimeout BY <1>13 DEF DequeueTimeout
<1>14. QED BY <1>1, <1>2, <1>3, <1>4, <1>5, <1>6, <1>7, <1>8, <1>9, <1>10, <1>11, <1>12, <1>13
       DEF UpdaterStep

LEMMA ShutdownStep == TypeOK /\ ShutdownInv /\ [Next]_vars => ShutdownInv'
<1> SUFFICES ASSUME TypeOK, ShutdownInv, [Next]_vars PROVE ShutdownInv'
    OBVIOUS
<1> USE ConstantsAssumption DEF TypeOK, ShutdownInv, NullNeverLookedUp, ReadLocked, Infos,
        clientVars, trackerVars, promiseVars, updaterVars, lifeVars, Notify
<1>1. ASSUME NEW j \in Jobs, NEW e \in Executors, DeferredStep(j, e) PROVE ShutdownInv'
    BY <1>1 DEF DeferredStep, DeferredAnswer, DeferredAnnounce
<1>2. CASE StoreShutdown BY <1>2 DEF StoreShutdown
<1>3. CASE NotifyNull BY <1>3 DEF NotifyNull
<1>4. CASE Join BY <1>4 DEF Join
<1>5. CASE UNCHANGED vars BY <1>5 DEF vars
<1>6. QED BY <1>1, <1>2, <1>3, <1>4, <1>5, ShutdownClient, ShutdownUpdater DEF Next, Stopped

LEMMA ShutdownInvariant == Spec => []ShutdownInv
<1>1. Init => ShutdownInv
    BY ConstantsAssumption DEF Init, ShutdownInv, NullNeverLookedUp, ReadLocked, EmptyBag, Infos
<1>2. TypeOK /\ ShutdownInv /\ [Next]_vars => ShutdownInv'
    BY ShutdownStep
<1>3. QED BY <1>1, <1>2, TypeCorrect, PTL DEF Spec

\* The update thread never dereferences the nullptr, however the destructor and
\* the update thread interleave and whatever the dequeue returns.
THEOREM NullSafety == Spec => []NullNeverLookedUp
BY ShutdownInvariant, PTL DEF ShutdownInv

-----------------------------------------------------------------------------
(* No notification is lost.                                                  *)

\* What NoLostNotification says of one job.
Remembered(j) ==
    AllDone(j) /\ promise[j] = "unset" /\ crash = "none" /\ ~shutdown =>
        \/ signals[j] > 0
        \/ batch[j] > 0
        \/ BeingTested(j) /\ ~torn
        \/ j \in toUpdate

\* The strengthening: infos is used up before the next dequeue overwrites it, a
\* job that was submitted is found in _jobs, a query that has returned has
\* stored _adding_complete, and a tracker that is already processed has
\* settled its future.
NotificationInv ==
    /\ updater \in {"waiting", "updating", "looping"} => batch = EmptyBag
    /\ \A j \in Jobs : client[j] \notin {"idle", "failing"} => j \in jobs
    /\ \A j \in Jobs : client[j] \in {"completing", "returned"} => addingComplete[j]
    /\ \A j \in Jobs : alreadyProcessed[j] => promise[j] # "unset"
    /\ \A j \in Jobs : Remembered(j)

LEMMA NotificationInit == Init => NotificationInv
BY DEF Init, NotificationInv, Remembered, AllDone, EmptyBag

LEMMA NotificationClient ==
    ASSUME TypeOK, NotificationInv, NEW j \in Jobs, ClientStep(j)
    PROVE  NotificationInv'
<1> USE ConstantsAssumption DEF TypeOK, NotificationInv, Remembered, AllDone, BeingTested,
        Infos, IsReady, clientVars, trackerVars, promiseVars, updaterVars, lifeVars, Notify
<1>1. CASE InsertJob(j) BY <1>1 DEF InsertJob
<1>2. CASE InsertThrows(j) BY <1>2 DEF InsertThrows
<1>3. CASE FutureAlreadyRetrieved(j) BY <1>3 DEF FutureAlreadyRetrieved
<1>4. CASE BeginInsertResult(j) BY <1>4 DEF BeginInsertResult
<1>5. CASE EndInsertResult(j) BY <1>5 DEF EndInsertResult
<1>6. CASE ProcessLocally(j) BY <1>6 DEF ProcessLocally
<1>7. CASE AnnounceLocally(j) BY <1>7 DEF AnnounceLocally, NextExecutor
<1>8. CASE HandOver(j) BY <1>8 DEF HandOver, NextExecutor
<1>9. CASE DropCallback(j) BY <1>9 DEF DropCallback, NextExecutor
<1>10. CASE StoreAddingComplete(j) BY <1>10 DEF StoreAddingComplete
<1>11. CASE AnnounceAddingComplete(j) BY <1>11 DEF AnnounceAddingComplete
<1>12. CASE InsertResultThrows(j) BY <1>12 DEF InsertResultThrows, NextExecutor
<1>13. QED BY <1>1, <1>2, <1>3, <1>4, <1>5, <1>6, <1>7, <1>8, <1>9, <1>10, <1>11, <1>12
       DEF ClientStep

LEMMA NotificationDeferred ==
    ASSUME TypeOK, NotificationInv, NEW j \in Jobs, NEW e \in Executors,
           DeferredStep(j, e)
    PROVE  NotificationInv'
<1> USE DEF TypeOK, NotificationInv, Remembered, AllDone, BeingTested, Infos, IsReady,
        clientVars, trackerVars, promiseVars, updaterVars, lifeVars, Notify
<1>1. CASE DeferredAnswer(j, e) BY <1>1 DEF DeferredAnswer
<1>2. CASE DeferredAnnounce(j, e)
    <2>1. CASE destructor = "joined" BY <1>2, <2>1 DEF DeferredAnnounce
    <2>2. CASE destructor # "joined"
        <3>1. signals'[j] > 0 /\ \A i \in Jobs : signals[i] > 0 => signals'[i] > 0
            BY <1>2, <2>2, NotifyCounts DEF DeferredAnnounce
        <3>2. \A i \in Jobs : AllDone(i)' => AllDone(i) \/ i = j
            BY <1>2 DEF DeferredAnnounce
        <3>3. \A i \in Jobs : Remembered(i)'
            BY <1>2, <2>2, <3>1, <3>2 DEF DeferredAnnounce
        <3>4. QED BY <1>2, <3>3 DEF DeferredAnnounce
    <2>3. QED BY <2>1, <2>2
<1>3. QED BY <1>1, <1>2 DEF DeferredStep

LEMMA NotificationUpdater ==
    ASSUME TypeOK, CursorInv, NotificationInv, UpdaterStep \/ DequeueTimeout
    PROVE  NotificationInv'
<1> USE ConstantsAssumption DEF TypeOK, NotificationInv, Remembered, AllDone, BeingTested,
        Infos, IsReady, clientVars, trackerVars, promiseVars, updaterVars, lifeVars
<1>1. CASE Dequeue
    <2>1. PICK b \in Batches : /\ batch' = b
                               /\ signals' = [i \in Infos |-> signals[i] - b[i]]
        BY <1>1 DEF Dequeue
    <2>2. \A j \in Jobs : b[j] \in Nat /\ b[j] <= signals[j]
        BY BatchesBounded
    <2>3. ASSUME NEW j \in Jobs PROVE Remembered(j)'
        <3>1. batch[j] = 0 /\ ~BeingTested(j)
            BY <1>1 DEF Dequeue, EmptyBag
        <3>2. signals[j] > 0 => signals'[j] > 0 \/ batch'[j] > 0
            BY <2>1, <2>2
        <3>3. AllDone(j)' => AllDone(j)
            BY <1>1 DEF Dequeue
        <3>4. promise' = promise /\ crash' = crash /\ shutdown' = shutdown /\ toUpdate' = toUpdate
            BY <1>1 DEF Dequeue
        <3>5. Remembered(j)
            BY DEF NotificationInv
        <3>6. QED BY <3>1, <3>2, <3>3, <3>4, <3>5
    <2>4. QED BY <1>1, <2>3 DEF Dequeue
<1>2. CASE CheckShutdown BY <1>2 DEF CheckShutdown
<1>3. ASSUME NEW i \in Infos, LookUp(i) PROVE NotificationInv'
    <2>1. ASSUME NEW j \in Jobs, AllDone(j) PROVE Remembered(j)'
        BY <1>3, <2>1 DEF LookUp
    <2>2. ASSUME NEW j \in Jobs, ~AllDone(j) PROVE Remembered(j)'
        BY <1>3, <2>2 DEF LookUp
    <2>3. QED BY <1>3, <2>1, <2>2 DEF LookUp
<1>4. CASE EndTest BY <1>4 DEF EndTest
<1>5. CASE EndTornTest BY <1>5 DEF EndTornTest
<1>6. CASE TornIterator BY <1>6 DEF TornIterator
<1>7. CASE Unlock BY <1>7 DEF Unlock
<1>8. ASSUME NEW j \in Jobs, UpdateReturnsEarly(j) PROVE NotificationInv'
    <2>1. AllDone(j) => promise[j] # "unset"
        BY <1>8 DEF UpdateReturnsEarly
    <2>2. QED BY <1>8, <2>1 DEF UpdateReturnsEarly
<1>9. ASSUME NEW j \in Jobs, UpdatePublishes(j) PROVE NotificationInv'
    BY <1>9 DEF UpdatePublishes, ReadyToPublish
<1>10. ASSUME NEW j \in Jobs, UpdateTerminates(j) PROVE NotificationInv'
    BY <1>10 DEF UpdateTerminates
<1>11. CASE FinishUpdates BY <1>11 DEF FinishUpdates
<1>12. CASE LoopCondition BY <1>12 DEF LoopCondition
<1>13. CASE DequeueTimeout BY <1>13 DEF DequeueTimeout
<1>14. QED BY <1>1, <1>2, <1>3, <1>4, <1>5, <1>6, <1>7, <1>8, <1>9, <1>10, <1>11, <1>12, <1>13
       DEF UpdaterStep

LEMMA NotificationStep ==
    TypeOK /\ CursorInv /\ ShutdownInv /\ NotificationInv /\ [Next]_vars => NotificationInv'
<1> SUFFICES ASSUME TypeOK, CursorInv, ShutdownInv, NotificationInv, [Next]_vars
             PROVE  NotificationInv'
    OBVIOUS
<1> USE DEF TypeOK, NotificationInv, Remembered, AllDone, BeingTested, Infos, IsReady,
        clientVars, trackerVars, promiseVars, updaterVars, lifeVars
<1>1. CASE StoreShutdown BY <1>1 DEF StoreShutdown
<1>2. CASE NotifyNull BY <1>2 DEF NotifyNull, Notify, ShutdownInv
<1>3. CASE Join BY <1>3 DEF Join, ShutdownInv
<1>4. CASE UNCHANGED vars BY <1>4 DEF vars
<1>5. QED BY <1>1, <1>2, <1>3, <1>4, NotificationClient, NotificationDeferred,
             NotificationUpdater DEF Next, Stopped

LEMMA NotificationInvariant == Spec => []NotificationInv
BY NotificationInit, NotificationStep, TypeCorrect, ShutdownInvariant, PTL DEF Spec

\* Whatever the interleaving of executors, clients and update thread, a job
\* whose last answer has been announced is either settled or still known to the
\* update thread as one to look at.
THEOREM NotificationsKept == Spec => []NoLostNotification
<1>1. NotificationInv => NoLostNotification
    BY DEF NotificationInv, Remembered, NoLostNotification
<1>2. QED BY <1>1, NotificationInvariant, PTL

-----------------------------------------------------------------------------
(* The promise of a tracker and the life of its query.                       *)

\* The state behind the futures of the executors: nothing is there for an
\* executor the loop has not reached, and the one being dispatched is pending.
SlotInv(j) ==
    \A e \in Executors :
        /\ cursor[j] < e => slot[j][e] = "none"
        /\ cursor[j] = e /\ client[j] \notin {"dispatching", "announcing"} => slot[j][e] = "none"
        /\ cursor[j] = e /\ client[j] = "dispatching" => slot[j][e] = "pending"

\* Which promise goes with which place of the query.
PromiseInv(j) ==
    /\ client[j] \in {"idle", "failing"} => j \notin jobs /\ cursor[j] = 1
    /\ client[j] = "idle" => promise[j] = "unset"
    /\ client[j] = "failing" <=> promise[j] = "exception"
    /\ client[j] = "failing" => InsertMayThrow
    /\ addingComplete[j] => client[j] \in {"completing", "returned"}
    /\ promise[j] = "broken" => destructor = "joined"
    /\ promise[j] = "value" => alreadyProcessed[j]

LifeInv ==
    /\ destructor = "joined" => updater = "exited"
    /\ destructor # "alive" => \A j \in Jobs : client[j] \in {"idle", "returned"}
    /\ \A j \in Jobs : PromiseInv(j) /\ SlotInv(j)

LEMMA LifeInit == Init => LifeInv
BY ConstantsAssumption DEF Init, LifeInv, PromiseInv, SlotInv, Executors

LEMMA LifeClient ==
    ASSUME TypeOK, CursorInv, LifeInv, NEW j \in Jobs, ClientStep(j)
    PROVE  LifeInv'
<1> USE ConstantsAssumption DEF TypeOK, CursorInv, LifeInv, PromiseInv, SlotInv, Executors,
        clientVars, trackerVars, promiseVars, updaterVars, lifeVars
<1>1. CASE InsertJob(j) BY <1>1 DEF InsertJob
<1>2. CASE InsertThrows(j) BY <1>2 DEF InsertThrows
<1>3. CASE FutureAlreadyRetrieved(j) BY <1>3 DEF FutureAlreadyRetrieved
<1>4. CASE BeginInsertResult(j) BY <1>4 DEF BeginInsertResult
<1>5. CASE EndInsertResult(j) BY <1>5 DEF EndInsertResult
<1>6. CASE ProcessLocally(j) BY <1>6 DEF ProcessLocally
<1>7. CASE AnnounceLocally(j) BY <1>7 DEF AnnounceLocally, NextExecutor
<1>8. CASE HandOver(j) BY <1>8 DEF HandOver, NextExecutor
<1>9. CASE DropCallback(j) BY <1>9 DEF DropCallback, NextExecutor
<1>10. CASE StoreAddingComplete(j) BY <1>10 DEF StoreAddingComplete
<1>11. CASE AnnounceAddingComplete(j) BY <1>11 DEF AnnounceAddingComplete
<1>12. CASE InsertResultThrows(j) BY <1>12 DEF InsertResultThrows, NextExecutor
<1>13. QED BY <1>1, <1>2, <1>3, <1>4, <1>5, <1>6, <1>7, <1>8, <1>9, <1>10, <1>11, <1>12
       DEF ClientStep

LEMMA LifeUpdater ==
    ASSUME TypeOK, LifeInv, UpdaterStep \/ DequeueTimeout
    PROVE  LifeInv'
<1> USE DEF TypeOK, LifeInv, PromiseInv, SlotInv, clientVars, trackerVars, promiseVars, updaterVars, lifeVars
<1>1. CASE Dequeue BY <1>1 DEF Dequeue
<1>2. CASE CheckShutdown BY <1>2 DEF CheckShutdown
<1>3. ASSUME NEW i \in Infos, LookUp(i) PROVE LifeInv'
    BY <1>3 DEF LookUp
<1>4. CASE EndTest BY <1>4 DEF EndTest
<1>5. CASE EndTornTest BY <1>5 DEF EndTornTest
<1>6. CASE TornIterator BY <1>6 DEF TornIterator
<1>7. CASE Unlock BY <1>7 DEF Unlock
<1>8. ASSUME NEW j \in Jobs, UpdateReturnsEarly(j) PROVE LifeInv'
    BY <1>8 DEF UpdateReturnsEarly
<1>9. ASSUME NEW j \in Jobs, UpdatePublishes(j) PROVE LifeInv'
    BY <1>9 DEF UpdatePublishes, ReadyToPublish
<1>10. ASSUME NEW j \in Jobs, UpdateTerminates(j) PROVE LifeInv'
    BY <1>10 DEF UpdateTerminates
<1>11. CASE FinishUpdates BY <1>11 DEF FinishUpdates
<1>12. CASE LoopCondition BY <1>12 DEF LoopCondition
<1>13. CASE DequeueTimeout BY <1>13 DEF DequeueTimeout
<1>14. QED BY <1>1, <1>2, <1>3, <1>4, <1>5, <1>6, <1>7, <1>8, <1>9, <1>10, <1>11, <1>12, <1>13
       DEF UpdaterStep

LEMMA LifeStep == TypeOK /\ CursorInv /\ LifeInv /\ [Next]_vars => LifeInv'
<1> SUFFICES ASSUME TypeOK, CursorInv, LifeInv, [Next]_vars PROVE LifeInv'
    OBVIOUS
<1> USE DEF TypeOK, LifeInv, PromiseInv, SlotInv, clientVars, trackerVars, promiseVars,
        updaterVars, lifeVars
<1>1. ASSUME NEW j \in Jobs, NEW e \in Executors, DeferredStep(j, e) PROVE LifeInv'
    <2>1. CASE DeferredAnswer(j, e)
        <3>1. cursor[j] \in Nat /\ e \in Nat /\ cursor[j] > e
            BY <2>1, ConstantsAssumption DEF DeferredAnswer, Executors
        <3>2. \A i \in Jobs, f \in Executors :
                cursor[i] <= f => slot'[i][f] = slot[i][f]
            BY <2>1, <3>1 DEF DeferredAnswer
        <3>3. \A i \in Jobs : SlotInv(i)'
            BY <2>1, <3>2, ConstantsAssumption DEF DeferredAnswer, Executors
        <3>4. QED BY <2>1, <3>3 DEF DeferredAnswer
    <2>2. CASE DeferredAnnounce(j, e) BY <2>2 DEF DeferredAnnounce
    <2>3. QED BY <1>1, <2>1, <2>2 DEF DeferredStep
<1>2. CASE StoreShutdown BY <1>2 DEF StoreShutdown
<1>3. CASE NotifyNull BY <1>3 DEF NotifyNull
<1>4. CASE Join BY <1>4 DEF Join
<1>5. CASE UNCHANGED vars BY <1>5 DEF vars
<1>6. QED BY <1>1, <1>2, <1>3, <1>4, <1>5, LifeClient, LifeUpdater DEF Next, Stopped

LEMMA LifeInvariant == Spec => []LifeInv
BY LifeInit, LifeStep, TypeCorrect, PTL DEF Spec
-----------------------------------------------------------------------------
(* The published result.                                                     *)

\* The futures in the map are those of the executors the loop has passed and
\* asked; what was published is what all of them answered; an answer never
\* changes.
Registered(j) ==
    /\ \A e \in Executors :
        /\ slot[j][e] # "skipped"
        /\ \/ cursor[j] > e
           \/ cursor[j] = e /\ client[j] \in {"dispatching", "announcing"}
        => e \in entries[j]
    /\ \A e \in entries[j] : slot[j][e] \notin {"none", "skipped"}

Published(j) ==
    /\ promise[j] = "value" =>
        /\ \A e \in Executors : slot[j][e] \in Completions \union {"skipped"}
        /\ outcome[j] = Outcome(slot[j], Asked(j))
    /\ promise[j] # "value" => outcome[j] = NoOutcome

\* An executor is passed over only when insertions may throw.
SkippedInv(j) == ~InsertMayThrow => \A e \in Executors : slot[j][e] # "skipped"

ResultInv == \A j \in Jobs : Registered(j) /\ Published(j) /\ SkippedInv(j)

LEMMA ResultInit == Init => ResultInv
BY ConstantsAssumption DEF Init, ResultInv, Registered, Published, SkippedInv, Executors

\* A tracker that may publish has the future of every executor that was asked.
LEMMA AllRegistered ==
    ASSUME TypeOK, CursorInv, LifeInv, ResultInv, NEW j \in Jobs, addingComplete[j]
    PROVE  entries[j] = Asked(j)
<1>1. cursor[j] \notin Executors
    BY DEF LifeInv, PromiseInv, CursorInv
<1>2. cursor[j] \in 1..(ExecutorCount + 1) /\ entries[j] \subseteq Executors
    BY DEF TypeOK
<1>3. \A e \in Executors : cursor[j] > e
    BY <1>1, <1>2, ConstantsAssumption DEF Executors
<1>4. QED BY <1>2, <1>3 DEF ResultInv, Registered, Asked

\* What it gets from those futures are the answers.
LEMMA AllAnswered ==
    ASSUME TypeOK, CursorInv, LifeInv, ResultInv, NEW j \in Jobs, UpdatePublishes(j)
    PROVE  /\ entries[j] = Asked(j)
           /\ \A e \in Executors : slot[j][e] \in Completions \union {"skipped"}
           /\ outcome' = [outcome EXCEPT ![j] = Outcome(slot[j], Asked(j))]
<1>1. entries[j] = Asked(j)
    BY AllRegistered DEF UpdatePublishes, ReadyToPublish
<1>2. ASSUME NEW e \in Executors PROVE slot[j][e] \in Completions \union {"skipped"}
    <2>1. slot[j][e] \in Slots
        BY DEF TypeOK
    <2>2. slot[j][e] \notin {"none", "pending", "broken"}
        BY <1>1 DEF UpdatePublishes, ReadyToPublish, PublishingThrows, IsReady, Asked
    <2>3. QED BY <2>1, <2>2 DEF Slots
<1>3. QED BY <1>1, <1>2 DEF UpdatePublishes

\* No answer is one of the other states of a slot.
LEMMA NoSuchAnswer ==
    {"none", "pending", "broken", "skipped"} \intersect Completions = {}
BY DEF Completions

\* Steps that settle nothing and change no answer of a job that is settled.
LEMMA PublishedKept ==
    ASSUME ResultInv, outcome' = outcome,
           \A j \in Jobs : promise'[j] = "value" <=> promise[j] = "value",
           \A j \in Jobs : slot'[j] = slot[j] \/ promise[j] # "value"
    PROVE  \A j \in Jobs : Published(j)'
<1> SUFFICES ASSUME NEW j \in Jobs PROVE Published(j)'
    OBVIOUS
<1>1. CASE promise[j] = "value"
    <2>1. slot'[j] = slot[j] /\ Asked(j)' = Asked(j)
        BY <1>1 DEF Asked
    <2>2. Outcome(slot[j], Asked(j))' = Outcome(slot[j], Asked(j))
        BY <2>1 DEF Outcome
    <2>3. QED BY <1>1, <2>1, <2>2 DEF ResultInv, Published
<1>2. CASE promise[j] # "value"
    BY <1>2 DEF ResultInv, Published
<1>3. QED BY <1>1, <1>2

LEMMA ResultKept ==
    ASSUME ResultInv, UNCHANGED <<client, cursor, entries, slot, promise, outcome>>
    PROVE  ResultInv'
<1>1. \A j \in Jobs : Published(j)'
    BY PublishedKept
<1>2. \A j \in Jobs : Registered(j)' /\ SkippedInv(j)'
    BY DEF ResultInv, Registered, SkippedInv
<1>3. QED BY <1>1, <1>2 DEF ResultInv

\* A client changes only what is behind the future of the executor its loop has
\* reached, and only before that executor has answered.
LEMMA PublishedClient ==
    ASSUME TypeOK, CursorInv, LifeInv, ResultInv, NEW j \in Jobs, ClientStep(j)
    PROVE  \A i \in Jobs : Published(i)'
<1>1. outcome' = outcome
    BY DEF ClientStep, InsertJob, InsertThrows, FutureAlreadyRetrieved, BeginInsertResult,
           EndInsertResult, InsertResultThrows, ProcessLocally, AnnounceLocally, HandOver,
           DropCallback, StoreAddingComplete, AnnounceAddingComplete, promiseVars
<1>2. \A i \in Jobs : promise'[i] = "value" <=> promise[i] = "value"
    BY DEF ClientStep, InsertJob, InsertThrows, FutureAlreadyRetrieved, BeginInsertResult,
           EndInsertResult, InsertResultThrows, ProcessLocally, AnnounceLocally, HandOver,
           DropCallback, StoreAddingComplete, AnnounceAddingComplete, promiseVars,
           LifeInv, PromiseInv, TypeOK
<1>3. \A i \in Jobs : slot'[i] = slot[i] \/ (i = j /\ (\/ EndInsertResult(j)
                                                       \/ InsertResultThrows(j)
                                                       \/ ProcessLocally(j)
                                                       \/ DropCallback(j)))
    BY DEF ClientStep, InsertJob, InsertThrows, FutureAlreadyRetrieved, BeginInsertResult,
           EndInsertResult, InsertResultThrows, ProcessLocally, AnnounceLocally, HandOver,
           DropCallback, StoreAddingComplete, AnnounceAddingComplete, trackerVars, TypeOK
<1>4. ASSUME \/ EndInsertResult(j) \/ InsertResultThrows(j)
             \/ ProcessLocally(j) \/ DropCallback(j)
      PROVE  promise[j] # "value"
    <2>1. cursor[j] \in Executors /\ slot[j][cursor[j]] \in {"none", "pending"}
        BY <1>4 DEF EndInsertResult, InsertResultThrows, ProcessLocally, DropCallback,
                    CursorInv, LifeInv, SlotInv
    <2>2. QED BY <2>1, NoSuchAnswer DEF ResultInv, Published
<1>5. QED BY <1>1, <1>2, <1>3, <1>4, PublishedKept

LEMMA ResultClient ==
    ASSUME DistinctInstances, TypeOK, CursorInv, LifeInv, ResultInv, NEW j \in Jobs, ClientStep(j)
    PROVE  ResultInv'
<1>1. \A i \in Jobs : Registered(i)' /\ SkippedInv(i)'
    <2> USE ConstantsAssumption DEF TypeOK, CursorInv, LifeInv, PromiseInv, SlotInv, ResultInv,
            Registered, SkippedInv, Executors, clientVars, trackerVars, promiseVars,
            updaterVars, lifeVars
    <2>1. CASE InsertJob(j) BY <2>1 DEF InsertJob
    <2>2. CASE InsertThrows(j) BY <2>2 DEF InsertThrows
    <2>3. CASE FutureAlreadyRetrieved(j) BY <2>3 DEF FutureAlreadyRetrieved
    <2>4. CASE BeginInsertResult(j) BY <2>4 DEF BeginInsertResult
    <2>5. CASE EndInsertResult(j)
        <3>1. \A i \in Jobs : entries[i] \subseteq entries'[i]
            BY <2>5 DEF EndInsertResult
        <3>2. entries'[j] = entries[j] \union {cursor[j]}
            BY <2>5 DEF EndInsertResult, DistinctInstances
        <3>3. QED BY <2>5, <3>1, <3>2 DEF EndInsertResult
    <2>6. CASE ProcessLocally(j) BY <2>6 DEF ProcessLocally
    <2>7. CASE AnnounceLocally(j) BY <2>7 DEF AnnounceLocally, NextExecutor
    <2>8. CASE HandOver(j) BY <2>8 DEF HandOver, NextExecutor
    <2>9. CASE DropCallback(j) BY <2>9 DEF DropCallback, NextExecutor
    <2>10. CASE StoreAddingComplete(j) BY <2>10 DEF StoreAddingComplete
    <2>11. CASE AnnounceAddingComplete(j) BY <2>11 DEF AnnounceAddingComplete
    <2>12. CASE InsertResultThrows(j)
        <3>1. cursor[j] \in Executors /\ client[j] = "scheduling"
            BY <2>12 DEF InsertResultThrows
        <3>2. slot[j][cursor[j]] = "none"
            BY <3>1
        <3>3. cursor[j] \notin entries[j]
            BY <3>2
        <3>4. QED BY <2>12, <3>1, <3>3 DEF InsertResultThrows, NextExecutor
    <2>13. QED BY <2>1, <2>2, <2>3, <2>4, <2>5, <2>12, <2>6, <2>7, <2>8, <2>9, <2>10, <2>11
           DEF ClientStep
<1>2. QED BY <1>1, PublishedClient DEF ResultInv

LEMMA ResultUpdater ==
    ASSUME TypeOK, CursorInv, LifeInv, ResultInv, UpdaterStep \/ DequeueTimeout
    PROVE  ResultInv'
<1>1. ASSUME NEW j \in Jobs, UpdatePublishes(j) PROVE ResultInv'
    <2>1. /\ \A e \in Executors : slot[j][e] \in Completions \union {"skipped"}
          /\ outcome' = [outcome EXCEPT ![j] = Outcome(slot[j], Asked(j))]
        BY <1>1, AllAnswered
    <2>2. promise' = [promise EXCEPT ![j] = "value"] /\ UNCHANGED <<client, cursor, entries, slot>>
        BY <1>1 DEF UpdatePublishes, clientVars, trackerVars
    <2>3. ASSUME NEW i \in Jobs PROVE Asked(i)' = Asked(i)
        BY <2>2 DEF Asked
    <2>4. ASSUME NEW i \in Jobs PROVE Outcome(slot[i], Asked(i))' = Outcome(slot[i], Asked(i))
        BY <2>2, <2>3 DEF Outcome
    <2>5. \A i \in Jobs : Published(i)'
        BY <2>1, <2>2, <2>4 DEF ResultInv, Published, TypeOK
    <2>6. \A i \in Jobs : Registered(i)' /\ SkippedInv(i)'
        BY <2>2 DEF ResultInv, Registered, SkippedInv
    <2>7. QED BY <2>5, <2>6 DEF ResultInv
<1>2. CASE ~\E j \in Jobs : UpdatePublishes(j)
    <2>1. UNCHANGED <<client, cursor, entries, slot, promise, outcome>>
        BY <1>2 DEF UpdaterStep, Dequeue, CheckShutdown, LookUp, EndTest, EndTornTest,
                    TornIterator, Unlock, UpdateReturnsEarly, UpdateTerminates, FinishUpdates,
                    LoopCondition, DequeueTimeout, clientVars, trackerVars, promiseVars
    <2>2. QED BY <2>1, ResultKept
<1>3. QED BY <1>1, <1>2

LEMMA ResultDeferred ==
    ASSUME TypeOK, ResultInv, NEW j \in Jobs, NEW e \in Executors, DeferredStep(j, e)
    PROVE  ResultInv'
<1>1. CASE DeferredAnswer(j, e)
    <2>1. promise[j] # "value"
        BY <1>1, NoSuchAnswer DEF DeferredAnswer, ResultInv, Published
    <2>2. PICK a \in DeferredAnswers : slot' = [slot EXCEPT ![j][e] = a]
        BY <1>1 DEF DeferredAnswer
    <2>3. a \notin {"none", "skipped"}
        BY <2>2, ConstantsAssumption, NoSuchAnswer
    <2>4. UNCHANGED <<client, cursor, entries, promise, outcome>> /\ slot[j][e] = "pending"
        BY <1>1 DEF DeferredAnswer, clientVars, promiseVars
    <2>5. \A i \in Jobs : Published(i)'
        BY <2>1, <2>2, <2>4, PublishedKept DEF TypeOK
    <2>6. \A i \in Jobs : Registered(i)' /\ SkippedInv(i)'
        BY <2>2, <2>3, <2>4 DEF ResultInv, Registered, SkippedInv, TypeOK
    <2>7. QED BY <2>5, <2>6 DEF ResultInv
<1>2. CASE DeferredAnnounce(j, e)
    BY <1>2, ResultKept DEF DeferredAnnounce, clientVars, promiseVars
<1>3. QED BY <1>1, <1>2 DEF DeferredStep

LEMMA ResultStep ==
    DistinctInstances /\ TypeOK /\ CursorInv /\ LifeInv /\ ResultInv /\ [Next]_vars => ResultInv'
<1> SUFFICES ASSUME DistinctInstances, TypeOK, CursorInv, LifeInv, ResultInv, [Next]_vars
             PROVE  ResultInv'
    OBVIOUS
<1>1. CASE StoreShutdown \/ NotifyNull
    BY <1>1, ResultKept DEF StoreShutdown, NotifyNull, clientVars, trackerVars, promiseVars
<1>2. CASE Join
    <2>1. \A j \in Jobs : promise'[j] = "value" <=> promise[j] = "value"
        BY <1>2 DEF Join, TypeOK
    <2>2. UNCHANGED <<client, cursor, entries, slot, outcome>>
        BY <1>2 DEF Join, clientVars, trackerVars
    <2>3. \A j \in Jobs : Published(j)'
        BY <2>1, <2>2, PublishedKept
    <2>4. \A j \in Jobs : Registered(j)' /\ SkippedInv(j)'
        BY <2>2 DEF ResultInv, Registered, SkippedInv
    <2>5. QED BY <2>3, <2>4 DEF ResultInv
<1>3. CASE UNCHANGED vars
    BY <1>3, ResultKept DEF vars, clientVars, trackerVars, promiseVars
<1>4. QED BY <1>1, <1>2, <1>3, ResultClient, ResultDeferred, ResultUpdater DEF Next, Stopped

LEMMA ResultInvariant == ASSUME DistinctInstances PROVE Spec => []ResultInv
<1>1. TypeOK /\ CursorInv /\ LifeInv /\ ResultInv /\ [Next]_vars => ResultInv'
    BY ResultStep
<1>2. QED BY <1>1, ResultInit, TypeCorrect, LifeInvariant, PTL DEF Spec
\* A job that is reported as succeeded contains the result of every executor
\* that was asked, whatever fails (job_tracker.cpp:12-32 and 43-124); and these
\* are all executors when no insertion throws.
THEOREM SucceededIsComplete ==
    ASSUME DistinctInstances
    PROVE  Spec => []AskedSucceeded /\ (~InsertMayThrow => []SucceededMeansAll)
<1>1. ResultInv => AskedSucceeded
    <2>1. SUFFICES ASSUME ResultInv, NEW j \in Jobs, outcome[j].completion = "succeeded"
                   PROVE  /\ outcome[j].reduced = Asked(j)
                          /\ \A e \in Asked(j) : slot[j][e] = "succeeded"
        BY DEF AskedSucceeded
    <2>2. outcome[j] = Outcome(slot[j], Asked(j))
        BY <2>1 DEF ResultInv, Published, NoOutcome
    <2>3. \A e \in Asked(j) : slot[j][e] = "succeeded"
        BY <2>1, <2>2 DEF Outcome
    <2>4. outcome[j].reduced = Asked(j)
        BY <2>2, <2>3, CarriesResultAssumption DEF Outcome
    <2>5. QED BY <2>3, <2>4
<1>2. ~InsertMayThrow /\ ResultInv => SucceededMeansAll
    <2>1. ~InsertMayThrow /\ ResultInv => \A j \in Jobs : Asked(j) = Executors
        BY DEF ResultInv, SkippedInv, Asked
    <2>2. QED BY <1>1, <2>1 DEF AskedSucceeded, SucceededMeansAll
<1>3. CASE InsertMayThrow
    BY <1>1, <1>3, ResultInvariant, PTL
<1>4. CASE ~InsertMayThrow
    BY <1>1, <1>2, <1>4, ResultInvariant, PTL
<1>5. QED BY <1>3, <1>4

-----------------------------------------------------------------------------
(* No exception leaves a noexcept function.                                  *)

\* Only a remote executor breaks a promise.
FaultInv ==
    /\ \A j \in Jobs, e \in Executors : slot[j][e] # "broken"
    /\ NeverTerminates

LEMMA FaultStep ==
    NoFaults /\ TypeOK /\ CursorInv /\ NotificationInv /\ LifeInv /\ FaultInv /\ [Next]_vars
        => FaultInv'
<1> SUFFICES ASSUME NoFaults, TypeOK, CursorInv, NotificationInv, LifeInv, FaultInv, [Next]_vars
             PROVE  FaultInv'
    OBVIOUS
<1> USE DEF TypeOK, FaultInv, NeverTerminates, clientVars, trackerVars, promiseVars,
        updaterVars, lifeVars
<1>1. ASSUME NEW j \in Jobs, ClientStep(j) PROVE FaultInv'
    <2>1. /\ ~InsertThrows(j) /\ ~FutureAlreadyRetrieved(j) /\ ~DropCallback(j)
          /\ ~InsertResultThrows(j)
        BY DEF NoFaults, LifeInv, PromiseInv, CursorInv, InsertThrows, FutureAlreadyRetrieved,
               DropCallback, InsertResultThrows
    <2>2. CASE InsertJob(j) BY <2>2 DEF InsertJob
    <2>3. CASE BeginInsertResult(j) BY <2>3 DEF BeginInsertResult
    <2>4. CASE EndInsertResult(j) BY <2>4 DEF EndInsertResult
    <2>5. CASE ProcessLocally(j) BY <2>5 DEF ProcessLocally
    <2>6. CASE AnnounceLocally(j) BY <2>6 DEF AnnounceLocally
    <2>7. CASE HandOver(j) BY <2>7 DEF HandOver
    <2>8. CASE StoreAddingComplete(j) BY <2>8 DEF StoreAddingComplete
    <2>9. CASE AnnounceAddingComplete(j) BY <2>9 DEF AnnounceAddingComplete
    <2>10. QED BY <1>1, <2>1, <2>2, <2>3, <2>4, <2>5, <2>6, <2>7, <2>8, <2>9 DEF ClientStep
<1>2. ASSUME NEW j \in Jobs, NEW e \in Executors, DeferredStep(j, e) PROVE FaultInv'
    <2>1. "broken" \notin DeferredAnswers
        BY ConstantsAssumption, NoSuchAnswer
    <2>2. CASE DeferredAnswer(j, e)
        <3>1. PICK a \in DeferredAnswers : slot' = [slot EXCEPT ![j][e] = a]
            BY <2>2 DEF DeferredAnswer
        <3>2. QED BY <2>1, <2>2, <3>1 DEF DeferredAnswer
    <2>3. CASE DeferredAnnounce(j, e) BY <2>3 DEF DeferredAnnounce
    <2>4. QED BY <1>2, <2>2, <2>3 DEF DeferredStep
<1>3. CASE UpdaterStep \/ DequeueTimeout
    <2>1. ASSUME NEW j \in Jobs PROVE ~UpdateTerminates(j)
        <3>1. SUFFICES ASSUME ReadyToPublish(j), PublishingThrows(j) PROVE FALSE
            BY DEF UpdateTerminates
        <3>2. addingComplete[j] /\ ~alreadyProcessed[j] /\ updater = "updating"
            BY <3>1 DEF ReadyToPublish
        <3>3. promise[j] # "unset"
            BY <3>1 DEF PublishingThrows
        <3>4. promise[j] \in {"value", "exception", "broken"}
            BY <3>3
        <3>5. QED BY <3>2, <3>4 DEF LifeInv, PromiseInv
    <2>2. slot' = slot
        BY <1>3, <2>1
           DEF UpdaterStep, Dequeue, CheckShutdown, LookUp, EndTest, EndTornTest, TornIterator,
               Unlock, UpdateReturnsEarly, UpdatePublishes, FinishUpdates, LoopCondition,
               DequeueTimeout
    <2>3. crash' = crash \/ crash' \in {"null_lookup", "torn_iterator"}
        BY <1>3, <2>1
           DEF UpdaterStep, Dequeue, CheckShutdown, LookUp, EndTest, EndTornTest, TornIterator,
               Unlock, UpdateReturnsEarly, UpdatePublishes, FinishUpdates, LoopCondition,
               DequeueTimeout
    <2>4. QED BY <2>2, <2>3
<1>4. CASE StoreShutdown BY <1>4 DEF StoreShutdown
<1>5. CASE NotifyNull BY <1>5 DEF NotifyNull
<1>6. CASE Join BY <1>6 DEF Join
<1>7. CASE UNCHANGED vars BY <1>7 DEF vars
<1>8. QED BY <1>1, <1>2, <1>3, <1>4, <1>5, <1>6, <1>7 DEF Next, Stopped

\* As long as executors call back and memory does not run out, the process is
\* not terminated: no promise is set twice and no broken one is read, even with
\* executors that share an instance and with torn reads of the map.
THEOREM Terminationless == ASSUME NoFaults PROVE Spec => []NeverTerminates
<1>1. Init => FaultInv
    BY DEF Init, FaultInv, NeverTerminates
<1>2. TypeOK /\ CursorInv /\ NotificationInv /\ LifeInv /\ FaultInv /\ [Next]_vars => FaultInv'
    BY FaultStep
<1>3. FaultInv => NeverTerminates
    BY DEF FaultInv
<1>4. QED BY <1>1, <1>2, <1>3, TypeCorrect, NotificationInvariant, LifeInvariant, PTL DEF Spec
-----------------------------------------------------------------------------
(* The refinement.                                                           *)

\* Steps that no caller can see.
LEMMA Invisible ==
    ASSUME UNCHANGED <<promise, slot, outcome, destructor>>,
           \A j \in Jobs : client[j] = "idle" <=> client'[j] = "idle"
    PROVE  UNCHANGED Service!serviceVars
BY DEF Service!serviceVars, StageOf, AnswerOf

\* What one executor's slot means for the answers the service sees.
LEMMA AnswerGiven ==
    ASSUME TypeOK, NEW j \in Jobs, NEW e \in Executors, NEW a \in Completions \union {"skipped"},
           slot' = [slot EXCEPT ![j][e] = a]
    PROVE  [i \in Jobs |-> AnswerOf(i)]' = [[i \in Jobs |-> AnswerOf(i)] EXCEPT ![j][e] = a]
<1>1. ASSUME NEW i \in Jobs, NEW f \in Executors
      PROVE  AnswerOf(i)'[f] = IF i = j /\ f = e THEN a ELSE AnswerOf(i)[f]
    BY DEF AnswerOf, TypeOK
<1>2. ASSUME NEW i \in Jobs
      PROVE  AnswerOf(i)' = IF i = j THEN [AnswerOf(j) EXCEPT ![e] = a] ELSE AnswerOf(i)
    <2>1. AnswerOf(i)' = [f \in Executors |-> AnswerOf(i)'[f]]
        BY DEF AnswerOf
    <2>2. AnswerOf(i) = [f \in Executors |-> AnswerOf(i)[f]]
        BY DEF AnswerOf
    <2>3. CASE i = j
        <3>1. [AnswerOf(j) EXCEPT ![e] = a] = [f \in Executors |-> IF f = e THEN a ELSE AnswerOf(j)[f]]
            BY <2>2, <2>3
        <3>2. QED BY <1>1, <2>1, <2>3, <3>1
    <2>4. CASE i # j
        BY <1>1, <2>1, <2>2, <2>4
    <2>5. QED BY <2>3, <2>4
<1>3. QED BY <1>2

\* An answer of an executor that changes nothing else.
LEMMA AnswerStep ==
    ASSUME TypeOK, LifeInv, ResultInv, NEW j \in Jobs, NEW e \in Executors,
           NEW a \in Completions,
           client[j] # "idle", slot[j][e] = "pending",
           slot' = [slot EXCEPT ![j][e] = a],
           \A i \in Jobs : client[i] = "idle" <=> client'[i] = "idle",
           UNCHANGED <<promise, outcome, destructor>>
    PROVE  Service!Answer(j, e)
<1>1. promise[j] # "value"
    BY NoSuchAnswer DEF ResultInv, Published
<1>2. promise[j] # "exception"
    <2>1. SUFFICES ASSUME client[j] = "failing" PROVE FALSE
        BY DEF LifeInv, PromiseInv
    <2>2. cursor[j] = 1
        BY <2>1 DEF LifeInv, PromiseInv
    <2>3. cursor[j] < e \/ cursor[j] = e
        BY <2>2, ConstantsAssumption DEF Executors
    <2>4. slot[j][e] = "none"
        BY <2>1, <2>3 DEF LifeInv, SlotInv
    <2>5. QED BY <2>4
<1>3. StageOf(j) \in {"pending", "abandoned"}
    BY <1>1, <1>2 DEF StageOf, TypeOK
<1>4. AnswerOf(j)[e] = "none"
    BY NoSuchAnswer DEF AnswerOf
<1>5. [i \in Jobs |-> AnswerOf(i)]' = [[i \in Jobs |-> AnswerOf(i)] EXCEPT ![j][e] = a]
    BY AnswerGiven
<1>6. [i \in Jobs |-> StageOf(i)]' = [i \in Jobs |-> StageOf(i)]
    BY DEF StageOf
<1>7. QED BY <1>3, <1>4, <1>5, <1>6 DEF Service!Answer, Service!Completions, Completions

\* An insertion that throws: the executor is skipped.
LEMMA SkipStep ==
    ASSUME TypeOK, CursorInv, LifeInv, ResultInv, NEW j \in Jobs, InsertResultThrows(j)
    PROVE  Service!Skip(j, cursor[j])
<1>1. /\ client[j] = "scheduling" /\ cursor[j] \in Executors /\ slot[j][cursor[j]] = "none"
      /\ slot' = [slot EXCEPT ![j][cursor[j]] = "skipped"]
      /\ UNCHANGED <<promise, outcome, destructor>>
      /\ client' = [client EXCEPT ![j] = "scheduling"]
    BY DEF InsertResultThrows, NextExecutor, LifeInv, SlotInv, promiseVars, lifeVars
<1>2. destructor = "alive"
    BY <1>1 DEF LifeInv
<1>3. promise[j] = "unset"
    <2>1. promise[j] # "value"
        BY <1>1, NoSuchAnswer DEF ResultInv, Published
    <2>2. promise[j] \notin {"exception", "broken"}
        BY <1>1, <1>2 DEF LifeInv, PromiseInv
    <2>3. QED BY <2>1, <2>2 DEF TypeOK
<1>4. StageOf(j) = "pending" /\ AnswerOf(j)[cursor[j]] = "none"
    BY <1>1, <1>3, NoSuchAnswer DEF StageOf, AnswerOf
<1>5. [i \in Jobs |-> AnswerOf(i)]'
        = [[i \in Jobs |-> AnswerOf(i)] EXCEPT ![j][cursor[j]] = "skipped"]
    BY <1>1, AnswerGiven
<1>6. [i \in Jobs |-> StageOf(i)]' = [i \in Jobs |-> StageOf(i)]
    BY <1>1 DEF StageOf, TypeOK
<1>7. QED BY <1>1, <1>2, <1>4, <1>5, <1>6 DEF Service!Skip

LEMMA SubmitStep ==
    ASSUME TypeOK, LifeInv, NEW j \in Jobs, InsertJob(j)
    PROVE  Service!Submit(j)
<1>1. promise[j] = "unset" /\ client[j] = "idle" /\ destructor = "alive"
    BY DEF InsertJob, LifeInv, PromiseInv
<1>2. [i \in Jobs |-> StageOf(i)]' = [[i \in Jobs |-> StageOf(i)] EXCEPT ![j] = "pending"]
    BY <1>1 DEF InsertJob, StageOf, TypeOK, promiseVars, lifeVars
<1>3. UNCHANGED <<destructor, outcome>> /\ [i \in Jobs |-> AnswerOf(i)]' = [i \in Jobs |-> AnswerOf(i)]
    BY DEF InsertJob, AnswerOf, trackerVars, promiseVars, lifeVars
<1>4. StageOf(j) = "new"
    BY <1>1 DEF StageOf
<1>5. QED BY <1>1, <1>2, <1>3, <1>4 DEF Service!Submit

LEMMA RefuseStep ==
    ASSUME TypeOK, LifeInv, NEW j \in Jobs, InsertThrows(j)
    PROVE  Service!Refuse(j)
<1>1. client[j] = "idle" /\ destructor = "alive"
    BY DEF InsertThrows
<1>2. [i \in Jobs |-> StageOf(i)]' = [[i \in Jobs |-> StageOf(i)] EXCEPT ![j] = "failed"]
    BY <1>1 DEF InsertThrows, StageOf, TypeOK
<1>3. UNCHANGED <<destructor, outcome>> /\ [i \in Jobs |-> AnswerOf(i)]' = [i \in Jobs |-> AnswerOf(i)]
    BY DEF InsertThrows, AnswerOf, trackerVars, lifeVars
<1>4. StageOf(j) = "new"
    BY <1>1 DEF StageOf
<1>5. QED BY <1>1, <1>2, <1>3, <1>4 DEF Service!Refuse

LEMMA ResolveStep ==
    ASSUME TypeOK, CursorInv, LifeInv, ResultInv, NEW j \in Jobs, UpdatePublishes(j)
    PROVE  Service!Resolve(j)
<1>1. /\ \A e \in Executors : slot[j][e] \in Completions \union {"skipped"}
      /\ outcome' = [outcome EXCEPT ![j] = Outcome(slot[j], Asked(j))]
    BY AllAnswered
<1>2. promise[j] = "unset" /\ promise' = [promise EXCEPT ![j] = "value"]
    BY DEF UpdatePublishes, PublishingThrows
<1>3. client[j] # "idle" /\ destructor # "joined"
    BY DEF UpdatePublishes, ReadyToPublish, LifeInv, PromiseInv
<1>4. UNCHANGED <<client, slot, destructor>>
    BY DEF UpdatePublishes, clientVars, trackerVars, lifeVars
<1>5. AnswerOf(j) = slot[j] /\ \A e \in Executors : AnswerOf(j)[e] # "none"
    BY <1>1, NoSuchAnswer DEF AnswerOf, TypeOK
<1>6. [i \in Jobs |-> StageOf(i)]' = [[i \in Jobs |-> StageOf(i)] EXCEPT ![j] = "resolved"]
    BY <1>2, <1>3, <1>4 DEF StageOf, TypeOK
<1>7. [i \in Jobs |-> AnswerOf(i)]' = [i \in Jobs |-> AnswerOf(i)]
    BY <1>4 DEF AnswerOf
<1>8. StageOf(j) = "pending"
    BY <1>2, <1>3 DEF StageOf
<1>9. Service!Outcome(AnswerOf(j), Service!Asked(j)) = Outcome(slot[j], Asked(j))
    BY <1>5 DEF Service!Outcome, Outcome, Service!Asked, Asked
<1>10. QED BY <1>1, <1>3, <1>4, <1>5, <1>6, <1>7, <1>8, <1>9 DEF Service!Resolve

LEMMA CloseStep ==
    ASSUME TypeOK, NotificationInv, LifeInv, Join
    PROVE  Service!Close
<1>1. destructor # "joined" /\ destructor' = "joined"
    BY DEF Join
<1>2. ASSUME NEW j \in Jobs
      PROVE  StageOf(j)' = IF StageOf(j) = "pending" THEN "abandoned" ELSE StageOf(j)
    <2>1. client' = client
        BY DEF Join, clientVars
    <2>2. promise'[j] = IF j \in jobs /\ promise[j] = "unset" THEN "broken" ELSE promise[j]
        BY DEF Join
    <2>3. client[j] # "idle" /\ promise[j] = "unset" => j \in jobs
        BY DEF NotificationInv, LifeInv, PromiseInv
    <2>4. promise[j] # "broken"
        BY <1>1 DEF LifeInv, PromiseInv
    <2>5. promise[j] \in {"unset", "value", "exception"}
        BY <2>4 DEF TypeOK
    <2>6. client[j] = "idle" => promise[j] = "unset"
        BY DEF LifeInv, PromiseInv
    <2>7. QED BY <2>1, <2>2, <2>3, <2>5, <2>6 DEF StageOf
<1>3. UNCHANGED outcome /\ [i \in Jobs |-> AnswerOf(i)]' = [i \in Jobs |-> AnswerOf(i)]
    BY DEF Join, AnswerOf, trackerVars
<1>4. QED BY <1>1, <1>2, <1>3 DEF Service!Close

LEMMA ServiceStep ==
    ASSUME DistinctInstances, TypeOK, CursorInv, NotificationInv, LifeInv, ResultInv, [Next]_vars
    PROVE  Service!Next \/ UNCHANGED Service!serviceVars
<1> USE DEF clientVars, trackerVars, promiseVars, updaterVars, lifeVars
<1>1. ASSUME NEW j \in Jobs, ClientStep(j)
      PROVE  Service!Next \/ UNCHANGED Service!serviceVars
    <2> USE DEF TypeOK
    <2>1. CASE InsertJob(j) BY <2>1, SubmitStep DEF Service!Next
    <2>2. CASE InsertThrows(j) BY <2>2, RefuseStep DEF Service!Next
    <2>3. CASE FutureAlreadyRetrieved(j) BY <2>3, Invisible DEF FutureAlreadyRetrieved
    <2>4. CASE BeginInsertResult(j) BY <2>4, Invisible DEF BeginInsertResult
    <2>5. CASE EndInsertResult(j)
        <3>1. cursor[j] \in Executors /\ slot[j][cursor[j]] = "none"
            BY <2>5 DEF EndInsertResult, CursorInv, LifeInv, SlotInv
        <3>2. [i \in Jobs |-> AnswerOf(i)]' = [i \in Jobs |-> AnswerOf(i)]
            BY <2>5, <3>1, NoSuchAnswer DEF EndInsertResult, AnswerOf
        <3>3. [i \in Jobs |-> StageOf(i)]' = [i \in Jobs |-> StageOf(i)]
            BY <2>5 DEF EndInsertResult, StageOf
        <3>4. QED BY <2>5, <3>2, <3>3 DEF EndInsertResult, Service!serviceVars
    <2>6. CASE ProcessLocally(j)
        <3>1. cursor[j] \in Executors /\ slot[j][cursor[j]] = "pending"
            BY <2>6 DEF ProcessLocally, CursorInv, LifeInv, SlotInv
        <3>2. "succeeded" \in Completions
            BY DEF Completions
        <3>3. slot' = [slot EXCEPT ![j][cursor[j]] = "succeeded"] /\ client[j] # "idle"
            BY <2>6 DEF ProcessLocally
        <3>4. \A i \in Jobs : client[i] = "idle" <=> client'[i] = "idle"
            BY <2>6 DEF ProcessLocally
        <3>5. UNCHANGED <<promise, outcome, destructor>>
            BY <2>6 DEF ProcessLocally
        <3>6. Service!Answer(j, cursor[j])
            BY <3>1, <3>2, <3>3, <3>4, <3>5, AnswerStep
        <3>7. QED BY <3>1, <3>6 DEF Service!Next
    <2>7. CASE AnnounceLocally(j) BY <2>7, Invisible DEF AnnounceLocally, NextExecutor
    <2>8. CASE HandOver(j) BY <2>8, Invisible DEF HandOver, NextExecutor
    <2>9. CASE DropCallback(j)
        <3>1. cursor[j] \in Executors /\ slot[j][cursor[j]] = "pending"
            BY <2>9 DEF DropCallback, CursorInv, LifeInv, SlotInv
        <3>2. [i \in Jobs |-> AnswerOf(i)]' = [i \in Jobs |-> AnswerOf(i)]
            BY <2>9, <3>1, NoSuchAnswer DEF DropCallback, AnswerOf
        <3>3. [i \in Jobs |-> StageOf(i)]' = [i \in Jobs |-> StageOf(i)]
            BY <2>9 DEF DropCallback, NextExecutor, StageOf
        <3>4. QED BY <2>9, <3>2, <3>3 DEF DropCallback, Service!serviceVars
    <2>10. CASE StoreAddingComplete(j) BY <2>10, Invisible DEF StoreAddingComplete
    <2>11. CASE AnnounceAddingComplete(j) BY <2>11, Invisible DEF AnnounceAddingComplete
    <2>12. CASE InsertResultThrows(j)
        <3>1. cursor[j] \in Executors
            BY <2>12 DEF InsertResultThrows
        <3>2. QED BY <2>12, <3>1, SkipStep DEF Service!Next
    <2>13. QED BY <1>1, <2>1, <2>2, <2>3, <2>4, <2>5, <2>6, <2>7, <2>8, <2>9, <2>10, <2>11,
                  <2>12 DEF ClientStep
<1>2. ASSUME NEW j \in Jobs, NEW e \in Executors, DeferredStep(j, e)
      PROVE  Service!Next \/ UNCHANGED Service!serviceVars
    <2>1. CASE DeferredAnswer(j, e)
        <3>1. PICK a \in DeferredAnswers : slot' = [slot EXCEPT ![j][e] = a]
            BY <2>1 DEF DeferredAnswer
        <3>2. a \in Completions
            BY ConstantsAssumption
        <3>3. slot[j][e] = "pending" /\ cursor[j] > e /\ UNCHANGED <<client, promise, outcome, destructor>>
            BY <2>1 DEF DeferredAnswer
        <3>4. client[j] # "idle"
            <4>1. SUFFICES ASSUME cursor[j] = 1 PROVE FALSE
                BY DEF LifeInv, PromiseInv
            <4>2. QED BY <3>3, <4>1, ConstantsAssumption DEF Executors
        <3>5. Service!Answer(j, e)
            BY <3>1, <3>2, <3>3, <3>4, AnswerStep
        <3>6. QED BY <3>5 DEF Service!Next
    <2>2. CASE DeferredAnnounce(j, e) BY <2>2, Invisible DEF DeferredAnnounce
    <2>3. QED BY <1>2, <2>1, <2>2 DEF DeferredStep
<1>3. CASE UpdaterStep \/ DequeueTimeout
    <2>1. CASE \E j \in Jobs : UpdatePublishes(j)
        BY <2>1, ResolveStep DEF Service!Next
    <2>2. CASE ~\E j \in Jobs : UpdatePublishes(j)
        <3>1. UNCHANGED <<client, promise, slot, outcome, destructor>>
            BY <1>3, <2>2
               DEF UpdaterStep, Dequeue, CheckShutdown, LookUp, EndTest, EndTornTest,
                   TornIterator, Unlock, UpdateReturnsEarly, UpdateTerminates, FinishUpdates,
                   LoopCondition, DequeueTimeout
        <3>2. QED BY <3>1, Invisible
    <2>3. QED BY <2>1, <2>2
<1>4. CASE StoreShutdown
    BY <1>4 DEF StoreShutdown, Service!serviceVars, StageOf, AnswerOf
<1>5. CASE NotifyNull
    BY <1>5 DEF NotifyNull, Service!serviceVars, StageOf, AnswerOf
<1>6. CASE Join BY <1>6, CloseStep DEF Service!Next
<1>7. CASE UNCHANGED vars BY <1>7, Invisible DEF vars
<1>8. QED BY <1>1, <1>2, <1>3, <1>4, <1>5, <1>6, <1>7 DEF Next, Stopped

\* The coordinator implements the service it promises: the future of a query is
\* settled at most once, with a value only when all executors that were asked
\* have answered, and with the combination of all their answers.  An executor is
\* not asked when its insertion into _executor_results throws.
THEOREM Refinement == ASSUME DistinctInstances PROVE Spec => ServiceSpec
<1>1. Init => Service!Init
    BY NoSuchAnswer DEF Init, Service!Init, StageOf, AnswerOf, Service!NoOutcome, NoOutcome
<1>2. TypeOK /\ CursorInv /\ NotificationInv /\ LifeInv /\ ResultInv /\ [Next]_vars
        => [Service!Next]_(Service!serviceVars)
    BY ServiceStep
<1>3. QED BY <1>1, <1>2, TypeCorrect, NotificationInvariant, LifeInvariant, ResultInvariant, PTL
      DEF Spec, ServiceSpec, Service!Spec

=============================================================================
