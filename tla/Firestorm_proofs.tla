---------------------------- MODULE Firestorm_proofs ----------------------------
(***************************************************************************)
(* The server uses its parts as their specifications say: every behaviour of *)
(* Firestorm is one of the vector generator, of the job coordinator and of   *)
(* the worker thread coordinator.  What is proved about these for every      *)
(* client holds for the server.                                             *)
(*                                                                         *)
(* First comes the vector generator by itself, then how the server uses its  *)
(* parts, then what the server itself promises, from the invariants of all.  *)
(***************************************************************************)
EXTENDS Firestorm, Integers, TLAPS

-----------------------------------------------------------------------------
(* The vector generator by itself, for any sequence of calls.                *)

IsEven(n) == n % 2 = 0

\* A value is saved exactly in the middle of a pair: between two calls, when
\* the number of dimensions is even, it is not.
SavedInv ==
    IsEven(Dimensions) =>
        /\ call = NoCall => saved = NoValue
        /\ call # NoCall => (saved = NoValue <=> IsEven(Len(target)))

\* What a seeded call has written, what it has saved and the pairs it has made
\* follow from its seed and from how far it is.
SeededInv ==
    IsEven(Dimensions) /\ call = "seeded" =>
        /\ engine.pairs = (Len(target) + 1) \div 2
        /\ \A i \in 1..Len(target) :
            target[i] = [seed |-> engine.seed, pair |-> (i - 1) \div 2, half |-> (i - 1) % 2]
        /\ saved # NoValue =>
            saved = [seed |-> engine.seed, pair |-> Len(target) \div 2, half |-> 1]

GeneratorInv == GeneratorTypeOK /\ SavedInv /\ SeededInv

-----------------------------------------------------------------------------
(* Halves and pairs.                                                         *)

LEMMA EvenLength ==
    ASSUME NEW n \in Nat, IsEven(n)
    PROVE  /\ n % 2 = 0 /\ (n + 1) \div 2 = n \div 2 /\ (n + 2) \div 2 = n \div 2 + 1
           /\ ~IsEven(n + 1)
BY DEF IsEven

LEMMA OddLength ==
    ASSUME NEW n \in Nat, ~IsEven(n)
    PROVE  /\ n % 2 = 1 /\ (n + 1) \div 2 = n \div 2 + 1 /\ (n + 2) \div 2 = n \div 2 + 1
           /\ IsEven(n + 1)
BY DEF IsEven

-----------------------------------------------------------------------------

LEMMA GeneratorInvInit == GeneratorInit => GeneratorInv
<1> SUFFICES ASSUME GeneratorInit PROVE GeneratorInv
    OBVIOUS
<1>1. GeneratorTypeOK
    BY SeedsAssumption, DimensionsAssumption DEF GeneratorInit, GeneratorTypeOK, Engines
<1>2. SavedInv /\ SeededInv
    BY NoCallAssumption DEF GeneratorInit, SavedInv, SeededInv
<1>3. QED BY <1>1, <1>2 DEF GeneratorInv

LEMMA BeginOwnKeepsInv == GeneratorInv /\ BeginOwn => GeneratorInv'
<1> SUFFICES ASSUME GeneratorInv, BeginOwn PROVE GeneratorInv'
    OBVIOUS
<1>1. GeneratorTypeOK'
    BY DimensionsAssumption DEF GeneratorInv, BeginOwn, GeneratorTypeOK
<1>2. SavedInv'
    BY NoCallAssumption DEF GeneratorInv, BeginOwn, SavedInv, IsEven
<1>3. SeededInv'
    BY DEF BeginOwn, SeededInv
<1>4. QED BY <1>1, <1>2, <1>3 DEF GeneratorInv

LEMMA BeginSeededKeepsInv ==
    ASSUME GeneratorInv, NEW seed \in Seeds, BeginSeeded(seed)
    PROVE  GeneratorInv'
<1>1. GeneratorTypeOK'
    BY DimensionsAssumption DEF GeneratorInv, BeginSeeded, GeneratorTypeOK, Engines
<1>2. SavedInv'
    BY NoCallAssumption DEF GeneratorInv, BeginSeeded, SavedInv, IsEven
<1>3. SeededInv'
    <2>1. IsEven(Dimensions) => saved' = NoValue
        BY DEF GeneratorInv, BeginSeeded, SavedInv
    <2>2. target' = <<>> /\ engine'.pairs = 0
        BY DEF BeginSeeded
    <2>3. engine'.pairs = (Len(target') + 1) \div 2
        BY <2>2
    <2>4. QED BY <2>1, <2>2, <2>3 DEF SeededInv
<1>4. QED BY <1>1, <1>2, <1>3 DEF GeneratorInv

LEMMA DrawElementKeepsInv == GeneratorInv /\ DrawElement => GeneratorInv'
<1> SUFFICES ASSUME GeneratorInv, DrawElement PROVE GeneratorInv'
    OBVIOUS
<1> DEFINE n == Len(target)
<1>1. /\ GeneratorTypeOK /\ SavedInv /\ SeededInv
      /\ call # NoCall /\ n < Dimensions
      /\ generator' = generator /\ call' = call
    BY DEF GeneratorInv, DrawElement
<1>2. n \in Nat /\ Dimensions \in Nat /\ target \in Seq(Randoms) /\ engine \in Engines
    BY <1>1, DimensionsAssumption DEF GeneratorTypeOK
<1>3. CASE DrawSaved
    <2>1. saved \in Randoms /\ saved # NoValue /\ saved' = NoValue /\ engine' = engine
          /\ target' = Append(target, saved)
        BY <1>1, <1>3 DEF DrawSaved, GeneratorTypeOK
    <2>2. Len(target') = n + 1 /\ target'[n + 1] = saved
          /\ \A i \in 1..n : target'[i] = target[i]
        BY <1>2, <2>1
    <2>3. GeneratorTypeOK'
        BY <1>1, <1>2, <2>1, <2>2 DEF GeneratorTypeOK
    <2>4. IsEven(Dimensions) => ~IsEven(n)
        BY <1>1, <2>1 DEF SavedInv
    <2>5. SavedInv'
        BY <1>1, <1>2, <2>1, <2>2, <2>4, OddLength DEF SavedInv
    <2>6. SeededInv'
        <3>1. SUFFICES ASSUME IsEven(Dimensions), call = "seeded"
              PROVE  /\ engine.pairs = (n + 1 + 1) \div 2
                     /\ \A i \in 1..(n + 1) : target'[i] =
                            [seed |-> engine.seed, pair |-> (i - 1) \div 2, half |-> (i - 1) % 2]
            BY <1>1, <1>2, <2>1, <2>2 DEF SeededInv
        <3>2. n % 2 = 1 /\ (n + 1) \div 2 = n \div 2 + 1 /\ (n + 2) \div 2 = n \div 2 + 1
            BY <1>2, <2>4, <3>1, OddLength
        <3>3. engine.pairs = (n + 1 + 1) \div 2
            BY <1>1, <1>2, <3>1, <3>2 DEF SeededInv
        <3>4. saved = [seed |-> engine.seed, pair |-> n \div 2, half |-> n % 2]
            BY <1>1, <2>1, <3>1, <3>2 DEF SeededInv
        <3>5. ASSUME NEW i \in 1..(n + 1)
              PROVE  target'[i] =
                        [seed |-> engine.seed, pair |-> (i - 1) \div 2, half |-> (i - 1) % 2]
            <4>1. CASE i \in 1..n
                BY <1>1, <2>2, <3>1, <4>1 DEF SeededInv
            <4>2. CASE i = n + 1
                <5>1. i - 1 = n
                    BY <1>2, <4>2
                <5>2. QED BY <2>2, <3>4, <4>2, <5>1
            <4>3. QED BY <1>2, <3>5, <4>1, <4>2
        <3>6. QED BY <3>3, <3>5
    <2>7. QED BY <2>3, <2>5, <2>6 DEF GeneratorInv
<1>4. CASE DrawPair
    <2>1. saved = NoValue /\ saved' = Value(engine, 1)
          /\ engine' = [engine EXCEPT !.pairs = @ + 1]
          /\ target' = Append(target, Value(engine, 0))
        BY <1>4 DEF DrawPair
    <2>2. /\ Value(engine, 0) \in Randoms /\ saved' \in Randoms /\ saved' # NoValue
          /\ engine' \in Engines /\ engine'.seed = engine.seed
          /\ engine'.pairs = engine.pairs + 1
        BY <1>2, <2>1, NoValueAssumption DEF Value, Randoms, Engines
    <2>3. Len(target') = n + 1 /\ target'[n + 1] = Value(engine, 0)
          /\ \A i \in 1..n : target'[i] = target[i]
        BY <1>2, <2>1, <2>2
    <2>4. GeneratorTypeOK'
        BY <1>1, <1>2, <2>1, <2>2, <2>3 DEF GeneratorTypeOK
    <2>5. IsEven(Dimensions) => IsEven(n)
        BY <1>1, <2>1 DEF SavedInv
    <2>6. SavedInv'
        BY <1>1, <1>2, <2>2, <2>3, <2>5, EvenLength DEF SavedInv
    <2>7. SeededInv'
        <3>1. SUFFICES ASSUME IsEven(Dimensions), call = "seeded"
              PROVE  /\ engine.pairs + 1 = (n + 2) \div 2
                     /\ \A i \in 1..(n + 1) : target'[i] =
                            [seed |-> engine.seed, pair |-> (i - 1) \div 2, half |-> (i - 1) % 2]
                     /\ saved' = [seed |-> engine.seed, pair |-> (n + 1) \div 2, half |-> 1]
            BY <1>1, <1>2, <2>2, <2>3 DEF SeededInv
        <3>2. n % 2 = 0 /\ (n + 1) \div 2 = n \div 2 /\ (n + 2) \div 2 = n \div 2 + 1
            BY <1>2, <2>5, <3>1, EvenLength
        <3>3. engine.pairs = n \div 2
            BY <1>1, <3>1, <3>2 DEF SeededInv
        <3>4. ASSUME NEW i \in 1..(n + 1)
              PROVE  target'[i] =
                        [seed |-> engine.seed, pair |-> (i - 1) \div 2, half |-> (i - 1) % 2]
            <4>1. CASE i \in 1..n
                BY <1>1, <2>3, <3>1, <4>1 DEF SeededInv
            <4>2. CASE i = n + 1
                <5>1. i - 1 = n
                    BY <1>2, <4>2
                <5>2. QED BY <2>3, <3>2, <3>3, <4>2, <5>1 DEF Value
            <4>3. QED BY <1>2, <3>4, <4>1, <4>2
        <3>5. QED BY <1>2, <2>1, <3>2, <3>3, <3>4 DEF Value
    <2>8. QED BY <2>4, <2>6, <2>7 DEF GeneratorInv
<1>5. QED BY <1>3, <1>4 DEF DrawElement

LEMMA ReturnKeepsInv == GeneratorInv /\ Return => GeneratorInv'
<1> SUFFICES ASSUME GeneratorInv, Return PROVE GeneratorInv'
    OBVIOUS
<1>1. GeneratorTypeOK'
    BY DEF GeneratorInv, Return, GeneratorTypeOK
<1>2. SavedInv'
    BY DEF GeneratorInv, Return, SavedInv
<1>3. SeededInv'
    BY NoCallAssumption DEF Return, SeededInv
<1>4. QED BY <1>1, <1>2, <1>3 DEF GeneratorInv

LEMMA GeneratorInvStep == GeneratorInv /\ [GeneratorStep]_generatorVars => GeneratorInv'
<1> SUFFICES ASSUME GeneratorInv, [GeneratorStep]_generatorVars PROVE GeneratorInv'
    OBVIOUS
<1>1. CASE BeginOwn
    BY <1>1, BeginOwnKeepsInv
<1>2. CASE \E seed \in Seeds : BeginSeeded(seed)
    BY <1>2, BeginSeededKeepsInv
<1>3. CASE DrawElement
    BY <1>3, DrawElementKeepsInv
<1>4. CASE Return
    BY <1>4, ReturnKeepsInv
<1>5. CASE UNCHANGED generatorVars
    BY <1>5 DEF GeneratorInv, generatorVars, GeneratorTypeOK, SavedInv, SeededInv
<1>6. QED BY <1>1, <1>2, <1>3, <1>4, <1>5 DEF GeneratorStep

-----------------------------------------------------------------------------

\* The elements of a seeded vector are those of its seed, whatever was
\* generated before it, when the number of dimensions is even
\* (vector_generator.cpp:30-33 and 51-54).
THEOREM SeededVectors == GeneratorSpec => []SeedDeterminesVector
<1>1. GeneratorInv => SeedDeterminesVector
    <2>1. SUFFICES ASSUME GeneratorInv, IsEven(Dimensions), call = "seeded",
                          Len(target) = Dimensions
          PROVE  target = FirstValues([seed |-> engine.seed, pairs |-> 0], Dimensions)
        BY DEF SeedDeterminesVector, IsEven
    <2>2. target \in Seq(Randoms) /\ Dimensions \in Nat
        BY <2>1, DimensionsAssumption DEF GeneratorInv, GeneratorTypeOK
    <2>3. \A i \in 1..Dimensions : target[i] =
            [seed |-> engine.seed, pair |-> 0 + ((i - 1) \div 2), half |-> (i - 1) % 2]
        BY <2>1, <2>2 DEF GeneratorInv, SeededInv
    <2>4. QED BY <2>1, <2>2, <2>3 DEF FirstValues
<1>2. QED BY <1>1, GeneratorInvInit, GeneratorInvStep, PTL DEF GeneratorSpec

-----------------------------------------------------------------------------
(* The server and its parts.                                                 *)

\* A flat tuple of variables is unchanged when the tuples of a part are.
LEMMA JobVarsUnchanged == UNCHANGED jobVars => UNCHANGED JC!vars
BY DEF jobVars, JC!vars, JC!clientVars, JC!trackerVars, JC!promiseVars, JC!updaterVars, JC!lifeVars

LEMMA WorkVarsUnchanged == UNCHANGED workVars => UNCHANGED WC!vars
BY DEF workVars, WC!vars, WC!chunkVars, WC!callVars, WC!workerVars, WC!replyVars

-----------------------------------------------------------------------------

\* Each step of the server is a step of the generator, or leaves it alone.
LEMMA GeneratorSteps == [Next]_vars => [GeneratorStep]_generatorVars
<1> SUFFICES ASSUME [Next]_vars PROVE [GeneratorStep]_generatorVars
    OBVIOUS
<1>1. CASE MainStep
    <2>1. CASE BeginVector
        BY <2>1 DEF BeginVector, GeneratorStep
    <2>2. CASE Draw
        BY <2>2 DEF Draw, GeneratorStep
    <2>3. CASE EndVector \/ EndQueryVector
        BY <2>3 DEF EndVector, EndQueryVector, GeneratorStep
    <2>4. CASE BeginQueryVector
        BY <2>4, ServerAssumption DEF BeginQueryVector, GeneratorStep
    <2>5. CASE ~(BeginVector \/ Draw \/ EndVector \/ EndQueryVector \/ BeginQueryVector)
        <3>1. UNCHANGED generatorVars
            BY <1>1, <2>5 DEF MainStep, Construct, AllocateChunk, AssignChunk, DealChunks,
                QueryStep, ExecutorStep, GetResult, CountResults, ReleaseChunk, StopJobs,
                StopWorkers, ReturnCode
        <3>2. QED BY <3>1
    <2>6. QED BY <2>1, <2>2, <2>3, <2>4, <2>5
<1>2. CASE UpdateThreadStep \/ UpdateThreadTimeout \/ \E w \in WC!Workers : WorkerThreadStep(w)
    BY <1>2 DEF UpdateThreadStep, UpdateThreadTimeout, WorkerThreadStep
<1>3. CASE UNCHANGED vars
    BY <1>3 DEF vars
<1>4. QED BY <1>1, <1>2, <1>3 DEF Next

\* Each step of the server is a step of its job coordinator, or leaves it alone.
LEMMA JobSteps == [Next]_vars => [JC!Next]_(JC!vars)
<1> SUFFICES ASSUME [Next]_vars, ~UNCHANGED jobVars PROVE JC!Next
    BY JobVarsUnchanged
<1>1. ~HasEnded
    BY DEF Next, vars
<1>2. crash = "none"
    BY <1>1 DEF HasEnded
<1>3. CASE MainStep
    <2>1. CASE QueryStep
        BY <1>2, <2>1 DEF QueryStep, JC!Next
    <2>2. CASE StopJobs
        BY <1>2, <2>2 DEF StopJobs, JC!Next
    <2>3. CASE ~(QueryStep \/ StopJobs)
        <3>1. UNCHANGED jobVars
            BY <1>3, <2>3 DEF MainStep, Construct, AllocateChunk, AssignChunk, DealChunks,
                BeginVector, Draw, EndVector, BeginQueryVector, EndQueryVector,
                ExecutorStep, GetResult, CountResults, ReleaseChunk, StopWorkers, ReturnCode
        <3>2. QED BY <3>1
    <2>4. QED BY <2>1, <2>2, <2>3
<1>4. CASE UpdateThreadStep
    BY <1>2, <1>4 DEF UpdateThreadStep, JC!Next
<1>5. CASE UpdateThreadTimeout
    BY <1>2, <1>5 DEF UpdateThreadTimeout, JC!Next
<1>6. CASE \E w \in WC!Workers : WorkerThreadStep(w)
    BY <1>6 DEF WorkerThreadStep
<1>7. CASE UNCHANGED vars
    BY <1>7 DEF vars
<1>8. QED BY <1>3, <1>4, <1>5, <1>6, <1>7 DEF Next

\* The chunks of the chunk manager are chunks, and one is there to be assigned.
ManagedInv ==
    /\ managed \in Seq(Chunks)
    /\ server = "assigning" => managed # <<>>

LEMMA ManagedInit == Init => ManagedInv
BY DEF Init, ManagedInv

LEMMA ManagedStep == ManagedInv /\ [Next]_vars => ManagedInv'
<1> SUFFICES ASSUME ManagedInv, [Next]_vars PROVE ManagedInv'
    OBVIOUS
<1>1. CASE MainStep
    <2>1. CASE AllocateChunk
        <3>1. PICK c \in Chunks : managed' = Append(managed, c)
            BY <2>1 DEF AllocateChunk
        <3>2. QED BY <3>1 DEF ManagedInv
    <2>2. CASE ReleaseChunk
        BY <2>2 DEF ReleaseChunk, ManagedInv
    <2>3. CASE ~(AllocateChunk \/ ReleaseChunk)
        <3>1. managed' = managed /\ (server' = server \/ server' # "assigning")
            BY <1>1, <2>3 DEF MainStep, Construct, AssignChunk, DealChunks, BeginVector, Draw,
                EndVector, BeginQueryVector, EndQueryVector, QueryStep, ExecutorStep, GetResult,
                CountResults, StopJobs, StopWorkers, ReturnCode, serverVars
        <3>2. QED BY <3>1 DEF ManagedInv
    <2>4. QED BY <2>1, <2>2, <2>3
<1>2. CASE UpdateThreadStep \/ UpdateThreadTimeout \/ \E w \in WC!Workers : WorkerThreadStep(w)
    BY <1>2 DEF UpdateThreadStep, UpdateThreadTimeout, WorkerThreadStep, serverVars, ManagedInv
<1>3. CASE UNCHANGED vars
    BY <1>3 DEF vars, serverVars, ManagedInv
<1>4. QED BY <1>1, <1>2, <1>3 DEF Next

\* Each step of the server is a step of its workers, or leaves them alone.
LEMMA WorkSteps == ManagedInv /\ [Next]_vars => [WC!Next]_(WC!vars)
<1> SUFFICES ASSUME ManagedInv, [Next]_vars, ~UNCHANGED workVars PROVE WC!Next
    BY WorkVarsUnchanged
<1>1. CASE MainStep
    <2>1. CASE AssignChunk
        <3>1. Last(managed) \in Chunks
            BY <2>1 DEF AssignChunk, ManagedInv, Last
        <3>2. QED BY <2>1, <3>1 DEF AssignChunk, WC!Next
    <2>2. CASE ReleaseChunk
        <3>1. Head(managed) \in Chunks
            BY <2>2 DEF ReleaseChunk, ManagedInv
        <3>2. QED BY <2>2, <3>1 DEF ReleaseChunk, WC!Next
    <2>3. CASE DealChunks
        BY <2>3 DEF DealChunks, WC!Next
    <2>4. CASE ExecutorStep
        BY <2>4 DEF ExecutorStep, WC!Next
    <2>5. CASE StopWorkers
        BY <2>5 DEF StopWorkers, WC!Next
    <2>6. CASE ~(AssignChunk \/ ReleaseChunk \/ DealChunks \/ ExecutorStep \/ StopWorkers)
        <3>1. UNCHANGED workVars
            BY <1>1, <2>6 DEF MainStep, Construct, AllocateChunk, BeginVector, Draw, EndVector,
                BeginQueryVector, EndQueryVector, QueryStep, GetResult, CountResults, StopJobs,
                ReturnCode
        <3>2. QED BY <3>1
    <2>7. QED BY <2>1, <2>2, <2>3, <2>4, <2>5, <2>6
<1>2. CASE \E w \in WC!Workers : WorkerThreadStep(w)
    BY <1>2 DEF WorkerThreadStep, WC!Next
<1>3. CASE UpdateThreadStep \/ UpdateThreadTimeout \/ UNCHANGED vars
    BY <1>3 DEF UpdateThreadStep, UpdateThreadTimeout, vars
<1>4. QED BY <1>1, <1>2, <1>3 DEF Next

-----------------------------------------------------------------------------

\* The query vector of the server is that of its seed, whatever vectors were
\* generated before it (server.cpp:76).
THEOREM QueryIsReproducible == Spec => []SeedDeterminesVector
<1>1. Init => GeneratorInit
    BY DEF Init
<1>2. Spec => GeneratorSpec
    BY <1>1, GeneratorSteps, PTL DEF Spec, GeneratorSpec
<1>3. QED BY <1>2, SeededVectors

\* The server implements the specification of the job coordinator: the calls
\* of its main thread, its update thread and its destructors are among those
\* that JobCoordinator allows (server.cpp:79-125).
THEOREM ServerUsesJobs == Spec => JC!Spec
<1>1. Init => JC!Init
    BY DEF Init
<1>2. QED BY <1>1, JobSteps, PTL DEF Spec, JC!Spec

\* The server implements the specification of the worker threads: it assigns
\* chunks, fills them, queries and releases them as WorkerCoordinator allows
\* (server.cpp:28-125, local_executor_t.cpp:28-33).
THEOREM ServerUsesWorkers == Spec => WC!Spec
<1>1. Init => WC!Init
    BY DEF Init
<1>2. QED BY <1>1, ManagedInit, ManagedStep, WorkSteps, PTL DEF Spec, WC!Spec

-----------------------------------------------------------------------------
(* What is proved of the parts for every client, for the server.  JP and WP  *)
(* are JC and WC with their theorems.                                        *)

JP == INSTANCE JobCoordinator_proofs WITH
    Jobs <- {Job}, ExecutorCount <- 1, InstanceOf <- <<"this process">>, KindOf <- <<"local">>,
    DeferredAnswers <- {}, InsertMayThrow <- FALSE, CarriesResult <- {"succeeded"}

WP == INSTANCE WorkerCoordinator_proofs WITH
    WorkerCount <- OrDefault(HardwareConcurrency), Queries <- {Job}, NoQuery <- NullInfo,
    cursor <- workerCursor

LEMMA SameJobs == JC!Spec <=> JP!Spec
<1>1. (JC!Init <=> JP!Init) /\ (JC!Next <=> JP!Next)
    BY DEF JC!Next, JP!Next, JC!Stopped, JP!Stopped, JC!vars, JP!vars, JC!lifeVars, JP!lifeVars,
       JC!updaterVars, JP!updaterVars, JC!promiseVars, JP!promiseVars, JC!trackerVars,
       JP!trackerVars, JC!clientVars, JP!clientVars, JC!Executors, JP!Executors, JC!Join,
       JP!Join, JC!Infos, JP!Infos, JC!NotifyNull, JP!NotifyNull, JC!Notify, JP!Notify,
       JC!StoreShutdown, JP!StoreShutdown, JC!UpdaterStep, JP!UpdaterStep, JC!LoopCondition,
       JP!LoopCondition, JC!FinishUpdates, JP!FinishUpdates, JC!UpdateTerminates,
       JP!UpdateTerminates, JC!PublishingThrows, JP!PublishingThrows, JC!ReadyToPublish,
       JP!ReadyToPublish, JC!IsReady, JP!IsReady, JC!UpdatePublishes, JP!UpdatePublishes,
       JC!Outcome, JP!Outcome, JC!UpdateReturnsEarly, JP!UpdateReturnsEarly, JC!Unlock,
       JP!Unlock, JC!EmptyBag, JP!EmptyBag, JC!TornIterator, JP!TornIterator, JC!EndTornTest,
       JP!EndTornTest, JC!EndTest, JP!EndTest, JC!LookUp, JP!LookUp, JC!CheckShutdown,
       JP!CheckShutdown, JC!Dequeue, JP!Dequeue, JC!Batches, JP!Batches, JC!DequeueTimeout,
       JP!DequeueTimeout, JC!DeferredStep, JP!DeferredStep, JC!DeferredAnnounce,
       JP!DeferredAnnounce, JC!DeferredAnswer, JP!DeferredAnswer, JC!ClientStep, JP!ClientStep,
       JC!AnnounceAddingComplete, JP!AnnounceAddingComplete, JC!StoreAddingComplete,
       JP!StoreAddingComplete, JC!DropCallback, JP!DropCallback, JC!NextExecutor,
       JP!NextExecutor, JC!HandOver, JP!HandOver, JC!AnnounceLocally, JP!AnnounceLocally,
       JC!ProcessLocally, JP!ProcessLocally, JC!EndInsertResult, JP!EndInsertResult,
       JC!InsertResultThrows, JP!InsertResultThrows,
       JC!BeginInsertResult, JP!BeginInsertResult, JC!BeingTested, JP!BeingTested,
       JC!FutureAlreadyRetrieved, JP!FutureAlreadyRetrieved, JC!InsertThrows, JP!InsertThrows,
       JC!ReadLocked, JP!ReadLocked, JC!InsertJob, JP!InsertJob, JC!FoldFunction,
       JP!FoldFunction, JC!FoldFunctionOnSet, JP!FoldFunctionOnSet, JC!MapThenFoldSet,
       JP!MapThenFoldSet, JC!Init, JP!Init, JC!NoOutcome, JP!NoOutcome
<1>2. UNCHANGED JC!vars <=> UNCHANGED JP!vars
    BY DEF JC!vars, JP!vars, JC!clientVars, JP!clientVars, JC!trackerVars, JP!trackerVars,
           JC!promiseVars, JP!promiseVars, JC!updaterVars, JP!updaterVars, JC!lifeVars, JP!lifeVars
<1>3. [JC!Next]_(JC!vars) <=> [JP!Next]_(JP!vars)
    BY <1>1, <1>2
<1>4. JC!Init <=> JP!Init
    BY <1>1
<1>5. QED BY <1>3, <1>4, PTL DEF JC!Spec, JP!Spec

LEMMA SameWorkers == WC!Spec <=> WP!Spec
<1>1. (WC!Init <=> WP!Init) /\ (WC!Next <=> WP!Next)
    BY DEF WC!Next, WP!Next, WC!Stopped, WP!Stopped, WC!vars, WP!vars, WC!replyVars, WP!replyVars,
       WC!workerVars, WP!workerVars, WC!callVars, WP!callVars, WC!chunkVars, WP!chunkVars,
       WC!DestroyNext, WP!DestroyNext, WC!Workers, WP!Workers, WC!IsCalling, WP!IsCalling,
       WC!WorkerStep, WP!WorkerStep, WC!EndScan, WP!EndScan, WC!IsStopping, WP!IsStopping,
       WC!ScanChunk, WP!ScanChunk, WC!BeginScan, WP!BeginScan, WC!ExitAfterTimeout,
       WP!ExitAfterTimeout, WC!DequeueCommand, WP!DequeueCommand, WC!CallerStep, WP!CallerStep,
       WC!Finish, WP!Finish, WC!ReduceNext, WP!ReduceNext, WC!StartGathering,
       WP!StartGathering, WC!EnqueueCommand, WP!EnqueueCommand, WC!MayLookLoaded,
       WP!MayLookLoaded, WC!SkipWorker, WP!SkipWorker, WC!MayLookEmpty, WP!MayLookEmpty,
       WC!Process, WP!Process, WC!DealToNext, WP!DealToNext, WC!Disturb, WP!Disturb, WC!Deal,
       WP!Deal, WC!Share, WP!Share, WC!Remainder, WP!Remainder, WC!SortedByAddress,
       WP!SortedByAddress, WC!Address, WP!Address, WC!Expire, WP!Expire, WC!AssignChunk,
       WP!AssignChunk, WC!WithoutExpired, WP!WithoutExpired, WC!NoReader, WP!NoReader,
       WC!Range, WP!Range, WC!Bijection, WP!Bijection, WC!Injection, WP!Injection,
       WC!Surjection, WP!Surjection, WC!IsInjective, WP!IsInjective, WC!Cardinality,
       WP!Cardinality, WC!Init, WP!Init
<1>2. UNCHANGED WC!vars <=> UNCHANGED WP!vars
    BY DEF WC!vars, WP!vars, WC!chunkVars, WP!chunkVars, WC!callVars, WP!callVars,
           WC!workerVars, WP!workerVars, WC!replyVars, WP!replyVars
<1>3. [WC!Next]_(WC!vars) <=> [WP!Next]_(WP!vars)
    BY <1>1, <1>2
<1>4. WC!Init <=> WP!Init
    BY <1>1
<1>5. QED BY <1>3, <1>4, PTL DEF WC!Spec, WP!Spec

\* The assumptions of the job coordinator hold for the server: it has one
\* local executor.
LEMMA JobConstants ==
    /\ NullInfo \notin {Job} /\ 1 \in Nat /\ DOMAIN <<"this process">> = JP!Executors
    /\ <<"local">> \in [JP!Executors -> JP!Kinds] /\ {} \subseteq JP!Completions
    /\ MaxDequeue \in Nat \ {0} /\ FALSE \in BOOLEAN
    /\ {"succeeded"} \subseteq JP!Completions /\ "succeeded" \in {"succeeded"}
    /\ JP!NoFaults /\ JP!DistinctInstances
BY ServerAssumption
   DEF JP!Executors, JP!Kinds, JP!Completions, JP!NoFaults, JP!DistinctInstances

\* So do those of the worker thread coordinator.
LEMMA WorkConstants ==
    /\ OrDefault(HardwareConcurrency) \in Nat \ {0}
    /\ Chunks \subseteq Nat \ {0}
    /\ NullInfo \notin {Job}
BY ServerAssumption, CountsAssumption DEF OrDefault

JobFacts ==
    /\ JP!TypeOK /\ JP!CursorInv
    /\ JP!LifeInv
    /\ JP!ResultInv
    /\ JP!NullNeverLookedUp
    /\ JP!NeverTerminates

WorkFacts ==
    /\ WP!TypeOK
    /\ WP!CommandInv
    /\ WP!EverySlotCounted

LEMMA JobFactsHold == Spec => []JobFacts
<1>1. JP!Spec => [](JP!TypeOK /\ JP!CursorInv)
    BY JobConstants, JP!TypeCorrect DEF JP!TypeCorrect
<1>2. JP!Spec => []JP!LifeInv
    BY JobConstants, JP!LifeInvariant DEF JP!LifeInvariant
<1>3. JP!Spec => []JP!ResultInv
    BY JobConstants, JP!ResultInvariant DEF JP!ResultInvariant
<1>4. JP!Spec => []JP!NullNeverLookedUp
    BY JobConstants, JP!NullSafety DEF JP!NullSafety
<1>5. JP!Spec => []JP!NeverTerminates
    BY JobConstants, JP!Terminationless DEF JP!Terminationless
<1>6. QED BY <1>1, <1>2, <1>3, <1>4, <1>5, ServerUsesJobs, SameJobs, PTL DEF JobFacts

LEMMA WorkFactsHold == Spec => []WorkFacts
<1>1. WP!Spec => []WP!TypeOK
    BY WorkConstants, WP!TypesCorrect DEF WP!TypesCorrect
<1>2. WP!Spec => []WP!CommandInv
    BY WorkConstants, WP!CommandInvariant DEF WP!CommandInvariant
<1>3. WP!Spec => []WP!EverySlotCounted
    BY WorkConstants, WP!SlotsCounted DEF WP!SlotsCounted
<1>4. QED BY <1>1, <1>2, <1>3, ServerUsesWorkers, SameWorkers, PTL DEF WorkFacts

-----------------------------------------------------------------------------
(* The main function around the server.                                      *)

LEMMA RemainderOfMultiple ==
    ASSUME NEW n \in Nat, NEW v \in Nat \ {0}
    PROVE  (n * v) % v = 0
<1> DEFINE m == n * v
           q == m \div v
           r == m % v
<1>1. m \in Nat /\ q \in Nat /\ r \in 0..(v - 1) /\ m = v * q + r
    OBVIOUS
<1>2. CASE n = q
    BY <1>1, <1>2
<1>3. CASE n < q
    <2>1. n + 1 <= q
        BY <1>1, <1>3
    <2>2. v * (n + 1) <= v * q
        BY <1>1, <2>1
    <2>3. QED BY <1>1, <2>2
<1>4. CASE n > q
    <2>1. q + 1 <= n
        BY <1>1, <1>4
    <2>2. v * (q + 1) <= v * n
        BY <1>1, <2>1
    <2>3. QED BY <1>1, <2>2
<1>5. QED BY <1>1, <1>2, <1>3, <1>4

LEMMA Multiples ==
    ASSUME NEW a \in Int, NEW b \in Int, NEW c \in Int
    PROVE  /\ a * b \in Int
           /\ (a * b) * c = (a * c) * b
           /\ (a * b) * c = a * (b * c)
           /\ a * c - b * c = (a - b) * c
OBVIOUS

\* Whatever the option says, the size of a chunk is a multiple of a vector's,
\* even when the product wraps around.
LEMMA ChunkSizeDivides ==
    ASSUME NEW mb \in Nat
    PROVE  ChunkSize(mb) % VectorBytes = 0
<1> DEFINE k == Megabyte \div VectorBytes
           l == SizeModulus \div Megabyte
           q == (mb * Megabyte) \div SizeModulus
<1>1. Megabyte \in Nat \ {0} /\ VectorBytes \in Nat \ {0} /\ SizeModulus \in Nat \ {0}
    BY SizesAssumption
<1>2. k \in Nat /\ l \in Nat /\ q \in Nat /\ mb * Megabyte \in Nat
    BY <1>1
<1>3. Megabyte = k * VectorBytes
    BY <1>1, SizesAssumption
<1>4. SizeModulus = l * Megabyte
    BY <1>1, SizesAssumption
<1>5. ChunkSize(mb) \in Nat /\ mb * Megabyte = SizeModulus * q + ChunkSize(mb)
    BY <1>1, <1>2 DEF ChunkSize
<1> HIDE DEF k, l, q
<1>6. ChunkSize(mb) = (mb - l * q) * Megabyte
    <2>1. SizeModulus * q = (l * q) * Megabyte
        BY <1>1, <1>2, <1>4, Multiples
    <2>2. l * q \in Nat
        BY <1>2
    <2>3. mb * Megabyte - (l * q) * Megabyte = (mb - l * q) * Megabyte
        BY <1>1, <2>2, Multiples
    <2>4. ChunkSize(mb) = mb * Megabyte - SizeModulus * q
        BY <1>1, <1>2, <1>5
    <2>5. QED BY <2>1, <2>3, <2>4
<1>7. mb - l * q \in Nat
    <2>1. SUFFICES ASSUME mb - l * q < 0 PROVE FALSE
        BY <1>2
    <2>2. (mb - l * q) * Megabyte < 0
        BY <2>1, <1>1, <1>2
    <2>3. QED BY <2>2, <1>5, <1>6
<1>8. ChunkSize(mb) = ((mb - l * q) * k) * VectorBytes
    <2>1. mb - l * q \in Int
        BY <1>2
    <2>2. (mb - l * q) * (k * VectorBytes) = ((mb - l * q) * k) * VectorBytes
        <3>1. ASSUME NEW x \in Int, NEW y \in Int, NEW z \in Int
              PROVE  x * (y * z) = (x * y) * z
            BY Multiples
        <3>2. QED BY <2>1, <3>1, <1>1, <1>2
    <2>3. QED BY <2>2, <1>3, <1>6
<1>9. (mb - l * q) * k \in Nat
    BY <1>2, <1>7
<1>10. QED BY <1>1, <1>8, <1>9, RemainderOfMultiple

\* What main is doing, and what it did when it has exited.
MainInv ==
    /\ main \in Places
    /\ options \in BenchmarkOptions \union {NoOptions}
    /\ concurrency \in Nat
    /\ rounds \in 0..(Kinds * VariantCount)
    /\ exitCode \in Nat
    /\ main \in {"parsing", "configuring", "choosing"} => concurrency = 0
    /\ main \in {"benchmark", "initializing", "rounds", "server"} => concurrency > 0
    /\ main \in {"benchmark", "initializing", "rounds"} => options.parsed
    /\ main = "server" => ~options.parsed
    /\ server # "absent" => ~options.parsed /\ main \in {"server", "exited", "terminated"}
    /\ main = "exited" /\ server # "absent" => server = "returned"
    /\ main = "exited" /\ server = "absent" /\ exitCode = 0 /\ concurrency > 0 =>
        options.parsed /\ rounds = Kinds * VariantCount

LEMMA RoundCount == Kinds * VariantCount \in Nat
BY CountsAssumption DEF Kinds

LEMMA MainInit == Init => MainInv
BY RoundCount DEF Init, ApplicationInit, MainInv, Places

LEMMA OptionsAreNumbers ==
    ASSUME options \in BenchmarkOptions \union {NoOptions}
    PROVE  options.workers \in Nat /\ options.chunkSizeMb \in Nat
<1>1. CASE options \in BenchmarkOptions
    <2>1. options.workers \in WorkerCounts /\ options.chunkSizeMb \in ChunkSizesMb
        BY <1>1 DEF BenchmarkOptions
    <2>2. WorkerCounts \subseteq Nat /\ ChunkSizesMb \subseteq Nat
        BY CountsAssumption
    <2>3. QED BY <2>1, <2>2
<1>2. CASE options = NoOptions
    BY <1>2 DEF NoOptions
<1>3. QED BY <1>1, <1>2

LEMMA MainApplication == ASSUME MainInv, ApplicationStep, UNCHANGED server PROVE MainInv'
<1> USE CountsAssumption, RoundCount DEF MainInv, Places
<1>1. CASE RefuseCommandLine
    BY <1>1 DEF RefuseCommandLine, Exit
<1>2. CASE ParseOptions
    BY <1>2 DEF ParseOptions, ReadVerbosity
<1>3. CASE ConfigureLogging
    BY <1>3 DEF ConfigureLogging, Exit
<1>4. CASE StartBenchmark
    <2>1. concurrency' \in Nat /\ concurrency' > 0
        <3>1. concurrency' = OrDefault(IF options.workers > 0 THEN options.workers
                                       ELSE HardwareConcurrency)
            BY <1>4 DEF StartBenchmark
        <3>2. QED BY <3>1, OptionsAreNumbers DEF OrDefault
    <2>2. QED BY <1>4, <2>1 DEF StartBenchmark
<1>5. CASE StartServer
    <2>1. concurrency' \in Nat /\ concurrency' > 0
        BY <1>5 DEF StartServer, OrDefault
    <2>2. QED BY <1>5, <2>1 DEF StartServer
<1>6. CASE CheckChunkSize
    <2>1. options.parsed /\ main = "benchmark"
        BY <1>6 DEF CheckChunkSize
    <2>2. options.chunkSizeMb \in Nat
        BY OptionsAreNumbers
    <2>3. ChunkSize(options.chunkSizeMb) % VectorBytes = 0
        BY <2>2, ChunkSizeDivides
    <2>4. main' = "initializing" /\ UNCHANGED <<options, concurrency, rounds, exitCode>>
        BY <1>6, <2>3 DEF CheckChunkSize
    <2>5. QED BY <2>1, <2>4
<1>7. CASE InitializeVectors
    BY <1>7 DEF InitializeVectors
<1>8. CASE RunRound
    <2>1. rounds' \in 0..(Kinds * VariantCount)
        BY <1>8 DEF RunRound
    <2>2. QED BY <1>8, <2>1 DEF RunRound
<1>9. CASE FinishBenchmark
    BY <1>9 DEF FinishBenchmark, Exit
<1>10. QED BY <1>1, <1>2, <1>3, <1>4, <1>5, <1>6, <1>7, <1>8, <1>9 DEF ApplicationStep

LEMMA MainStepKeeps == MainInv /\ returnCode \in {0, 1} /\ [Next]_vars => MainInv'
<1> SUFFICES ASSUME MainInv, returnCode \in {0, 1}, [Next]_vars PROVE MainInv'
    OBVIOUS
<1>1. CASE ApplicationStep /\ UNCHANGED serverVars
    BY <1>1, MainApplication DEF serverVars
<1>2. CASE Construct
    BY <1>2 DEF Construct, MainInv, applicationVars
<1>3. CASE CountResults
    BY <1>3 DEF CountResults, MainInv, Places
<1>4. CASE ReturnCode
    BY <1>4 DEF ReturnCode, ReturnFromServer, Exit, MainInv, Places, serverVars
<1>5. CASE UNCHANGED applicationVars /\ server # "absent" /\ server # "returned" /\ server' # "absent"
    BY <1>5 DEF MainInv, applicationVars
<1>6. CASE UNCHANGED applicationVars /\ UNCHANGED server
    BY <1>6 DEF MainInv, applicationVars
<1>7. CASE MainStep
    BY <1>1, <1>2, <1>3, <1>4, <1>5, <1>6, <1>7
       DEF MainStep, AllocateChunk, AssignChunk, DealChunks, BeginVector, Draw, EndVector,
           BeginQueryVector, EndQueryVector, QueryStep, ExecutorStep, GetResult, ReleaseChunk,
           StopJobs, StopWorkers, serverVars
<1>8. CASE UpdateThreadStep \/ UpdateThreadTimeout \/ \E w \in WC!Workers : WorkerThreadStep(w)
    BY <1>6, <1>8 DEF UpdateThreadStep, UpdateThreadTimeout, WorkerThreadStep, serverVars
<1>9. CASE UNCHANGED vars
    BY <1>6, <1>9 DEF vars, serverVars
<1>10. QED BY <1>7, <1>8, <1>9 DEF Next

-----------------------------------------------------------------------------
(* The chunks of the server and the vectors in them.                         *)

ServerTypes ==
    /\ server \in ServerPlaces
    /\ managed \in Seq(Chunks) /\ IsInjective(managed)
    /\ written \in [Chunks -> 0..SlotsPerChunk]
    /\ remaining \in 0..SlotsPerChunk
    /\ vectorIdx \in 0..NumVectors
    /\ queryVector \in Seq(Randoms)
    /\ returnCode \in {0, 1}

IsGenerating == server \in {"absent", "generating", "assigning", "dealing", "filling"}

\* The slots of the last chunk that are not written yet.
Room == IF server = "filling" THEN remaining + 1 ELSE remaining

\* While vectors are generated every chunk but the last is full, the rest of
\* the last and of the others is empty, and none was allocated without need.
FillInv ==
    IsGenerating =>
        /\ Room <= SlotsPerChunk
        /\ vectorIdx + Room = Len(managed) * SlotsPerChunk
        /\ \A i \in 1..Len(managed) : written[managed[i]] =
            IF i = Len(managed) THEN SlotsPerChunk - Room ELSE SlotsPerChunk
        /\ \A c \in Chunks : c \notin Range(managed) => written[c] = 0
        /\ managed # <<>> => (Len(managed) - 1) * SlotsPerChunk < NumVectors
        /\ server = "filling" => vectorIdx < NumVectors
        /\ server \in {"assigning", "dealing", "filling"} => managed # <<>>

\* From then on until they are released, the chunks hold the vectors they should.
FilledInv ==
    server \in {"drawing_query", "querying", "waiting", "counting"} =>
        \A i \in 1..Len(managed) : written[managed[i]] = VectorsOf(i)

ChunksInv == ServerTypes /\ FillInv /\ FilledInv

LEMMA ChunksInit == Init => ChunksInv
BY ServerAssumption
   DEF Init, ChunksInv, ServerTypes, FillInv, FilledInv, IsGenerating, Room, ServerPlaces, IsInjective

\* What a step that leaves the chunks and their vectors alone has to show.
LEMMA ChunksFrame ==
    ASSUME ChunksInv,
           UNCHANGED <<managed, written, remaining, vectorIdx>>,
           queryVector' \in Seq(Randoms), returnCode' \in {0, 1}, server' \in ServerPlaces,
           IsGenerating' => IsGenerating /\ server # "filling" /\ server' # "filling"
                            /\ (server' \in {"assigning", "dealing"} => managed # <<>>),
           server' \in {"drawing_query", "querying", "waiting", "counting"} =>
                server \in {"drawing_query", "querying", "waiting", "counting"}
    PROVE  ChunksInv'
<1>1. ServerTypes'
    BY DEF ChunksInv, ServerTypes
<1>2. FillInv'
    BY DEF ChunksInv, FillInv, Room
<1>3. FilledInv'
    BY DEF ChunksInv, FilledInv, VectorsOf
<1>4. QED BY <1>1, <1>2, <1>3 DEF ChunksInv

LEMMA ChunksAllocate == ChunksInv /\ AllocateChunk => ChunksInv'
<1> SUFFICES ASSUME ChunksInv, AllocateChunk PROVE ChunksInv'
    OBVIOUS
<1>1. PICK c \in Chunks \ Range(managed) : managed' = Append(managed, c)
    BY DEF AllocateChunk
<1>2. /\ server = "generating" /\ server' = "assigning" /\ vectorIdx < NumVectors
      /\ remaining = 0 /\ remaining' = SlotsPerChunk
      /\ UNCHANGED <<written, vectorIdx, queryVector, returnCode>>
    BY DEF AllocateChunk
<1> DEFINE n == Len(managed)
<1>3. /\ managed \in Seq(Chunks) /\ n \in Nat /\ DOMAIN managed = 1..n
      /\ IsInjective(managed) /\ written \in [Chunks -> 0..SlotsPerChunk]
      /\ SlotsPerChunk \in Nat \ {0} /\ NumVectors \in Nat /\ vectorIdx \in Nat
    BY ServerAssumption DEF ChunksInv, ServerTypes
<1>4. /\ managed' \in Seq(Chunks) /\ Len(managed') = n + 1 /\ DOMAIN managed' = 1..(n + 1)
      /\ managed'[n + 1] = c /\ managed' # <<>>
      /\ \A i \in 1..n : managed'[i] = managed[i] /\ managed[i] # c
    BY <1>1, <1>3 DEF Range
<1>5. IsInjective(managed')
    BY <1>3, <1>4 DEF IsInjective
<1>6. ServerTypes'
    BY <1>2, <1>3, <1>4, <1>5 DEF ChunksInv, ServerTypes, ServerPlaces
<1>7. /\ vectorIdx = n * SlotsPerChunk
      /\ \A i \in 1..n : written[managed[i]] = SlotsPerChunk
      /\ \A d \in Chunks : d \notin Range(managed) => written[d] = 0
    BY <1>2, <1>3 DEF ChunksInv, FillInv, IsGenerating, Room
<1>8. FillInv'
    <2>1. Room' = SlotsPerChunk
        BY <1>2 DEF Room
    <2>2. (n + 1) * SlotsPerChunk = n * SlotsPerChunk + SlotsPerChunk /\ n * SlotsPerChunk \in Nat
        BY <1>3
    <2>3. vectorIdx' + Room' = Len(managed') * SlotsPerChunk
        BY <1>2, <1>3, <1>4, <1>7, <2>1, <2>2
    <2>4. (Len(managed') - 1) * SlotsPerChunk < NumVectors
        BY <1>2, <1>3, <1>4, <1>7
    <2>5. \A d \in Chunks : d \notin Range(managed') => written'[d] = 0
        BY <1>2, <1>3, <1>4, <1>7 DEF Range
    <2>6. \A i \in 1..Len(managed') : written'[managed'[i]] =
            IF i = Len(managed') THEN SlotsPerChunk - Room' ELSE SlotsPerChunk
        <3>1. written[c] = 0
            BY <1>1, <1>7
        <3>2. ASSUME NEW i \in 1..(n + 1)
              PROVE  written[managed'[i]] = IF i = n + 1 THEN 0 ELSE SlotsPerChunk
            BY <3>1, <1>3, <1>4, <1>7
        <3>3. SlotsPerChunk - Room' = 0
            BY <1>3, <2>1
        <3>4. QED BY <3>2, <3>3, <1>2, <1>4
    <2>7. QED BY <1>2, <1>3, <1>4, <2>1, <2>3, <2>4, <2>5, <2>6 DEF FillInv
<1>9. FilledInv'
    BY <1>2 DEF FilledInv
<1>10. QED BY <1>6, <1>8, <1>9 DEF ChunksInv

LEMMA ChunksBeginVector == ChunksInv /\ BeginVector => ChunksInv'
<1> SUFFICES ASSUME ChunksInv, BeginVector PROVE ChunksInv'
    OBVIOUS
<1>1. /\ server = "generating" /\ server' = "filling" /\ vectorIdx < NumVectors
      /\ remaining > 0 /\ remaining' = remaining - 1
      /\ UNCHANGED <<managed, written, vectorIdx, queryVector, returnCode>>
    BY DEF BeginVector
<1>2. /\ SlotsPerChunk \in Nat \ {0} /\ remaining \in 0..SlotsPerChunk /\ vectorIdx \in Nat
      /\ managed \in Seq(Chunks)
    BY ServerAssumption DEF ChunksInv, ServerTypes
<1>3. Room' = Room /\ Room = remaining
    BY <1>1, <1>2 DEF Room
<1>4. ServerTypes'
    BY <1>1, <1>2 DEF ChunksInv, ServerTypes, ServerPlaces
<1>5. managed # <<>>
    <2>1. vectorIdx + remaining = Len(managed) * SlotsPerChunk
        BY <1>1, <1>3 DEF ChunksInv, FillInv, IsGenerating
    <2>2. managed = <<>> => Len(managed) * SlotsPerChunk = 0
        BY <1>2
    <2>3. QED BY <1>1, <1>2, <2>1, <2>2
<1>6. FillInv'
    BY <1>1, <1>3, <1>5 DEF ChunksInv, FillInv, IsGenerating
<1>7. FilledInv'
    BY <1>1 DEF FilledInv
<1>8. QED BY <1>4, <1>6, <1>7 DEF ChunksInv

LEMMA ChunksEndVector == ChunksInv /\ EndVector => ChunksInv'
<1> SUFFICES ASSUME ChunksInv, EndVector PROVE ChunksInv'
    OBVIOUS
<1> DEFINE n == Len(managed)
<1>1. /\ server = "filling" /\ server' = "generating" /\ vectorIdx' = vectorIdx + 1
      /\ written' = [written EXCEPT ![Last(managed)] = @ + 1]
      /\ UNCHANGED <<managed, remaining, queryVector, returnCode>>
    BY DEF EndVector
<1>2. /\ SlotsPerChunk \in Nat \ {0} /\ remaining \in 0..SlotsPerChunk /\ vectorIdx \in Nat
      /\ NumVectors \in Nat /\ n \in Nat /\ managed \in Seq(Chunks) /\ DOMAIN managed = 1..n
      /\ IsInjective(managed) /\ written \in [Chunks -> 0..SlotsPerChunk]
    BY ServerAssumption DEF ChunksInv, ServerTypes
<1>3. /\ Room = remaining + 1 /\ Room <= SlotsPerChunk
      /\ vectorIdx + Room = n * SlotsPerChunk
      /\ vectorIdx < NumVectors /\ managed # <<>>
    BY <1>1 DEF ChunksInv, FillInv, IsGenerating, Room
<1>4. /\ \A i \in 1..n : written[managed[i]] = IF i = n THEN SlotsPerChunk - Room ELSE SlotsPerChunk
      /\ \A c \in Chunks : c \notin Range(managed) => written[c] = 0
      /\ (n - 1) * SlotsPerChunk < NumVectors
    BY <1>1, <1>3 DEF ChunksInv, FillInv, IsGenerating
<1>5. n \in 1..n /\ Last(managed) = managed[n] /\ managed[n] \in Chunks
    <2>1. n # 0
        BY <1>2, <1>3
    <2>2. QED BY <2>1, <1>2 DEF Last
<1>6. Room' = remaining
    BY <1>1 DEF Room
<1> DEFINE full == managed[n]
<1>7. /\ full \in Chunks /\ written' = [written EXCEPT ![full] = @ + 1]
      /\ written[full] = SlotsPerChunk - Room /\ written[full] + 1 = SlotsPerChunk - remaining
      /\ \A i \in 1..n : managed[i] \in Chunks /\ (managed[i] = full => i = n)
    <2>1. written[full] = SlotsPerChunk - Room
        BY <1>4, <1>5
    <2>2. written[full] + 1 = SlotsPerChunk - remaining
        BY <2>1, <1>2, <1>3
    <2>3. ASSUME NEW i \in 1..n PROVE managed[i] \in Chunks /\ (managed[i] = full => i = n)
        <3>1. managed[i] \in Chunks
            BY <1>2
        <3>2. \A a, b \in DOMAIN managed : managed[a] = managed[b] => a = b
            BY <1>2 DEF IsInjective
        <3>3. QED BY <3>1, <3>2, <1>2, <1>5
    <2>4. QED BY <2>1, <2>2, <2>3, <1>1, <1>5
<1>8. ServerTypes'
    <2>1. written' \in [Chunks -> 0..SlotsPerChunk]
        <3>1. written[full] + 1 \in 0..SlotsPerChunk
            <4>1. SlotsPerChunk - remaining \in 0..SlotsPerChunk
                BY <1>2
            <4>2. QED BY <4>1, <1>7
        <3>2. QED BY <3>1, <1>2, <1>7
    <2>2. vectorIdx' \in 0..NumVectors
        BY <1>1, <1>2, <1>3
    <2>3. QED BY <2>1, <2>2, <1>1 DEF ChunksInv, ServerTypes, ServerPlaces
<1>9. FillInv'
    <2>1. \A i \in 1..n : written'[managed[i]] =
            IF i = n THEN SlotsPerChunk - Room' ELSE SlotsPerChunk
        BY <1>2, <1>4, <1>6, <1>7
    <2>2. \A c \in Chunks : c \notin Range(managed) => written'[c] = 0
        <3>1. full \in Range(managed)
            BY <1>2, <1>5 DEF Range
        <3>2. QED BY <3>1, <1>2, <1>4, <1>7
    <2>3. vectorIdx' + Room' = n * SlotsPerChunk
        <3>1. vectorIdx' + Room' = vectorIdx + Room
            BY <1>1, <1>2, <1>3, <1>6
        <3>2. QED BY <3>1, <1>3
    <2>4. Room' <= SlotsPerChunk
        BY <1>2, <1>6
    <2>5. QED BY <1>1, <1>4, <2>1, <2>2, <2>3, <2>4 DEF FillInv
<1>10. FilledInv'
    BY <1>1 DEF FilledInv
<1>11. QED BY <1>8, <1>9, <1>10 DEF ChunksInv

LEMMA ChunksBeginQuery == ChunksInv /\ BeginQueryVector => ChunksInv'
<1> SUFFICES ASSUME ChunksInv, BeginQueryVector PROVE ChunksInv'
    OBVIOUS
<1> DEFINE n == Len(managed)
<1>1. /\ server = "generating" /\ server' = "drawing_query" /\ vectorIdx = NumVectors
      /\ UNCHANGED <<managed, written, remaining, vectorIdx, queryVector, returnCode>>
    BY DEF BeginQueryVector
<1>2. /\ SlotsPerChunk \in Nat \ {0} /\ remaining \in 0..SlotsPerChunk /\ NumVectors \in Nat
      /\ n \in Nat
    BY ServerAssumption DEF ChunksInv, ServerTypes
<1>3. /\ NumVectors + remaining = n * SlotsPerChunk
      /\ \A i \in 1..n : written[managed[i]] =
            IF i = n THEN SlotsPerChunk - remaining ELSE SlotsPerChunk
      /\ managed # <<>> => (n - 1) * SlotsPerChunk < NumVectors
    BY <1>1 DEF ChunksInv, FillInv, IsGenerating, Room
<1>4. ASSUME NEW i \in 1..n PROVE written[managed[i]] = VectorsOf(i)
    <2>1. i \in Nat \ {0} /\ i <= n /\ managed # <<>> /\ i * SlotsPerChunk \in Nat
          /\ (n - 1) * SlotsPerChunk \in Nat
        BY <1>2
    <2>2. CASE i = n
        <3>1. (n - 1) * SlotsPerChunk + SlotsPerChunk = n * SlotsPerChunk
            BY <1>2
        <3>2. QED BY <1>2, <1>3, <2>1, <2>2, <3>1 DEF VectorsOf
    <2>3. CASE i < n
        <3>1. i * SlotsPerChunk <= (n - 1) * SlotsPerChunk
            <4>1. i <= n - 1 /\ n - 1 \in Nat
                BY <1>2, <2>1, <2>3
            <4>2. QED BY <4>1, <1>2, <2>1
        <3>2. i * SlotsPerChunk <= NumVectors
            BY <3>1, <1>2, <1>3, <2>1
        <3>3. QED BY <3>2, <1>3, <2>3 DEF VectorsOf
    <2>4. QED BY <1>2, <2>1, <2>2, <2>3
<1>5. ServerTypes'
    BY <1>1 DEF ChunksInv, ServerTypes, ServerPlaces
<1>6. FillInv' /\ FilledInv'
    BY <1>1, <1>4 DEF FillInv, FilledInv, IsGenerating, VectorsOf
<1>7. QED BY <1>5, <1>6 DEF ChunksInv

LEMMA ChunksRelease == ChunksInv /\ ReleaseChunk => ChunksInv'
<1> SUFFICES ASSUME ChunksInv, ReleaseChunk PROVE ChunksInv'
    OBVIOUS
<1>1. /\ server = "releasing" /\ server' = server /\ managed # <<>> /\ managed' = Tail(managed)
      /\ UNCHANGED <<written, remaining, vectorIdx, queryVector, returnCode>>
    BY DEF ReleaseChunk
<1>2. managed \in Seq(Chunks) /\ IsInjective(managed)
    BY DEF ChunksInv, ServerTypes
<1>3. /\ managed' \in Seq(Chunks) /\ DOMAIN managed = 1..Len(managed)
      /\ DOMAIN managed' = 1..(Len(managed) - 1)
      /\ \A i \in 1..(Len(managed) - 1) : managed'[i] = managed[i + 1] /\ i + 1 \in DOMAIN managed
    BY <1>1, <1>2
<1>4. IsInjective(managed')
    <2>1. SUFFICES ASSUME NEW a \in 1..(Len(managed) - 1), NEW b \in 1..(Len(managed) - 1),
                          managed'[a] = managed'[b]
                   PROVE  a = b
        BY <1>3 DEF IsInjective
    <2>2. managed[a + 1] = managed[b + 1] /\ a + 1 \in DOMAIN managed /\ b + 1 \in DOMAIN managed
        BY <1>3, <2>1
    <2>3. a + 1 = b + 1
        BY <1>2, <2>2 DEF IsInjective
    <2>4. QED BY <2>3
<1>5. ServerTypes'
    BY <1>1, <1>3, <1>4 DEF ChunksInv, ServerTypes
<1>6. FillInv' /\ FilledInv'
    BY <1>1 DEF FillInv, FilledInv, IsGenerating
<1>7. QED BY <1>5, <1>6 DEF ChunksInv

LEMMA ChunksStep == ChunksInv /\ GeneratorTypeOK /\ [Next]_vars => ChunksInv'
<1> SUFFICES ASSUME ChunksInv, GeneratorTypeOK, [Next]_vars PROVE ChunksInv'
    OBVIOUS
<1>0. /\ queryVector \in Seq(Randoms) /\ returnCode \in {0, 1} /\ server \in ServerPlaces
      /\ target \in Seq(Randoms)
    BY DEF ChunksInv, ServerTypes, GeneratorTypeOK
<1>1. CASE UNCHANGED serverVars
    BY <1>1 DEF serverVars, ChunksInv, ServerTypes, FillInv, FilledInv, IsGenerating, Room,
        VectorsOf
<1>2. CASE Construct
    BY <1>0, <1>2, ChunksFrame DEF Construct, IsGenerating, ServerPlaces
<1>3. CASE AssignChunk
    <2>1. server = "assigning" /\ server' = "dealing" /\ managed # <<>>
        BY <1>3 DEF AssignChunk, ChunksInv, FillInv, IsGenerating
    <2>2. QED BY <1>0, <1>3, <2>1, ChunksFrame DEF AssignChunk, IsGenerating, ServerPlaces
<1>4. CASE DealChunks
    <2>1. server = "dealing" /\ server' \in {"generating", "dealing"} /\ managed # <<>>
        BY <1>4 DEF DealChunks, ChunksInv, FillInv, IsGenerating
    <2>2. QED BY <1>0, <1>4, <2>1, ChunksFrame DEF DealChunks, IsGenerating, ServerPlaces
<1>5. CASE EndQueryVector
    BY <1>0, <1>5, ChunksFrame DEF EndQueryVector, IsGenerating, ServerPlaces
<1>6. CASE QueryStep
    <2>1. server = "querying" /\ server' \in {"querying", "waiting"}
        BY <1>6 DEF QueryStep
    <2>2. QED BY <1>0, <1>6, <2>1, ChunksFrame DEF QueryStep, IsGenerating, ServerPlaces
<1>7. CASE GetResult
    <2>1. /\ server = "waiting" /\ server' \in {"counting", "releasing"} /\ returnCode' \in {0, 1}
          /\ UNCHANGED <<managed, written, remaining, vectorIdx, queryVector>>
        BY <1>0, <1>7 DEF GetResult
    <2>2. QED BY <1>0, <2>1, ChunksFrame DEF IsGenerating, ServerPlaces
<1>8. CASE CountResults
    <2>1. /\ server = "counting" /\ server' \in {"counting", "releasing"}
          /\ UNCHANGED <<managed, written, remaining, vectorIdx, queryVector, returnCode>>
        BY <1>8 DEF CountResults
    <2>2. QED BY <1>0, <2>1, ChunksFrame DEF IsGenerating, ServerPlaces
<1>9. CASE StopJobs
    <2>1. server \in {"releasing", "stopping_jobs"} /\ server' \in {"stopping_workers", "stopping_jobs"}
        BY <1>9 DEF StopJobs
    <2>2. QED BY <1>0, <1>9, <2>1, ChunksFrame DEF StopJobs, IsGenerating, ServerPlaces
<1>10. CASE StopWorkers
    <2>1. server = "stopping_workers" /\ server' \in {"stopping_workers", "returned"}
        BY <1>10 DEF StopWorkers
    <2>2. QED BY <1>0, <1>10, <2>1, ChunksFrame DEF StopWorkers, IsGenerating, ServerPlaces
<1>11. CASE AllocateChunk
    BY <1>11, ChunksAllocate
<1>12. CASE BeginVector
    BY <1>12, ChunksBeginVector
<1>13. CASE EndVector
    BY <1>13, ChunksEndVector
<1>14. CASE BeginQueryVector
    BY <1>14, ChunksBeginQuery
<1>15. CASE ReleaseChunk
    BY <1>15, ChunksRelease
<1>16. CASE MainStep
    BY <1>1, <1>2, <1>3, <1>4, <1>5, <1>6, <1>7, <1>8, <1>9, <1>10, <1>11, <1>12, <1>13, <1>14,
       <1>15, <1>16
       DEF MainStep, Draw, ExecutorStep, ReturnCode
<1>17. CASE UpdateThreadStep \/ UpdateThreadTimeout \/ \E w \in WC!Workers : WorkerThreadStep(w)
    BY <1>1, <1>17 DEF UpdateThreadStep, UpdateThreadTimeout, WorkerThreadStep
<1>18. CASE UNCHANGED vars
    BY <1>1, <1>18 DEF vars
<1>19. QED BY <1>16, <1>17, <1>18 DEF Next

-----------------------------------------------------------------------------
(* The query of the server.                                                  *)

IsCalling == caller[Job] \in {"dispatching", "gathering"}

\* The executor runs only inside query, query only between the vectors and the
\* wait for the result, and the executor has called back before the query goes
\* on.
PlaceInv ==
    /\ server \in {"absent", "generating", "assigning", "dealing", "filling", "drawing_query"} =>
        client[Job] = "idle" /\ caller[Job] = "idle" /\ destructor = "alive"
    /\ server = "querying" => client[Job] # "returned"
    /\ server \in {"waiting", "counting", "releasing", "stopping_jobs", "stopping_workers",
                   "returned"} => client[Job] = "returned"
    /\ IsCalling => client[Job] = "dispatching"
    /\ client[Job] = "announcing" \/ cursor[Job] # 1 => caller[Job] = "done"

\* Nobody is notified of the job before its only executor has answered: the map
\* of its results is not read while it changes.
UntornInv ==
    /\ cursor[Job] = 1 => signals[Job] = 0 /\ batch[Job] = 0 /\ current # Job
    /\ ~torn
    /\ crash = "none"

\* The local executor answers with `succeeded' only.
AnswerInv == slot[Job][1] \in {"none", "pending", "succeeded"}

QueryInv == PlaceInv /\ UntornInv /\ AnswerInv

LEMMA QueryInit == Init => QueryInv
<1> SUFFICES ASSUME Init PROVE QueryInv
    OBVIOUS
<1>1. server = "absent" /\ caller[Job] = "idle"
    BY DEF Init, WC!Init
<1>2. /\ client[Job] = "idle" /\ destructor = "alive" /\ cursor[Job] = 1
      /\ signals[Job] = 0 /\ batch[Job] = 0 /\ current = NullInfo /\ ~torn /\ crash = "none"
      /\ slot[Job][1] = "none"
    BY DEF Init, JC!Init, JC!EmptyBag, JC!Infos, JC!Executors
<1>3. QED BY <1>1, <1>2, ServerAssumption
             DEF QueryInv, PlaceInv, UntornInv, AnswerInv, IsCalling

LEMMA JobTypes ==
    ASSUME JobFacts
    PROVE  /\ client \in [{Job} -> JP!ClientPlaces] /\ cursor \in [{Job} -> 1..2]
           /\ jobs \subseteq {Job}
           /\ slot \in [{Job} -> [{1} -> JP!Slots]]
           /\ signals \in [{Job, NullInfo} -> Nat] /\ batch \in [{Job, NullInfo} -> 0..MaxDequeue]
           /\ client[Job] \in {"inserting", "dispatching", "announcing"} => cursor[Job] = 1
           /\ client[Job] \in {"completing", "returned"} => cursor[Job] # 1
           /\ client[Job] # "failing" /\ (client[Job] = "idle" => cursor[Job] = 1)
<1>1. JP!Executors = {1} /\ JP!Infos = {Job, NullInfo}
    BY DEF JP!Executors, JP!Infos
<1>2. 1 + 1 = 2
    OBVIOUS
<1>3. QED BY <1>1, <1>2 DEF JobFacts, JP!TypeOK, JP!CursorInv, JP!LifeInv, JP!PromiseInv

\* What a step of the query may do.
LEMMA ClientMoves ==
    ASSUME JobFacts, JC!ClientStep(Job)
    PROVE  /\ client[Job] # "returned" /\ client'[Job] # "idle"
           /\ UNCHANGED destructor
           /\ client'[Job] = "announcing" => client[Job] = "dispatching"
           /\ client'[Job] = "dispatching" => client[Job] # "dispatching"
           /\ \/ cursor' = cursor
              \/ client[Job] = "announcing"
<1> USE JobTypes DEF JC!clientVars, JC!trackerVars, JC!promiseVars, JC!updaterVars, JC!lifeVars,
        JC!Executors
<1>1. CASE JC!InsertJob(Job) BY <1>1 DEF JC!InsertJob
<1>2. CASE JC!InsertThrows(Job) BY <1>2 DEF JC!InsertThrows
<1>3. CASE JC!FutureAlreadyRetrieved(Job) BY <1>3 DEF JC!FutureAlreadyRetrieved
<1>4. CASE JC!BeginInsertResult(Job) BY <1>4 DEF JC!BeginInsertResult
<1>5. CASE JC!EndInsertResult(Job) BY <1>5 DEF JC!EndInsertResult
<1>6. CASE JC!ProcessLocally(Job) BY <1>6 DEF JC!ProcessLocally
<1>7. CASE JC!AnnounceLocally(Job) BY <1>7 DEF JC!AnnounceLocally, JC!NextExecutor
<1>8. CASE JC!HandOver(Job) BY <1>8 DEF JC!HandOver
<1>9. CASE JC!DropCallback(Job) BY <1>9 DEF JC!DropCallback
<1>10. CASE JC!StoreAddingComplete(Job) BY <1>10 DEF JC!StoreAddingComplete
<1>11. CASE JC!AnnounceAddingComplete(Job) BY <1>11 DEF JC!AnnounceAddingComplete
<1>12. CASE JC!InsertResultThrows(Job) BY <1>12 DEF JC!InsertResultThrows
<1>13. QED BY <1>1, <1>2, <1>3, <1>4, <1>5, <1>6, <1>7, <1>8, <1>9, <1>10, <1>11, <1>12
              DEF JC!ClientStep

LEMMA PlaceStep == JobFacts /\ WorkFacts /\ PlaceInv /\ [Next]_vars => PlaceInv'
<1> SUFFICES ASSUME JobFacts, WorkFacts, PlaceInv, [Next]_vars PROVE PlaceInv'
    OBVIOUS
<1> DEFINE callState == <<client, cursor, caller, destructor>>
<1>1. CASE UNCHANGED callState /\ UNCHANGED server
    BY <1>1 DEF PlaceInv, IsCalling
<1>2. CASE \/ ApplicationStep /\ UNCHANGED <<serverVars, generatorVars, jobVars, workVars>>
           \/ Construct \/ AllocateChunk \/ BeginVector \/ Draw \/ EndVector
           \/ BeginQueryVector \/ EndQueryVector \/ GetResult \/ CountResults \/ ReturnCode
    <2>1. UNCHANGED callState
        BY <1>2
           DEF Construct, AllocateChunk, BeginVector, Draw, EndVector, BeginQueryVector,
               EndQueryVector, GetResult, CountResults, ReturnCode, jobVars, workVars
    <2>2. CASE UNCHANGED server
        BY <1>1, <2>1, <2>2
    <2>3. CASE Construct \/ AllocateChunk \/ BeginVector \/ EndVector \/ BeginQueryVector
        <3>1. /\ server \in {"absent", "generating", "filling"}
              /\ server' \in {"generating", "assigning", "filling", "drawing_query"}
            BY <2>3 DEF Construct, AllocateChunk, BeginVector, EndVector, BeginQueryVector
        <3>2. QED BY <2>1, <3>1 DEF PlaceInv, IsCalling
    <2>4. CASE EndQueryVector
        BY <2>1, <2>4 DEF EndQueryVector, PlaceInv, IsCalling
    <2>5. CASE GetResult \/ CountResults
        <3>1. /\ server \in {"waiting", "counting"}
              /\ server' \in {"counting", "releasing"}
            BY <2>5 DEF GetResult, CountResults
        <3>2. QED BY <2>1, <3>1 DEF PlaceInv, IsCalling
    <2>6. QED
        BY <1>2, <2>2, <2>3, <2>4, <2>5 DEF Draw, ReturnCode, serverVars
<1>3. CASE AssignChunk \/ DealChunks \/ StopWorkers \/ ReleaseChunk
    <2>1. UNCHANGED callState
        BY <1>3
           DEF AssignChunk, DealChunks, StopWorkers, ReleaseChunk, jobVars, WC!AssignChunk,
               WC!DealToNext, WC!DestroyNext, WC!Expire, WC!callVars, WC!chunkVars
    <2>2. \/ /\ server \in {"assigning", "dealing"}
             /\ server' \in {"generating", "dealing"}
          \/ /\ server \in {"releasing", "stopping_workers"}
             /\ server' \in {"releasing", "stopping_workers", "returned"}
        BY <1>3 DEF AssignChunk, DealChunks, StopWorkers, ReleaseChunk
    <2>3. QED BY <2>1, <2>2 DEF PlaceInv, IsCalling
<1>4. CASE QueryStep
    <2>1. /\ server = "querying" /\ ~ExecutorRuns /\ JC!ClientStep(Job) /\ caller' = caller
          /\ server' = IF client'[Job] = "returned" THEN "waiting" ELSE "querying"
        BY <1>4 DEF QueryStep, workVars
    <2>2. ~IsCalling
        BY <2>1 DEF PlaceInv, IsCalling, ExecutorRuns
    <2>3. client[Job] = "dispatching" => caller[Job] = "done"
        BY <2>1 DEF ExecutorRuns
    <2>4. QED BY <2>1, <2>2, <2>3, ClientMoves DEF PlaceInv, IsCalling
<1>5. CASE ExecutorStep
    <2>1. /\ server = "querying" /\ server' = server /\ client[Job] = "dispatching"
          /\ UNCHANGED <<client, cursor, destructor>>
        BY <1>5 DEF ExecutorStep, ExecutorRuns, serverVars, jobVars
    <2>2. cursor[Job] = 1
        BY <2>1, JobTypes
    <2>3. QED BY <2>1, <2>2 DEF PlaceInv
<1>6. CASE StopJobs
    <2>1. server \in {"releasing", "stopping_jobs"} /\ server' \in {"stopping_jobs", "stopping_workers"}
        BY <1>6 DEF StopJobs
    <2>2. UNCHANGED <<client, cursor, caller>>
        BY <1>6 DEF StopJobs, JC!StoreShutdown, JC!NotifyNull, JC!Join, JC!clientVars, workVars
    <2>3. QED BY <2>1, <2>2 DEF PlaceInv, IsCalling
<1>7. CASE UpdateThreadStep \/ UpdateThreadTimeout
    <2>1. UNCHANGED callState
        BY <1>7
           DEF UpdateThreadStep, UpdateThreadTimeout, JC!UpdaterStep, JC!DequeueTimeout, JC!Dequeue,
               JC!CheckShutdown, JC!LookUp, JC!EndTest, JC!EndTornTest, JC!TornIterator, JC!Unlock,
               JC!UpdateReturnsEarly, JC!UpdatePublishes, JC!UpdateTerminates, JC!FinishUpdates,
               JC!LoopCondition, JC!clientVars, JC!lifeVars, workVars
    <2>2. server' = server
        BY <1>7 DEF UpdateThreadStep, UpdateThreadTimeout, serverVars
    <2>3. QED BY <1>1, <2>1, <2>2
<1>8. CASE \E w \in WC!Workers : WorkerThreadStep(w)
    <2>1. PICK w \in WC!Workers : WorkerThreadStep(w)
        BY <1>8
    <2>2. UNCHANGED callState
        BY <2>1
           DEF WorkerThreadStep, WC!WorkerStep, WC!DequeueCommand, WC!ExitAfterTimeout,
               WC!BeginScan, WC!ScanChunk, WC!EndScan, WC!callVars, jobVars
    <2>3. server' = server
        BY <2>1 DEF WorkerThreadStep, serverVars
    <2>4. QED BY <1>1, <2>2, <2>3
<1>9. CASE UNCHANGED vars
    BY <1>1, <1>9 DEF vars, serverVars, jobVars, workVars
<1>10. CASE MainStep
    BY <1>2, <1>3, <1>4, <1>5, <1>6, <1>10 DEF MainStep
<1>11. QED BY <1>7, <1>8, <1>9, <1>10 DEF Next

\* What a step of the query does to the bag, to the promise and to the map.
LEMMA ClientAnswers ==
    ASSUME JobFacts, JC!ClientStep(Job), UntornInv, AnswerInv, JP!NeverTerminates'
    PROVE  UntornInv' /\ AnswerInv'
<1> USE JobTypes
    DEF JC!clientVars, JC!trackerVars, JC!promiseVars, JC!updaterVars, JC!lifeVars, JC!Executors,
        UntornInv, AnswerInv, JP!NeverTerminates
<1>1. CASE JC!InsertJob(Job) BY <1>1 DEF JC!InsertJob
<1>2. CASE JC!InsertThrows(Job) BY <1>2 DEF JC!InsertThrows
<1>3. CASE JC!FutureAlreadyRetrieved(Job) BY <1>3 DEF JC!FutureAlreadyRetrieved
<1>4. CASE JC!BeginInsertResult(Job)
    <2>1. cursor[Job] = 1 /\ torn' = (torn \/ JC!BeingTested(Job))
        BY <1>4 DEF JC!BeginInsertResult
    <2>2. ~JC!BeingTested(Job)
        BY <2>1 DEF JC!BeingTested
    <2>3. QED BY <1>4, <2>1, <2>2 DEF JC!BeginInsertResult
<1>5. CASE JC!EndInsertResult(Job) BY <1>5 DEF JC!EndInsertResult
<1>6. CASE JC!ProcessLocally(Job) BY <1>6 DEF JC!ProcessLocally
<1>7. CASE JC!AnnounceLocally(Job) BY <1>7 DEF JC!AnnounceLocally, JC!NextExecutor
<1>8. CASE JC!HandOver(Job) BY <1>8 DEF JC!HandOver
<1>9. CASE JC!DropCallback(Job) BY <1>9 DEF JC!DropCallback
<1>10. CASE JC!StoreAddingComplete(Job) BY <1>10 DEF JC!StoreAddingComplete
<1>11. CASE JC!AnnounceAddingComplete(Job) BY <1>11 DEF JC!AnnounceAddingComplete, JC!Notify
<1>12. CASE JC!InsertResultThrows(Job) BY <1>12 DEF JC!InsertResultThrows
<1>13. QED BY <1>1, <1>2, <1>3, <1>4, <1>5, <1>6, <1>7, <1>8, <1>9, <1>10, <1>11, <1>12
              DEF JC!ClientStep

\* The update thread takes what is there, and finds nothing to test while the
\* query is with its executor.
LEMMA UpdaterAnswers ==
    ASSUME JobFacts, JC!UpdaterStep \/ JC!DequeueTimeout, UntornInv, AnswerInv,
           JP!NullNeverLookedUp', JP!NeverTerminates'
    PROVE  UntornInv' /\ AnswerInv'
<1> USE JobTypes, ServerAssumption
    DEF JC!clientVars, JC!trackerVars, JC!promiseVars, JC!updaterVars, JC!lifeVars, UntornInv, AnswerInv
<1>1. CASE JC!Dequeue
    <2>1. PICK b \in JC!Batches : batch' = b /\ signals' = [i \in JC!Infos |-> signals[i] - b[i]]
        BY <1>1 DEF JC!Dequeue
    <2>2. JC!Infos = {Job, NullInfo}
        BY DEF JC!Infos
    <2>3. b[Job] \in 0..MaxDequeue /\ b[Job] <= signals[Job] /\ signals'[Job] = signals[Job] - b[Job]
        BY <2>1, <2>2 DEF JC!Batches
    <2>4. signals[Job] = 0 => batch'[Job] = 0 /\ signals'[Job] = 0
        BY <2>1, <2>3
    <2>5. UNCHANGED <<cursor, current, torn, crash, slot>>
        BY <1>1 DEF JC!Dequeue
    <2>6. QED BY <2>4, <2>5
<1>2. CASE \E i \in JC!Infos : JC!LookUp(i)
    <2>1. PICK i \in JC!Infos : JC!LookUp(i)
        BY <1>2
    <2>2. i \in {Job, NullInfo} /\ batch[i] > 0 /\ batch' = [batch EXCEPT ![i] = @ - 1]
          /\ UNCHANGED <<cursor, signals, slot>>
        BY <2>1 DEF JC!LookUp, JC!Infos
    <2>3. cursor[Job] = 1 => i # Job /\ batch'[Job] = 0
        BY <2>2
    <2>4. i \in jobs => i = Job /\ cursor[Job] # 1
        BY <2>3
    <2>5. crash' = "none"
        BY <2>1 DEF JC!LookUp, JP!NullNeverLookedUp
    <2>6. CASE i \in jobs
        <3>1. current' = i /\ torn' = (client[i] = "inserting")
            BY <2>1, <2>6 DEF JC!LookUp
        <3>2. QED BY <2>2, <2>3, <2>4, <2>5, <2>6, <3>1
    <2>7. CASE i \notin jobs
        <3>1. UNCHANGED <<current, torn>>
            BY <2>1, <2>7 DEF JC!LookUp
        <3>2. QED BY <2>2, <2>3, <2>5, <3>1
    <2>8. QED BY <2>6, <2>7
<1>3. CASE JC!EndTest \/ JC!EndTornTest
    BY <1>3 DEF JC!EndTest, JC!EndTornTest
<1>4. CASE JC!TornIterator
    BY <1>4 DEF JC!TornIterator
<1>5. CASE JC!CheckShutdown \/ JC!Unlock \/ JC!FinishUpdates \/ JC!LoopCondition \/ JC!DequeueTimeout
    BY <1>5 DEF JC!CheckShutdown, JC!Unlock, JC!FinishUpdates, JC!LoopCondition, JC!DequeueTimeout
<1>6. CASE \E j \in {Job} : JC!UpdateReturnsEarly(j) \/ JC!UpdatePublishes(j) \/ JC!UpdateTerminates(j)
    BY <1>6 DEF JC!UpdateReturnsEarly, JC!UpdatePublishes, JC!UpdateTerminates, JP!NeverTerminates
<1>7. QED BY <1>1, <1>2, <1>3, <1>4, <1>5, <1>6 DEF JC!UpdaterStep

LEMMA DestructorAnswers ==
    ASSUME JobFacts, StopJobs, PlaceInv, UntornInv, AnswerInv
    PROVE  UntornInv' /\ AnswerInv'
<1>1. client[Job] = "returned" /\ cursor[Job] # 1
    BY JobTypes DEF StopJobs, PlaceInv
<1>2. UNCHANGED <<cursor, torn, crash, slot>>
    BY DEF StopJobs, JC!StoreShutdown, JC!NotifyNull, JC!Join, JC!clientVars, JC!trackerVars,
           JC!updaterVars
<1>3. QED BY <1>1, <1>2 DEF UntornInv, AnswerInv

LEMMA AnswersStep ==
    JobFacts /\ JobFacts' /\ PlaceInv /\ UntornInv /\ AnswerInv /\ [Next]_vars
        => UntornInv' /\ AnswerInv'
<1> SUFFICES ASSUME JobFacts, JobFacts', PlaceInv, UntornInv, AnswerInv, [Next]_vars
             PROVE  UntornInv' /\ AnswerInv'
    OBVIOUS
<1>1. JP!NullNeverLookedUp' /\ JP!NeverTerminates'
    BY DEF JobFacts
<1>2. CASE UNCHANGED jobVars
    BY <1>2 DEF jobVars, UntornInv, AnswerInv
<1>3. CASE QueryStep
    BY <1>1, <1>3, ClientAnswers DEF QueryStep
<1>4. CASE StopJobs
    BY <1>4, DestructorAnswers
<1>5. CASE UpdateThreadStep \/ UpdateThreadTimeout
    BY <1>1, <1>5, UpdaterAnswers DEF UpdateThreadStep, UpdateThreadTimeout
<1>6. CASE MainStep
    BY <1>2, <1>3, <1>4, <1>6
       DEF MainStep, Construct, AllocateChunk, AssignChunk, DealChunks, BeginVector, Draw,
           EndVector, BeginQueryVector, EndQueryVector, ExecutorStep, GetResult, CountResults,
           ReleaseChunk, StopWorkers, ReturnCode
<1>7. CASE \E w \in WC!Workers : WorkerThreadStep(w)
    BY <1>2, <1>7 DEF WorkerThreadStep
<1>8. CASE UNCHANGED vars
    BY <1>2, <1>8 DEF vars
<1>9. QED BY <1>5, <1>6, <1>7, <1>8 DEF Next

\* The only value the future of the server can get.
LEMMA OnlyAnswer ==
    ASSUME JobFacts, AnswerInv, promise[Job] = "value"
    PROVE  outcome[Job].completion = "succeeded" /\ outcome[Job].reduced = {1}
<1>1. JP!Executors = {1}
    BY DEF JP!Executors
<1>2. /\ slot[Job][1] \in JP!Completions \union {"skipped"} /\ slot[Job][1] # "skipped"
      /\ outcome[Job] = JP!Outcome(slot[Job], JP!Asked(Job))
    BY <1>1 DEF JobFacts, JP!ResultInv, JP!Published, JP!SkippedInv
<1>3. slot[Job][1] = "succeeded"
    BY <1>2 DEF AnswerInv, JP!Completions
<1>4. JP!Asked(Job) = {1}
    BY <1>1, <1>2 DEF JP!Asked
<1>5. QED BY <1>2, <1>3, <1>4 DEF JP!Outcome

-----------------------------------------------------------------------------
(* The results of the query.                                                 *)

IsReleasing == server \in {"releasing", "stopping_jobs", "stopping_workers", "returned"}

\* Nothing is assigned or released while the query runs, so that it is quiet,
\* and what it has counted stays true.
ResultsInv ==
    /\ ~IsReleasing => alive = Chunks
    /\ dealing # 0 <=> server = "dealing"
    /\ ~IsReleasing => Len(managed) = Len(chunks) + (IF server = "assigning" THEN 1 ELSE 0)
    /\ IsCalling => quiet[Job]
    /\ caller[Job] = "done" => Len(reduced[Job]) = Len(chunks)

\* A worker that is busy is busy with the query of the server.
BusyInv == \A w \in WC!Workers : worker[w] \in {"dequeued", "scanning"} => command[w] = Job

LEMMA ResultsInit == Init => ResultsInv /\ BusyInv
BY DEF Init, WC!Init, ResultsInv, BusyInv, IsReleasing, IsCalling

LEMMA WorkTypes ==
    ASSUME WorkFacts
    PROVE  /\ chunks \in Seq(Chunks) /\ Len(chunks) \in Nat
           /\ caller \in [{Job} -> WP!CallerPlaces] /\ quiet \in [{Job} -> BOOLEAN]
           /\ results \in [{Job} -> Seq(WP!Workers)] /\ reduced \in [{Job} -> Seq(Chunks)]
           /\ inbox \in [WP!Workers -> Seq({Job})] /\ worker \in [WP!Workers -> WP!WorkerPlaces]
           /\ command \in [WP!Workers -> {Job, NullInfo}]
           /\ WP!Workers = WC!Workers
BY DEF WorkFacts, WP!TypeOK, WP!Workers, WC!Workers

\* As long as no chunk is released, each call of assign_chunk adds one.
LEMMA AssignedLength ==
    ASSUME NEW s \in Seq(Chunks), alive = Chunks, NEW t \in WC!WithoutExpired(s)
    PROVE  Len(t) = Len(s)
<1>1. t \in WP!WithoutExpired(s)
    BY DEF WC!WithoutExpired, WP!WithoutExpired, WC!Cardinality, WP!Cardinality, WC!Bijection,
           WP!Bijection, WC!Injection, WP!Injection, WC!Surjection, WP!Surjection,
           WC!IsInjective, WP!IsInjective
<1>2. QED BY <1>1, WorkConstants, WP!NothingExpired DEF WP!NothingExpired

LEMMA ResultsAssign ==
    ASSUME WorkFacts, PlaceInv, ManagedInv, ResultsInv, AssignChunk
    PROVE  ResultsInv'
<1>1. /\ server = "assigning" /\ server' = "dealing" /\ alive' = alive /\ managed' = managed
      /\ dealing' = 1 /\ UNCHANGED <<caller, reduced>>
      /\ chunks' \in WC!WithoutExpired(Append(chunks, Last(managed)))
    BY DEF AssignChunk, WC!AssignChunk, WC!callVars
<1>2. alive = Chunks /\ Len(managed) = Len(chunks) + 1 /\ caller[Job] = "idle"
    BY <1>1 DEF ResultsInv, PlaceInv, IsReleasing
<1>3. Append(chunks, Last(managed)) \in Seq(Chunks)
      /\ Len(Append(chunks, Last(managed))) = Len(chunks) + 1
    <2>1. Last(managed) \in Chunks
        BY <1>1 DEF ManagedInv, Last
    <2>2. QED BY <2>1, WorkTypes
<1>4. Len(chunks') = Len(chunks) + 1
    BY <1>1, <1>2, <1>3, AssignedLength
<1>5. QED BY <1>1, <1>2, <1>4, WorkTypes DEF ResultsInv, IsReleasing, IsCalling

LEMMA ResultsDeal == ASSUME WorkFacts, PlaceInv, ResultsInv, DealChunks PROVE ResultsInv'
<1>1. /\ server = "dealing" /\ server' = (IF dealing' = 0 THEN "generating" ELSE "dealing")
      /\ managed' = managed /\ alive' = alive /\ UNCHANGED <<caller, reduced>>
      /\ chunks' \in IF dealing = 1 THEN WC!SortedByAddress(chunks) ELSE {chunks}
    BY DEF DealChunks, WC!DealToNext, WC!callVars
<1>2. /\ alive = Chunks /\ Len(managed) = Len(chunks) /\ caller[Job] = "idle"
    BY <1>1, WorkTypes DEF ResultsInv, PlaceInv, IsReleasing
<1>3. Len(chunks') = Len(chunks)
    BY <1>1, WorkTypes DEF WC!SortedByAddress
<1>4. QED BY <1>1, <1>2, <1>3, WorkTypes DEF ResultsInv, IsReleasing, IsCalling

LEMMA ResultsExecutor ==
    ASSUME JobFacts, WorkFacts, PlaceInv, ResultsInv, ExecutorStep
    PROVE  ResultsInv'
<1>1. /\ server = "querying" /\ UNCHANGED <<server, managed>> /\ ~IsReleasing
      /\ WC!Process(Job) \/ WC!CallerStep(Job)
    BY DEF ExecutorStep, serverVars, IsReleasing
<1>2. /\ alive = Chunks /\ dealing = 0 /\ Len(managed) = Len(chunks)
    BY <1>1, WorkTypes DEF ResultsInv
<1>3. UNCHANGED <<chunks, alive, dealing>>
    BY <1>1 DEF WC!Process, WC!CallerStep, WC!SkipWorker, WC!EnqueueCommand, WC!StartGathering,
                WC!ReduceNext, WC!Finish, WC!chunkVars
<1>4. CASE WC!Process(Job)
    <2>1. WC!Range(chunks) \subseteq alive
        BY <1>2, WorkTypes DEF WC!Range
    <2>2. quiet'[Job] /\ caller'[Job] = "dispatching"
        BY <1>2, <1>4, <2>1, WorkTypes DEF WC!Process
    <2>3. QED BY <1>1, <1>2, <1>3, <2>2 DEF ResultsInv, IsReleasing, IsCalling
<1>5. CASE WC!CallerStep(Job) /\ ~WC!Finish(Job)
    <2>1. quiet' = quiet /\ IsCalling /\ caller'[Job] # "done"
        BY <1>5, WorkTypes
           DEF WC!CallerStep, WC!SkipWorker, WC!EnqueueCommand, WC!StartGathering, WC!ReduceNext,
               IsCalling
    <2>2. QED BY <1>1, <1>2, <1>3, <2>1 DEF ResultsInv, IsReleasing
<1>6. CASE WC!Finish(Job)
    <2>1. /\ caller[Job] = "gathering" /\ results[Job] = <<>> /\ caller'[Job] = "done"
          /\ UNCHANGED <<reduced, quiet>>
        BY <1>6, WorkTypes DEF WC!Finish
    <2>2. quiet[Job]
        BY <2>1 DEF ResultsInv, IsCalling
    <2>3. Len(reduced[Job]) = Len(chunks)
        BY <2>1, <2>2 DEF WorkFacts, WP!EverySlotCounted, WP!IsCompleteAndQuiet
    <2>4. QED BY <1>1, <1>2, <1>3, <2>1, <2>3 DEF ResultsInv, IsReleasing, IsCalling
<1>7. QED BY <1>1, <1>4, <1>5, <1>6

LEMMA ResultsStep ==
    JobFacts /\ WorkFacts /\ PlaceInv /\ ManagedInv /\ ResultsInv /\ [Next]_vars => ResultsInv'
<1> SUFFICES ASSUME JobFacts, WorkFacts, PlaceInv, ManagedInv, ResultsInv, [Next]_vars
             PROVE  ResultsInv'
    OBVIOUS
<1> DEFINE counted == <<chunks, alive, dealing, caller, quiet, reduced>>
<1>1. CASE UNCHANGED counted /\ UNCHANGED <<server, managed>>
    BY <1>1 DEF ResultsInv, IsReleasing, IsCalling
<1>2. CASE Construct \/ BeginVector \/ EndVector \/ BeginQueryVector \/ EndQueryVector
           \/ QueryStep \/ GetResult \/ CountResults
    <2>1. /\ UNCHANGED counted /\ UNCHANGED managed /\ ~IsReleasing
          /\ server \notin {"assigning", "dealing"} /\ server' \notin {"assigning", "dealing"}
        BY <1>2 DEF Construct, BeginVector, EndVector, BeginQueryVector, EndQueryVector,
                    QueryStep, GetResult, CountResults, IsReleasing, workVars
    <2>2. QED BY <2>1 DEF ResultsInv, IsReleasing, IsCalling
<1>3. CASE StopJobs \/ StopWorkers
    <2>1. UNCHANGED counted /\ IsReleasing /\ IsReleasing'
        BY <1>3 DEF StopJobs, StopWorkers, WC!DestroyNext, WC!chunkVars, WC!callVars, IsReleasing,
                    workVars
    <2>2. QED BY <2>1 DEF ResultsInv, IsReleasing, IsCalling
<1>4. CASE AllocateChunk
    <2>1. PICK c \in Chunks : managed' = Append(managed, c)
        BY <1>4 DEF AllocateChunk
    <2>2. server = "generating" /\ server' = "assigning" /\ UNCHANGED counted
        BY <1>4 DEF AllocateChunk, workVars
    <2>3. Len(managed') = Len(managed) + 1
        BY <2>1 DEF ManagedInv
    <2>4. QED BY <2>2, <2>3, WorkTypes DEF ResultsInv, IsReleasing, IsCalling
<1>5. CASE ReleaseChunk
    <2>1. server = "releasing" /\ server' = server /\ UNCHANGED <<chunks, dealing, caller, reduced>>
        BY <1>5 DEF ReleaseChunk, WC!Expire, WC!callVars
    <2>2. ~IsCalling
        BY <2>1 DEF PlaceInv
    <2>3. QED BY <2>1, <2>2 DEF ResultsInv, IsReleasing, IsCalling
<1>6. CASE MainStep
    <2>1. CASE \/ ApplicationStep /\ UNCHANGED <<serverVars, generatorVars, jobVars, workVars>>
               \/ Draw \/ ReturnCode
        BY <1>1, <2>1 DEF Draw, ReturnCode, serverVars, workVars
    <2>2. QED
        BY <1>2, <1>3, <1>4, <1>5, <1>6, <2>1, ResultsAssign, ResultsDeal, ResultsExecutor
           DEF MainStep
<1>7. CASE UpdateThreadStep \/ UpdateThreadTimeout
    BY <1>1, <1>7 DEF UpdateThreadStep, UpdateThreadTimeout, serverVars, workVars
<1>8. CASE \E w \in WC!Workers : WorkerThreadStep(w)
    <2>1. PICK w \in WC!Workers : WorkerThreadStep(w)
        BY <1>8
    <2>2. UNCHANGED counted /\ UNCHANGED <<server, managed>>
        BY <2>1
           DEF WorkerThreadStep, WC!WorkerStep, WC!DequeueCommand, WC!ExitAfterTimeout,
               WC!BeginScan, WC!ScanChunk, WC!EndScan, WC!callVars, WC!chunkVars, serverVars
    <2>3. QED BY <1>1, <2>2
<1>9. CASE UNCHANGED vars
    BY <1>1, <1>9 DEF vars, serverVars, workVars
<1>10. QED BY <1>6, <1>7, <1>8, <1>9 DEF Next

LEMMA BusyStep == WorkFacts /\ BusyInv /\ [Next]_vars => BusyInv'
<1> SUFFICES ASSUME WorkFacts, BusyInv, [Next]_vars PROVE BusyInv'
    OBVIOUS
<1>1. CASE UNCHANGED <<worker, command>>
    BY <1>1 DEF BusyInv
<1>2. CASE \E w \in WC!Workers : WorkerThreadStep(w)
    <2>1. PICK w \in WC!Workers : WC!WorkerStep(w)
        BY <1>2 DEF WorkerThreadStep
    <2>2. CASE WC!DequeueCommand(w)
        <3>1. Head(inbox[w]) = Job
            <4>1. inbox[w] \in Seq({Job}) /\ inbox[w] # <<>>
                BY <2>2, WorkTypes DEF WC!DequeueCommand
            <4>2. QED BY <4>1
        <3>2. QED BY <2>1, <2>2, <3>1, WorkTypes DEF WC!DequeueCommand, BusyInv
    <2>3. CASE WC!ExitAfterTimeout(w)
        BY <2>1, <2>3, WorkTypes DEF WC!ExitAfterTimeout, BusyInv
    <2>4. CASE WC!BeginScan(w)
        BY <2>1, <2>4, WorkTypes DEF WC!BeginScan, BusyInv
    <2>5. CASE WC!ScanChunk(w)
        BY <2>5 DEF WC!ScanChunk, BusyInv
    <2>6. CASE WC!EndScan(w)
        BY <2>1, <2>6, WorkTypes DEF WC!EndScan, BusyInv
    <2>7. QED BY <2>1, <2>2, <2>3, <2>4, <2>5, <2>6 DEF WC!WorkerStep
<1>3. CASE MainStep
    BY <1>1, <1>3
       DEF MainStep, Construct, AllocateChunk, AssignChunk, DealChunks, BeginVector, Draw,
           EndVector, BeginQueryVector, EndQueryVector, QueryStep, ExecutorStep, GetResult,
           CountResults, ReleaseChunk, StopJobs, StopWorkers, ReturnCode, WC!AssignChunk,
           WC!DealToNext, WC!Process, WC!CallerStep, WC!SkipWorker, WC!EnqueueCommand,
           WC!StartGathering, WC!ReduceNext, WC!Finish, WC!Expire, WC!DestroyNext,
           WC!workerVars, workVars
<1>4. CASE UpdateThreadStep \/ UpdateThreadTimeout
    BY <1>1, <1>4 DEF UpdateThreadStep, UpdateThreadTimeout, workVars
<1>5. CASE UNCHANGED vars
    BY <1>1, <1>5 DEF vars, workVars
<1>6. QED BY <1>2, <1>3, <1>4, <1>5 DEF Next

-----------------------------------------------------------------------------
(* The theorems.                                                             *)

\* No step of the server fails: the future holds the one answer there can be,
\* and the assertion on the number of results is true.
SuccessInv ==
    /\ returnCode = 0
    /\ server # "absent" => main # "terminated"

\* When the query has returned, its results are counted.
LEMMA CountedWhenReturned ==
    ASSUME JobFacts, PlaceInv, ResultsInv, client[Job] = "returned"
    PROVE  caller[Job] = "done" /\ Len(reduced[Job]) = Len(chunks)
BY JobTypes DEF PlaceInv, ResultsInv

LEMMA SuccessStep ==
    JobFacts /\ WorkFacts /\ MainInv /\ PlaceInv /\ AnswerInv /\ ResultsInv /\ SuccessInv
        /\ [Next]_vars => SuccessInv'
<1> SUFFICES ASSUME JobFacts, WorkFacts, MainInv, PlaceInv, AnswerInv, ResultsInv, SuccessInv,
                    [Next]_vars
             PROVE  SuccessInv'
    OBVIOUS
<1>1. CASE UNCHANGED <<main, returnCode>> /\ (server' # "absent" => server # "absent")
    BY <1>1 DEF SuccessInv
<1>2. CASE ApplicationStep /\ UNCHANGED serverVars
    <2>1. main \notin {"server", "exited", "terminated"}
        BY <1>2 DEF ApplicationStep, RefuseCommandLine, ParseOptions, ConfigureLogging,
            StartBenchmark, StartServer, CheckChunkSize, InitializeVectors, RunRound,
            FinishBenchmark
    <2>2. server = "absent"
        BY <2>1 DEF MainInv
    <2>3. QED BY <1>2, <2>2 DEF SuccessInv, serverVars
<1>3. CASE Construct
    BY <1>3 DEF Construct, SuccessInv, applicationVars
<1>4. CASE GetResult
    <2>1. outcome[Job].completion = "succeeded" /\ outcome[Job].reduced = {1}
        BY <1>4, OnlyAnswer DEF GetResult
    <2>2. returnCode' = returnCode /\ main' = main /\ server # "absent"
        BY <1>4, <2>1 DEF GetResult, applicationVars
    <2>3. QED BY <2>2 DEF SuccessInv
<1>5. CASE CountResults
    <2>1. server = "counting"
        BY <1>5 DEF CountResults
    <2>2. client[Job] = "returned" /\ Len(managed) = Len(chunks)
        BY <2>1, WorkTypes DEF PlaceInv, ResultsInv, IsReleasing
    <2>3. Len(reduced[Job]) = Len(managed)
        BY <2>2, CountedWhenReturned
    <2>4. main' = main /\ returnCode' = returnCode
        BY <1>5, <2>3 DEF CountResults
    <2>5. QED BY <2>1, <2>4 DEF SuccessInv
<1>6. CASE ReturnCode
    BY <1>6 DEF ReturnCode, ReturnFromServer, Exit, SuccessInv, serverVars
<1>7. CASE MainStep
    BY <1>1, <1>2, <1>3, <1>4, <1>5, <1>6, <1>7
       DEF MainStep, AllocateChunk, AssignChunk, DealChunks, BeginVector, Draw, EndVector,
           BeginQueryVector, EndQueryVector, QueryStep, ExecutorStep, ReleaseChunk, StopJobs,
           StopWorkers, applicationVars, serverVars
<1>8. CASE UpdateThreadStep \/ UpdateThreadTimeout \/ \E w \in WC!Workers : WorkerThreadStep(w)
    BY <1>1, <1>8
       DEF UpdateThreadStep, UpdateThreadTimeout, WorkerThreadStep, applicationVars, serverVars
<1>9. CASE UNCHANGED vars
    BY <1>1, <1>9 DEF vars, applicationVars, serverVars
<1>10. QED BY <1>7, <1>8, <1>9 DEF Next

LEMMA GeneratorHolds == Spec => []GeneratorTypeOK
<1>1. Init => GeneratorInv
    BY GeneratorInvInit DEF Init
<1>2. GeneratorInv /\ [Next]_vars => GeneratorInv'
    BY GeneratorSteps, GeneratorInvStep
<1>3. GeneratorInv => GeneratorTypeOK
    BY DEF GeneratorInv
<1>4. QED BY <1>1, <1>2, <1>3, PTL DEF Spec

\* The invariant of the server.  What is known of its parts is not repeated in
\* it: JobFacts and WorkFacts hold in every behaviour of the server.
ServerInv ==
    /\ MainInv
    /\ ChunksInv
    /\ QueryInv
    /\ ManagedInv
    /\ ResultsInv
    /\ BusyInv
    /\ SuccessInv

LEMMA ServerInvInit == Init => ServerInv
<1>1. Init => SuccessInv
    BY DEF Init, SuccessInv
<1>2. QED BY <1>1, MainInit, ChunksInit, QueryInit, ManagedInit, ResultsInit DEF ServerInv

LEMMA ServerInvStep ==
    JobFacts /\ JobFacts' /\ WorkFacts /\ GeneratorTypeOK /\ ServerInv /\ [Next]_vars
        => ServerInv'
<1> SUFFICES ASSUME JobFacts, JobFacts', WorkFacts, GeneratorTypeOK, ServerInv, [Next]_vars
             PROVE  ServerInv'
    OBVIOUS
<1>1. /\ MainInv /\ ChunksInv /\ PlaceInv /\ UntornInv /\ AnswerInv /\ ManagedInv /\ ResultsInv
      /\ BusyInv /\ SuccessInv
    BY DEF ServerInv, QueryInv
<1>2. MainInv'
    <2>1. returnCode \in {0, 1}
        BY <1>1 DEF ChunksInv, ServerTypes
    <2>2. QED BY <1>1, <2>1, MainStepKeeps
<1>3. ChunksInv'
    BY <1>1, ChunksStep
<1>4. QueryInv'
    BY <1>1, PlaceStep, AnswersStep DEF QueryInv
<1>5. ManagedInv'
    BY <1>1, ManagedStep
<1>6. ResultsInv' /\ BusyInv'
    BY <1>1, ResultsStep, BusyStep
<1>7. SuccessInv'
    BY <1>1, SuccessStep
<1>8. QED BY <1>2, <1>3, <1>4, <1>5, <1>6, <1>7 DEF ServerInv

\* In every state that the server reaches, its own invariant holds and those of
\* the job coordinator, of the worker threads and of the generator.
THEOREM ServerInvariant ==
    Spec => [](ServerInv /\ JobFacts /\ WorkFacts /\ GeneratorTypeOK)
BY ServerInvInit, ServerInvStep, JobFactsHold, WorkFactsHold, GeneratorHolds, PTL DEF Spec

\* The main thread of the server never writes a chunk past its end
\* (server.cpp:64-65) nor has two chunks at one address; no variable of main,
\* run_server or the generator leaves its range.
THEOREM TypesCorrect == Spec => []TypeOK
<1>1. ServerInv /\ GeneratorTypeOK => TypeOK
    BY DEF ServerInv, MainInv, ChunksInv, ServerTypes, TypeOK, Places
<1>2. QED BY <1>1, ServerInvariant, PTL

\* The query of the server succeeds with one result for each slot of each chunk
\* (the assertion in server.cpp:131), run_server returns 0, and no thread dies
\* before its destructors are done.
THEOREM ServerDoesItsJob == Spec => []ServerSucceeds
<1>1. ServerInv => ServerSucceeds
    BY DEF ServerInv, SuccessInv, QueryInv, UntornInv, ServerSucceeds
<1>2. QED BY <1>1, ServerInvariant, PTL

\* While a worker thread scans, all vectors are written, although each chunk was
\* handed to the workers before (server.cpp:44-70).
THEOREM VectorsBeforeScans == Spec => []ScansSeeVectors
<1>1. ASSUME ServerInv, JobFacts, WorkFacts PROVE ScansSeeVectors
    <2>1. SUFFICES ASSUME NEW w \in WC!Workers, worker[w] = "scanning"
                   PROVE  /\ server = "querying"
                          /\ \A i \in DOMAIN managed : written[managed[i]] = VectorsOf(i)
        BY DEF ScansSeeVectors
    <2>2. command[w] = Job
        BY <1>1, <2>1 DEF ServerInv, BusyInv
    <2>3. w \in WP!Workers /\ WP!HasCommand(w, Job)
        BY <1>1, <2>2, WorkTypes DEF WP!HasCommand
    <2>4. WP!IsCalling(Job)
        BY <1>1, <2>3 DEF WorkFacts, WP!CommandInv
    <2>5. client[Job] = "dispatching"
        BY <1>1, <2>4 DEF WP!IsCalling, IsCalling, ServerInv, QueryInv, PlaceInv
    <2>6. server = "querying"
        BY <1>1, <2>5 DEF ServerInv, QueryInv, PlaceInv, ChunksInv, ServerTypes, ServerPlaces
    <2>7. /\ managed \in Seq(Chunks)
          /\ \A i \in 1..Len(managed) : written[managed[i]] = VectorsOf(i)
        BY <1>1, <2>6 DEF ServerInv, ChunksInv, ServerTypes, FilledInv
    <2>8. DOMAIN managed = 1..Len(managed)
        BY <2>7
    <2>9. QED BY <2>6, <2>7, <2>8
<1>2. QED BY <1>1, ServerInvariant, PTL

\* When main returns 0 after it has started the benchmark or the server, the one
\* ran all its rounds, or the other counted its results (main.cpp, benchmark.cpp,
\* server.cpp:131).
THEOREM ZeroMeansDone == Spec => []ExitZeroMeansDone
<1>1. ASSUME ServerInv, JobFacts PROVE ExitZeroMeansDone
    <2>1. SUFFICES ASSUME main = "exited", exitCode = 0, concurrency > 0
                   PROVE  IF options.parsed THEN rounds = Kinds * VariantCount
                          ELSE caller[Job] = "done" /\ Len(reduced[Job]) = Len(chunks)
        BY DEF ExitZeroMeansDone
    <2>2. CASE options.parsed
        BY <1>1, <2>1, <2>2 DEF ServerInv, MainInv
    <2>3. CASE ~options.parsed
        <3>1. server = "returned"
            BY <1>1, <2>1, <2>3 DEF ServerInv, MainInv
        <3>2. client[Job] = "returned"
            BY <1>1, <3>1 DEF ServerInv, QueryInv, PlaceInv
        <3>3. QED BY <1>1, <2>3, <3>2, CountedWhenReturned DEF ServerInv, QueryInv
    <2>4. QED BY <2>2, <2>3
<1>2. QED BY <1>1, ServerInvariant, PTL

=============================================================================
