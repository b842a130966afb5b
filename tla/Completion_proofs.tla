--------------------------- MODULE Completion_proofs ---------------------------
(***************************************************************************)
(* Theorems about Completion for any number of promises and of threads that  *)
(* wait.                                                                    *)
(***************************************************************************)
EXTENDS Completion, Integers, FiniteSetTheorems, TLAPS

\* The promises whose callback has set the event.
Announced == {p \in Signalling \ Silent : process[p] \in {"answered", "finished"}}

\* Exactly the futures of the promises whose callback has run have a value, and
\* those of the others are broken when they are returned.
ReadyInv ==
    /\ ready = {p \in Promises \ Silent : process[p] \in {"valued", "answered", "finished"}}
    /\ broken = {p \in Silent : process[p] = "finished"}
    /\ \A p \in Promises : process[p] \in {"valued", "answered"} => p \notin Silent
    /\ \A p \in Promises : process[p] = "dropped" => p \in Silent

\* Every signal was given by a promise of its own, or when the event was made.
SignalsInv == Signals <= Cardinality(Announced) + CountIf(initial)

CompletionInv == TypeOK /\ ReadyInv /\ SignalsInv

-----------------------------------------------------------------------------

LEMMA AnnouncedIsFinite == IsFiniteSet(Announced) /\ Cardinality(Announced) \in Nat
<1>1. Announced \subseteq Promises
    BY PromisesAssumption DEF Announced
<1>2. QED BY <1>1, PromisesAssumption, FS_Subset, FS_CardinalityType

LEMMA SignalCount ==
    ASSUME NEW count \in Nat, NEW given
    PROVE  CountIf(given) \in Nat /\ count + CountIf(given) \in Nat
BY DEF CountIf

LEMMA CompletionInvInit == Init => CompletionInv
<1> SUFFICES ASSUME Init PROVE CompletionInv
    OBVIOUS
<1>1. TypeOK
    BY DEF Init, TypeOK, ThreadPlaces, CallPlaces
<1>2. ReadyInv
    BY PromisesAssumption DEF Init, ReadyInv
<1>3. SignalsInv
    BY AnnouncedIsFinite, SignalCount DEF Init, SignalsInv, Signals
<1>4. QED BY <1>1, <1>2, <1>3 DEF CompletionInv

\* What a step of a waiting thread, or reset, has to show.
LEMMA OfEventStep ==
    ASSUME CompletionInv, UNCHANGED promiseVars, initial' = initial,
           flag' \in BOOLEAN, place' \in [Threads -> ThreadPlaces], returns' \in Nat,
           Signals' <= Signals
    PROVE  CompletionInv'
<1>1. process' = process /\ ready' = ready /\ broken' = broken /\ Announced' = Announced
    BY DEF promiseVars, Announced
<1>2. TypeOK' /\ ReadyInv'
    BY <1>1 DEF CompletionInv, TypeOK, ReadyInv
<1>3. SignalsInv'
    <2>1. Signals \in Nat /\ Signals' \in Nat
        BY SignalCount DEF CompletionInv, TypeOK, Signals
    <2>2. Signals <= Cardinality(Announced) + CountIf(initial)
          /\ Cardinality(Announced) + CountIf(initial) \in Nat
        BY AnnouncedIsFinite, SignalCount DEF CompletionInv, SignalsInv
    <2>3. Signals' <= Cardinality(Announced) + CountIf(initial)
        BY <2>1, <2>2
    <2>4. CountIf(initial)' = CountIf(initial)
        BY DEF CountIf
    <2>5. QED BY <1>1, <2>3, <2>4 DEF SignalsInv
<1>4. QED BY <1>2, <1>3 DEF CompletionInv

LEMMA WaitStepKeepsInv ==
    ASSUME CompletionInv, NEW t \in Threads,
           Wait(t) \/ WakeUp(t) \/ TimeOut(t) \/ WakeSpuriously(t)
    PROVE  CompletionInv'
<1>1. TypeOK
    BY DEF CompletionInv
<1>2. UNCHANGED promiseVars /\ initial' = initial
    BY DEF Wait, WakeUp, TimeOut, WakeSpuriously, TakeSignal, WaitForSignal
<1>3. CASE TakeSignal(t)
    <2>1. flag' \in BOOLEAN /\ place' \in [Threads -> ThreadPlaces] /\ returns' \in Nat
        <3>1. flag' \in BOOLEAN /\ place' = [place EXCEPT ![t] = "idle"] /\ returns' = returns + 1
            BY <1>3, Zenon DEF TakeSignal
        <3>2. QED BY <1>1, <3>1 DEF TypeOK, ThreadPlaces
    <2>2. Signals' <= Signals
        BY <1>1, <1>3 DEF TakeSignal, TypeOK, Signals, CountIf
    <2>3. QED BY <1>2, <2>1, <2>2, OfEventStep
<1>4. CASE WaitForSignal(t) \/ (UNCHANGED <<flag, returns>> /\ \E where \in ThreadPlaces :
                                    place' = [place EXCEPT ![t] = where])
    <2>1. place' \in [Threads -> ThreadPlaces] /\ UNCHANGED <<flag, returns>>
        BY <1>1, <1>4 DEF WaitForSignal, TypeOK, ThreadPlaces
    <2>2. Signals' <= Signals
        BY <1>1, <2>1 DEF TypeOK, Signals, CountIf
    <2>3. QED BY <1>1, <1>2, <2>1, <2>2, OfEventStep DEF TypeOK
<1>5. QED BY <1>3, <1>4 DEF Wait, WakeUp, TimeOut, WakeSpuriously, ThreadPlaces

LEMMA ResetKeepsInv == CompletionInv /\ Reset => CompletionInv'
<1> SUFFICES ASSUME CompletionInv, Reset PROVE CompletionInv'
    OBVIOUS
<1>1. flag' \in BOOLEAN /\ place' \in [Threads -> ThreadPlaces] /\ returns' \in Nat
    BY DEF CompletionInv, TypeOK, Reset
<1>2. Signals' <= Signals
    BY DEF CompletionInv, TypeOK, Reset, Signals, CountIf
<1>3. UNCHANGED promiseVars /\ initial' = initial
    BY DEF Reset
<1>4. QED BY <1>1, <1>2, <1>3, OfEventStep

\* A call that goes on without touching the event announces nothing.
LEMMA OfProcessStep ==
    ASSUME CompletionInv, NEW p \in Promises, NEW where \in CallPlaces, Go(p, where),
           UNCHANGED eventVars, TypeOK', ReadyInv',
           p \in Silent \/ (where \in {"answered", "finished"}
                              <=> process[p] \in {"answered", "finished"})
    PROVE  CompletionInv'
<1>1. TypeOK /\ SignalsInv /\ process' = [process EXCEPT ![p] = where]
    BY DEF CompletionInv, Go
<1>2. Announced' = Announced
    BY <1>1, PromisesAssumption DEF Announced, TypeOK
<1>3. Signals' = Signals /\ CountIf(initial)' = CountIf(initial)
    BY DEF Signals, CountIf, eventVars
<1>4. SignalsInv'
    BY <1>1, <1>2, <1>3 DEF SignalsInv
<1>5. QED BY <1>4 DEF CompletionInv

\* The callback that sets the event is one promise more that has announced.
LEMMA SignalEventKeepsInv ==
    ASSUME CompletionInv, NEW p \in Promises, SignalEvent(p)
    PROVE  CompletionInv'
<1>1. /\ TypeOK /\ ReadyInv /\ SignalsInv
      /\ process[p] = "valued" /\ process' = [process EXCEPT ![p] = "answered"]
      /\ ready' = ready /\ broken' = broken /\ p \notin Silent
    BY DEF CompletionInv, SignalEvent, At, Go, ReadyInv
<1>2. /\ flag' \in BOOLEAN /\ place' \in [Threads -> ThreadPlaces] /\ returns' = returns
      /\ initial' = initial
    BY <1>1 DEF SignalEvent, Set, eventVars, TypeOK, ThreadPlaces
<1>3. ReadyInv'
    BY <1>1 DEF ReadyInv, TypeOK
<1>4. TypeOK'
    BY <1>1, <1>2, <1>3 DEF TypeOK, CallPlaces, ReadyInv
<1>5. SignalsInv'
    <2>1. /\ Signals \in Nat /\ Signals' \in Nat /\ Signals' <= Signals + 1
          /\ CountIf(initial) \in Nat /\ CountIf(initial)' = CountIf(initial)
        BY <1>1, <1>2 DEF TypeOK, Signals, CountIf
    <2>2. CASE p \in Signalling
        <3>1. Announced' = Announced \union {p} /\ p \notin Announced
            BY <1>1, <2>2, PromisesAssumption DEF Announced, TypeOK
        <3>2. Cardinality(Announced') = Cardinality(Announced) + 1
            BY <3>1, AnnouncedIsFinite, FS_AddElement
        <3>3. QED BY <1>1, <2>1, <3>2, AnnouncedIsFinite DEF SignalsInv
    <2>3. CASE p \notin Signalling
        <3>1. Announced' = Announced
            BY <1>1, <2>3, PromisesAssumption DEF Announced, TypeOK
        <3>2. Signals' = Signals
            BY <2>3 DEF SignalEvent, eventVars, Signals, CountIf
        <3>3. QED BY <1>1, <2>1, <3>1, <3>2 DEF SignalsInv
    <2>4. QED BY <2>2, <2>3
<1>6. QED BY <1>3, <1>4, <1>5 DEF CompletionInv

LEMMA ProcessStepKeepsInv ==
    ASSUME CompletionInv, NEW p \in Promises, ProcessStep(p)
    PROVE  CompletionInv'
<1>1. CASE SignalEvent(p)
    BY <1>1, SignalEventKeepsInv
<1>2. CASE ~SignalEvent(p)
    <2> USE PromisesAssumption
            DEF TypeOK, ReadyInv, CallPlaces, eventVars, At, Go
    <2>1. TypeOK /\ ReadyInv
        BY DEF CompletionInv
    <2>2. TypeOK' /\ ReadyInv'
        <3>1. CASE CreatePromise(p) BY <2>1, <3>1 DEF CreatePromise
        <3>2. CASE Execute(p) BY <2>1, <3>2 DEF Execute
        <3>3. CASE SetValue(p) BY <2>1, <3>3 DEF SetValue
        <3>4. CASE DropCallback(p) BY <2>1, <3>4 DEF DropCallback
        <3>5. CASE ReturnFuture(p) BY <2>1, <3>5 DEF ReturnFuture
        <3>6. QED BY <1>2, <3>1, <3>2, <3>3, <3>4, <3>5 DEF ProcessStep
    <2>3. CASE CreatePromise(p)
        BY <2>2, <2>3, OfProcessStep DEF CreatePromise
    <2>4. CASE Execute(p)
        BY <2>2, <2>4, OfProcessStep DEF Execute
    <2>5. CASE SetValue(p)
        BY <2>2, <2>5, OfProcessStep DEF SetValue
    <2>6. CASE DropCallback(p)
        BY <2>2, <2>6, OfProcessStep DEF DropCallback
    <2>7. CASE ReturnFuture(p)
        BY <2>1, <2>2, <2>7, OfProcessStep DEF ReturnFuture
    <2>8. QED BY <1>2, <2>3, <2>4, <2>5, <2>6, <2>7 DEF ProcessStep
<1>3. QED BY <1>1, <1>2

LEMMA CompletionInvStep == CompletionInv /\ [Next]_vars => CompletionInv'
<1> SUFFICES ASSUME CompletionInv, [Next]_vars PROVE CompletionInv'
    OBVIOUS
<1>1. CASE \E t \in Threads : Wait(t) \/ WakeUp(t) \/ TimeOut(t) \/ WakeSpuriously(t)
    BY <1>1, WaitStepKeepsInv
<1>2. CASE Reset
    BY <1>2, ResetKeepsInv
<1>3. CASE \E p \in Promises : ProcessStep(p)
    BY <1>3, ProcessStepKeepsInv
<1>4. CASE UNCHANGED vars
    BY <1>4 DEF CompletionInv, vars, eventVars, promiseVars, TypeOK, ReadyInv, SignalsInv,
                Signals, CountIf, Announced
<1>5. QED BY <1>1, <1>2, <1>3, <1>4 DEF Next

-----------------------------------------------------------------------------

\* A future that process returns is settled: it has its value if the executor
\* calls back before its process returns, and is broken if it drops the callback
\* (executor_t.h:51-56, remote_executor_t.h:27-29,
\* worker_thread_coordinator.cpp:99-103).
THEOREM FuturesAreSettled == Spec => []TypeOK
<1>1. CompletionInv => TypeOK
    BY DEF CompletionInv
<1>2. QED BY <1>1, CompletionInvInit, CompletionInvStep, PTL DEF Spec

\* A signal releases one wait at most, and never before the value of the
\* future it announces is there (auto_reset_event.h:20-59,
\* execution_completion_promise.h:31-37).
THEOREM SignalsHaveResults == Spec => []WaitersSeeResults
<1>1. CompletionInv => WaitersSeeResults
    <2>1. SUFFICES ASSUME CompletionInv PROVE WaitersSeeResults
        OBVIOUS
    <2>2. Announced \subseteq ready \intersect Signalling
        BY <2>1, PromisesAssumption DEF CompletionInv, ReadyInv, Announced
    <2>3. ready \intersect Signalling \subseteq Promises
        BY <2>1 DEF CompletionInv, TypeOK
    <2>4. IsFiniteSet(ready \intersect Signalling)
        BY <2>3, PromisesAssumption, FS_Subset
    <2>5. Cardinality(Announced) <= Cardinality(ready \intersect Signalling)
        BY <2>2, <2>4, FS_Subset
    <2>6. Cardinality(ready \intersect Signalling) \in Nat
        BY <2>4, FS_CardinalityType
    <2>7. Signals \in Nat /\ CountIf(initial) \in Nat
        BY <2>1 DEF CompletionInv, TypeOK, Signals, CountIf
    <2>8. QED BY <2>1, <2>5, <2>6, <2>7, AnnouncedIsFinite
               DEF CompletionInv, SignalsInv, WaitersSeeResults
<1>2. QED BY <1>1, CompletionInvInit, CompletionInvStep, PTL DEF Spec

=============================================================================
