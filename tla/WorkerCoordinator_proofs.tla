---------------------- MODULE WorkerCoordinator_proofs -----------------------
(***************************************************************************)
(* Theorems about WorkerCoordinator for any number of workers, chunks and   *)
(* queries.                                                                 *)
(***************************************************************************)
EXTENDS WorkerCoordinator, ChunkDistribution_proofs, FiniteSetTheorems, TLAPS

-----------------------------------------------------------------------------
(* Sequences, with and without repetition.                                   *)

IsDistinct(s) == \A i, k \in DOMAIN s : s[i] = s[k] => i = k

LEMMA AppendOfDistinct ==
    ASSUME NEW S, NEW s \in Seq(S), NEW x \in S
    PROVE  /\ Range(Append(s, x)) = Range(s) \union {x}
           /\ IsDistinct(s) /\ x \notin Range(s) => IsDistinct(Append(s, x))
<1>1. /\ DOMAIN Append(s, x) = 1..(Len(s) + 1)
      /\ DOMAIN s = 1..Len(s)
      /\ Append(s, x)[Len(s) + 1] = x
      /\ \A i \in 1..Len(s) : Append(s, x)[i] = s[i]
      /\ Len(s) \in Nat
    OBVIOUS
<1>2. Range(Append(s, x)) = Range(s) \union {x}
    BY <1>1 DEF Range
<1>3. IsDistinct(s) /\ x \notin Range(s) => IsDistinct(Append(s, x))
    BY <1>1 DEF Range, IsDistinct
<1>4. QED BY <1>2, <1>3

LEMMA TailOfDistinct ==
    ASSUME NEW S, NEW s \in Seq(S), s # <<>>
    PROVE  /\ Head(s) \in S /\ Tail(s) \in Seq(S)
           /\ Range(s) = Range(Tail(s)) \union {Head(s)}
           /\ IsDistinct(s) => IsDistinct(Tail(s)) /\ Head(s) \notin Range(Tail(s))
<1>1. /\ Len(s) \in Nat \ {0}
      /\ DOMAIN s = 1..Len(s)
      /\ DOMAIN Tail(s) = 1..(Len(s) - 1)
      /\ Head(s) = s[1]
      /\ \A i \in 1..(Len(s) - 1) : Tail(s)[i] = s[i + 1]
    OBVIOUS
<1>2. Range(Tail(s)) \union {Head(s)} \subseteq Range(s)
    BY <1>1 DEF Range
<1>3. ASSUME NEW i \in 1..Len(s) PROVE s[i] \in Range(Tail(s)) \union {Head(s)}
    <2>1. CASE i = 1 BY <1>1, <2>1
    <2>2. CASE i # 1
        <3>1. i - 1 \in 1..(Len(s) - 1) /\ Tail(s)[i - 1] = s[i]
            BY <1>1, <2>2
        <3>2. QED BY <1>1, <3>1 DEF Range
    <2>3. QED BY <2>1, <2>2
<1>4. Range(s) \subseteq Range(Tail(s)) \union {Head(s)}
    BY <1>1, <1>3 DEF Range
<1>5. IsDistinct(s) => IsDistinct(Tail(s)) /\ Head(s) \notin Range(Tail(s))
    BY <1>1 DEF Range, IsDistinct
<1>6. QED BY <1>2, <1>4, <1>5

LEMMA EmptyOrNot ==
    ASSUME NEW S, NEW s \in Seq(S)
    PROVE  /\ s # <<>> => Head(s) = s[1] /\ Len(s) # 0
           /\ s = <<>> => Len(s) = 0
OBVIOUS

LEMMA AppendElements ==
    ASSUME NEW S, NEW s \in Seq(S), NEW x \in S
    PROVE  /\ Len(s) \in Nat /\ DOMAIN s = 1..Len(s)
           /\ Len(Append(s, x)) = Len(s) + 1 /\ DOMAIN Append(s, x) = 1..(Len(s) + 1)
           /\ Append(s, x)[Len(s) + 1] = x
           /\ \A i \in 1..Len(s) : Append(s, x)[i] = s[i]
           /\ Append(s, x) # <<>>
           /\ Head(Append(s, x)) = Append(s, x)[1]
           /\ s # <<>> => Head(s) = s[1] /\ 1 \in 1..Len(s)
           /\ s = <<>> => Len(s) = 0
OBVIOUS

LEMMA TailElements ==
    ASSUME NEW S, NEW s \in Seq(S), s # <<>>
    PROVE  /\ Len(s) \in Nat \ {0} /\ DOMAIN s = 1..Len(s)
           /\ Head(s) \in S /\ Head(s) = s[1] /\ 1 \in DOMAIN s
           /\ Len(Tail(s)) = Len(s) - 1 /\ DOMAIN Tail(s) = 1..(Len(s) - 1)
           /\ \A i \in 1..(Len(s) - 1) : Tail(s)[i] = s[i + 1] /\ i + 1 \in DOMAIN s
           /\ Tail(s) # <<>> => Head(Tail(s)) = Tail(s)[1] /\ Len(s) # 1
           /\ Tail(s) = <<>> => Len(s) = 1
<1>1. /\ Len(s) \in Nat \ {0} /\ DOMAIN s = 1..Len(s)
      /\ Head(s) \in S /\ Head(s) = s[1] /\ 1 \in DOMAIN s
      /\ Tail(s) \in Seq(S)
    OBVIOUS
<1>2. Len(Tail(s)) = Len(s) - 1 /\ DOMAIN Tail(s) = 1..(Len(s) - 1)
    OBVIOUS
<1>3. \A i \in 1..(Len(s) - 1) : Tail(s)[i] = s[i + 1] /\ i + 1 \in DOMAIN s
    BY <1>1
<1>4. /\ Tail(s) # <<>> => Head(Tail(s)) = Tail(s)[1] /\ Len(Tail(s)) # 0
      /\ Tail(s) = <<>> => Len(Tail(s)) = 0
    BY <1>1, EmptyOrNot
<1>5. QED BY <1>1, <1>2, <1>3, <1>4

-----------------------------------------------------------------------------
(* The types of what the commands pass through.                              *)

CommandTypes ==
    /\ dealing \in 0..WorkerCount
    /\ caller \in [Queries -> CallerPlaces]
    /\ cursor \in [Queries -> 1..(WorkerCount + 1)]
    /\ results \in [Queries -> Seq(Workers)]
    /\ inbox \in [Workers -> Seq(Queries)]
    /\ worker \in [Workers -> WorkerPlaces]
    /\ command \in [Workers -> Queries \union {NoQuery}]
    /\ answered \in [Queries -> SUBSET Workers]
    /\ destroying \in 0..(WorkerCount + 1)

LEMMA TypesInit == Init => CommandTypes
BY WorkerCountAssumption DEF Init, CommandTypes, CallerPlaces, WorkerPlaces

LEMMA TypesStep == CommandTypes /\ [Next]_vars => CommandTypes'
<1> SUFFICES ASSUME CommandTypes, [Next]_vars PROVE CommandTypes'
    OBVIOUS
<1> USE WorkerCountAssumption
    DEF CommandTypes, CallerPlaces, WorkerPlaces, Workers, chunkVars, callVars, workerVars, replyVars
<1>1. ASSUME NEW c \in Chunks, AssignChunk(c) \/ Expire(c) PROVE CommandTypes'
    BY <1>1 DEF AssignChunk, Expire, Disturb
<1>2. CASE DealToNext
    BY <1>2 DEF DealToNext, Disturb
<1>3. ASSUME NEW q \in Queries, Process(q) \/ CallerStep(q) PROVE CommandTypes'
    <2>1. CASE Process(q) BY <2>1 DEF Process
    <2>2. CASE SkipWorker(q) BY <2>2 DEF SkipWorker
    <2>3. CASE EnqueueCommand(q)
        <3>1. cursor[q] \in Workers BY <2>3 DEF EnqueueCommand
        <3>2. Append(results[q], cursor[q]) \in Seq(Workers)
            BY <3>1
        <3>3. Append(inbox[cursor[q]], q) \in Seq(Queries)
            BY <3>1
        <3>4. cursor[q] + 1 \in 1..(WorkerCount + 1)
            <4>1. WorkerCount \in Nat /\ cursor[q] \in Nat /\ 1 <= cursor[q] /\ cursor[q] <= WorkerCount
                BY <3>1
            <4>2. QED BY ONLY <4>1
        <3>5. QED BY <2>3, <3>1, <3>2, <3>3, <3>4 DEF EnqueueCommand
    <2>4. CASE StartGathering(q) BY <2>4 DEF StartGathering
    <2>5. CASE ReduceNext(q)
        <3>1. Tail(results[q]) \in Seq(Workers)
            BY <2>5, TailOfDistinct DEF ReduceNext
        <3>2. QED BY <2>5, <3>1 DEF ReduceNext
    <2>6. CASE Finish(q) BY <2>6 DEF Finish
    <2>7. QED BY <1>3, <2>1, <2>2, <2>3, <2>4, <2>5, <2>6 DEF CallerStep
<1>4. ASSUME NEW w \in Workers, WorkerStep(w) PROVE CommandTypes'
    <2>1. CASE DequeueCommand(w)
        <3>1. Head(inbox[w]) \in Queries /\ Tail(inbox[w]) \in Seq(Queries)
            BY <2>1, TailOfDistinct DEF DequeueCommand
        <3>2. QED BY <2>1, <3>1 DEF DequeueCommand
    <2>2. CASE ExitAfterTimeout(w) BY <2>2 DEF ExitAfterTimeout
    <2>3. CASE BeginScan(w) BY <2>3 DEF BeginScan
    <2>4. CASE ScanChunk(w) BY <2>4 DEF ScanChunk
    <2>5. CASE EndScan(w) BY <2>5 DEF EndScan
    <2>6. QED BY <1>4, <2>1, <2>2, <2>3, <2>4, <2>5 DEF WorkerStep
<1>5. CASE DestroyNext BY <1>5 DEF DestroyNext
<1>6. CASE UNCHANGED vars BY <1>6 DEF vars
<1>7. QED BY <1>1, <1>2, <1>3, <1>4, <1>5, <1>6 DEF Next, Stopped

LEMMA TypesInvariant == Spec => []CommandTypes
BY TypesInit, TypesStep, PTL DEF Spec

-----------------------------------------------------------------------------
(* Who deals chunks.                                                         *)

\* Queries, workers, the destructor and whoever releases a chunk leave alone
\* which chunks there are and whose they are.
LEMMA OnlyAssigningDeals ==
    ASSUME [Next]_vars, ~DealToNext, \A c \in Chunks : ~AssignChunk(c)
    PROVE  UNCHANGED <<chunks, assigned, dealing>>
<1> USE DEF chunkVars, callVars, workerVars, replyVars
<1>1. CASE DestroyNext \/ UNCHANGED vars \/ \E c \in Chunks : Expire(c)
    BY <1>1 DEF DestroyNext, vars, Expire
<1>2. CASE \E w \in Workers : WorkerStep(w)
    BY <1>2 DEF WorkerStep, DequeueCommand, ExitAfterTimeout, BeginScan, ScanChunk, EndScan
<1>3. CASE \E q \in Queries : Process(q) \/ CallerStep(q)
    BY <1>3 DEF Process, CallerStep, SkipWorker, EnqueueCommand, StartGathering, ReduceNext, Finish
<1>4. QED BY <1>1, <1>2, <1>3 DEF Next, Stopped

-----------------------------------------------------------------------------
(* The lock.                                                                 *)

\* The writer and the readers of _management_lock exclude each other.
LockInv == dealing # 0 => NoReader

LEMMA LockStep == CommandTypes /\ LockInv /\ [Next]_vars => LockInv'
<1> SUFFICES ASSUME CommandTypes, LockInv, [Next]_vars PROVE LockInv'
    OBVIOUS
<1> USE DEF CommandTypes, LockInv, NoReader, chunkVars, callVars, workerVars, replyVars
<1>1. ASSUME NEW c \in Chunks, AssignChunk(c) \/ Expire(c) PROVE LockInv'
    BY <1>1 DEF AssignChunk, Expire
<1>2. CASE DealToNext
    BY <1>2, WorkerCountAssumption DEF DealToNext, Workers
<1>3. ASSUME NEW q \in Queries, Process(q) \/ CallerStep(q) PROVE LockInv'
    BY <1>3 DEF Process, CallerStep, SkipWorker, EnqueueCommand, StartGathering, ReduceNext, Finish
<1>4. ASSUME NEW w \in Workers, WorkerStep(w) PROVE LockInv'
    BY <1>4 DEF WorkerStep, DequeueCommand, ExitAfterTimeout, BeginScan, ScanChunk, EndScan
<1>5. CASE DestroyNext BY <1>5 DEF DestroyNext
<1>6. CASE UNCHANGED vars BY <1>6 DEF vars
<1>7. QED BY <1>1, <1>2, <1>3, <1>4, <1>5, <1>6 DEF Next, Stopped

LEMMA LockInvariant == Spec => []LockInv
<1>1. Init => LockInv
    BY DEF Init, LockInv
<1>2. QED BY <1>1, LockStep, TypesInvariant, PTL DEF Spec

\* No chunk is assigned to or taken from a worker that is iterating over its
\* chunks, although assign_chunk and the worker threads run concurrently.
THEOREM IterationStable == Spec => ScansAreStable
<1> DEFINE Stable == \A w \in Workers : worker[w] = "scanning" => UNCHANGED assigned[w]
<1>1. ASSUME LockInv, Next PROVE Stable
    <2>1. ASSUME NEW c \in Chunks, AssignChunk(c) PROVE Stable
        BY <2>1 DEF AssignChunk, NoReader
    <2>2. CASE DealToNext
        BY <1>1, <2>2, WorkerCountAssumption DEF DealToNext, LockInv, NoReader, Workers
    <2>3. QED BY <1>1, <2>1, <2>2, OnlyAssigningDeals
<1>2. LockInv /\ [Next]_vars => [Stable]_vars
    BY <1>1
<1>3. QED BY <1>2, LockInvariant, PTL DEF Spec, ScansAreStable

-----------------------------------------------------------------------------
(* Commands and their queries.                                               *)

\* Worker w has a command of query q, queued or in its hands.
HasCommand(w, q) == q \in Range(inbox[w]) \/ command[w] = q

\* NoCommandAbandoned follows because a command exists only while its query
\* still waits for this worker: the query has its future, and has looked past
\* the worker, which has not answered.  No command exists twice.
CommandInv ==
    /\ destroying > 0 => \A q \in Queries : ~IsCalling(q)
    /\ \A w \in Workers :
        /\ IsDistinct(inbox[w])
        /\ command[w] \notin Range(inbox[w])
        /\ worker[w] \in {"waiting", "exited"} => command[w] = NoQuery
    /\ \A w \in Workers, q \in Queries :
        /\ HasCommand(w, q) =>
            /\ IsCalling(q)
            /\ w \in Range(results[q])
            /\ w \notin answered[q]
            /\ w < cursor[q]
        /\ w \in answered[q] => w < cursor[q]

LEMMA CommandInit == Init => CommandInv
BY NoQueryAssumption DEF Init, CommandInv, HasCommand, IsDistinct, Range

LEMMA CommandCaller ==
    ASSUME CommandTypes, CommandInv, NEW r \in Queries, Process(r) \/ CallerStep(r)
    PROVE  CommandInv'
<1> USE DEF CommandTypes, CommandInv, HasCommand, IsCalling, chunkVars, callVars, workerVars, replyVars
<1>1. CASE Process(r) BY <1>1 DEF Process
<1>2. CASE SkipWorker(r)
    <2>1. cursor[r] \in Workers /\ cursor' = [cursor EXCEPT ![r] = cursor[r] + 1]
        BY <1>2 DEF SkipWorker
    <2>2. \A w \in Workers, q \in Queries : w < cursor[q] => w < cursor'[q]
        BY <2>1 DEF Workers
    <2>3. QED BY <1>2, <2>2 DEF SkipWorker
<1>3. CASE EnqueueCommand(r)
    <2> DEFINE v == cursor[r]
    <2>1. /\ v \in Workers /\ caller[r] = "dispatching"
          /\ results' = [results EXCEPT ![r] = Append(results[r], v)]
          /\ inbox' = [inbox EXCEPT ![v] = Append(inbox[v], r)]
          /\ cursor' = [cursor EXCEPT ![r] = v + 1]
          /\ UNCHANGED <<caller, worker, command, answered, destroying>>
        BY <1>3 DEF EnqueueCommand
    <2>2. ~HasCommand(v, r) /\ v \notin answered[r]
        BY <2>1 DEF Workers
    <2>3. /\ Range(inbox'[v]) = Range(inbox[v]) \union {r}
          /\ IsDistinct(inbox'[v])
          /\ \A w \in Workers \ {v} : inbox'[w] = inbox[w]
        BY <2>1, <2>2, AppendOfDistinct
    <2>4. /\ Range(results'[r]) = Range(results[r]) \union {v}
          /\ \A q \in Queries \ {r} : results'[q] = results[q]
        BY <2>1, AppendOfDistinct
    <2>5. v < cursor'[r] /\ \A w \in Workers, q \in Queries : w < cursor[q] => w < cursor'[q]
        BY <2>1 DEF Workers
    <2>6. destroying' > 0 => \A q \in Queries : ~IsCalling(q)'
        BY <2>1
    <2>7. ASSUME NEW w \in Workers
          PROVE  /\ IsDistinct(inbox[w])' /\ (command[w] \notin Range(inbox[w]))'
                 /\ (worker[w] \in {"waiting", "exited"} => command[w] = NoQuery)'
        BY <2>1, <2>2, <2>3
    <2>8. ASSUME NEW w \in Workers, NEW q \in Queries, HasCommand(w, q)'
          PROVE  IsCalling(q)' /\ (w \in Range(results[q]))' /\ (w \notin answered[q])'
                 /\ (w < cursor[q])'
        <3>1. CASE w = v /\ q = r
            BY <2>1, <2>2, <2>4, <2>5, <3>1
        <3>2. CASE ~(w = v /\ q = r)
            <4>1. HasCommand(w, q) BY <2>1, <2>3, <2>8, <3>2
            <4>2. Range(results[q]) \subseteq Range(results'[q])
                BY <2>4
            <4>3. QED BY <2>1, <2>5, <4>1, <4>2
        <3>3. QED BY <3>1, <3>2
    <2>9. ASSUME NEW w \in Workers, NEW q \in Queries, (w \in answered[q])' PROVE (w < cursor[q])'
        BY <2>1, <2>5, <2>9
    <2> HIDE DEF IsCalling, HasCommand, v
    <2>10. QED BY <2>6, <2>7, <2>8, <2>9
<1>4. CASE StartGathering(r) BY <1>4 DEF StartGathering
<1>5. CASE ReduceNext(r)
    <2>1. /\ results[r] # <<>> /\ Head(results[r]) \in answered[r]
          /\ results' = [results EXCEPT ![r] = Tail(results[r])]
          /\ UNCHANGED <<caller, cursor, inbox, worker, command, answered, destroying>>
        BY <1>5 DEF ReduceNext
    <2>2. Range(results[r]) = Range(results'[r]) \union {Head(results[r])}
        BY <2>1, TailOfDistinct
    <2>3. ASSUME NEW w \in Workers, NEW q \in Queries, HasCommand(w, q)
          PROVE  w \in Range(results'[q])
        BY <2>1, <2>2, <2>3
    <2>4. QED BY <2>1, <2>3
<1>6. CASE Finish(r)
    <2>1. /\ results[r] = <<>>
          /\ caller' = [caller EXCEPT ![r] = "done"]
          /\ UNCHANGED <<cursor, results, inbox, worker, command, answered, destroying>>
        BY <1>6 DEF Finish
    <2>2. \A w \in Workers : ~HasCommand(w, r)
        BY <2>1 DEF Range
    <2>3. QED BY <2>1, <2>2
<1>7. QED BY <1>1, <1>2, <1>3, <1>4, <1>5, <1>6 DEF CallerStep

LEMMA CommandWorker ==
    ASSUME CommandTypes, CommandInv, NEW v \in Workers, WorkerStep(v)
    PROVE  CommandInv'
<1> USE NoQueryAssumption
    DEF CommandTypes, CommandInv, HasCommand, IsCalling, chunkVars, callVars, workerVars, replyVars
<1>1. CASE DequeueCommand(v)
    <2>1. /\ inbox[v] # <<>> /\ worker[v] = "waiting"
          /\ command' = [command EXCEPT ![v] = Head(inbox[v])]
          /\ inbox' = [inbox EXCEPT ![v] = Tail(inbox[v])]
          /\ worker' = [worker EXCEPT ![v] = "dequeued"]
          /\ UNCHANGED <<caller, cursor, results, answered, destroying>>
        BY <1>1 DEF DequeueCommand
    <2>2. /\ Range(inbox[v]) = Range(inbox'[v]) \union {command'[v]}
          /\ IsDistinct(inbox'[v]) /\ command'[v] \notin Range(inbox'[v])
          /\ \A w \in Workers \ {v} : inbox'[w] = inbox[w] /\ command'[w] = command[w]
        BY <2>1, TailOfDistinct
    <2>3. ASSUME NEW w \in Workers, NEW q \in Queries PROVE HasCommand(w, q)' => HasCommand(w, q)
        BY <2>1, <2>2
    <2>4. ASSUME NEW w \in Workers
          PROVE  /\ IsDistinct(inbox[w])' /\ (command[w] \notin Range(inbox[w]))'
                 /\ (worker[w] \in {"waiting", "exited"} => command[w] = NoQuery)'
        BY <2>1, <2>2
    <2>5. QED BY <2>1, <2>3, <2>4
<1>2. CASE ExitAfterTimeout(v) BY <1>2 DEF ExitAfterTimeout
<1>3. CASE BeginScan(v) BY <1>3 DEF BeginScan
<1>4. CASE ScanChunk(v) BY <1>4 DEF ScanChunk
<1>5. CASE EndScan(v)
    <2> DEFINE p == command[v]
    <2>1. /\ worker[v] = "scanning"
          /\ answered' = [answered EXCEPT ![p] = answered[p] \union {v}]
          /\ command' = [command EXCEPT ![v] = NoQuery]
          /\ worker' \in [Workers -> WorkerPlaces]
          /\ \A w \in Workers \ {v} : worker'[w] = worker[w]
          /\ UNCHANGED <<caller, cursor, results, inbox, destroying>>
        BY <1>5 DEF EndScan, WorkerPlaces
    <2>2. \A w \in Workers : NoQuery \notin Range(inbox[w])
        BY DEF Range
    <2>3. ASSUME NEW w \in Workers, NEW q \in Queries, HasCommand(w, q)'
          PROVE  HasCommand(w, q) /\ w \notin answered'[q]
        BY <2>1, <2>3
    <2>4. ASSUME NEW w \in Workers, NEW q \in Queries, w \in answered'[q] PROVE w < cursor'[q]
        BY <2>1, <2>4
    <2>5. QED BY <2>1, <2>2, <2>3, <2>4
<1>6. QED BY <1>1, <1>2, <1>3, <1>4, <1>5 DEF WorkerStep

LEMMA CommandStep == CommandTypes /\ CommandInv /\ [Next]_vars => CommandInv'
<1> SUFFICES ASSUME CommandTypes, CommandInv, [Next]_vars PROVE CommandInv'
    OBVIOUS
<1> USE DEF CommandTypes, CommandInv, HasCommand, IsCalling, chunkVars, callVars, workerVars, replyVars
<1>1. ASSUME NEW c \in Chunks, AssignChunk(c) \/ Expire(c) PROVE CommandInv'
    BY <1>1 DEF AssignChunk, Expire
<1>2. CASE DealToNext BY <1>2 DEF DealToNext
<1>3. CASE DestroyNext BY <1>3 DEF DestroyNext
<1>4. CASE UNCHANGED vars BY <1>4 DEF vars
<1>5. QED BY <1>1, <1>2, <1>3, <1>4, CommandCaller, CommandWorker DEF Next, Stopped

LEMMA CommandInvariant == Spec => []CommandInv
BY CommandInit, CommandStep, TypesInvariant, PTL DEF Spec

\* When the destructor tells a worker thread to stop, no command waits for it or
\* is in its hands: no promise is destroyed unset.
THEOREM CommandsServed == Spec => []NoCommandAbandoned
<1>1. CommandTypes /\ CommandInv => NoCommandAbandoned
    <2> SUFFICES ASSUME CommandTypes, CommandInv, NEW w \in Workers, IsStopping(w)
                 PROVE  inbox[w] = <<>> /\ command[w] = NoQuery
        BY DEF NoCommandAbandoned
    <2>1. \A q \in Queries : ~HasCommand(w, q)
        BY DEF CommandTypes, CommandInv, IsStopping, Workers
    <2>2. command[w] = NoQuery
        BY <2>1 DEF CommandTypes, HasCommand
    <2>3. inbox[w] = <<>>
        <3>1. inbox[w] \in Seq(Queries) BY DEF CommandTypes
        <3>2. inbox[w] # <<>> => Head(inbox[w]) \in Range(inbox[w]) /\ Head(inbox[w]) \in Queries
            BY <3>1, TailOfDistinct
        <3>3. QED BY <2>1, <3>2 DEF HasCommand
    <2>4. QED BY <2>2, <2>3
<1>2. QED BY <1>1, CommandInvariant, TypesInvariant, PTL

-----------------------------------------------------------------------------
(* The types of the chunks and of the results.                               *)

DataTypes ==
    /\ chunks \in Seq(Chunks)
    /\ alive \subseteq Chunks
    /\ assigned \in [Workers -> Seq(Chunks)]
    /\ reduced \in [Queries -> Seq(Chunks)]
    /\ position \in [Workers -> Nat \ {0}]
    /\ combined \in [Workers -> Seq(Chunks)]
    /\ answer \in [Queries -> [Workers -> Seq(Chunks)]]
    /\ quiet \in [Queries -> BOOLEAN]

\* What is left of a list of chunks, and any order of it, is a list of chunks.
LEMMA WithoutExpiredIsIn ==
    ASSUME NEW s \in Seq(Chunks), NEW t \in WithoutExpired(s)
    PROVE  t \in Seq(Chunks)
<1> DEFINE Kept == {i \in DOMAIN s : s[i] \in alive}
           Kth == 1..Cardinality(Kept)
<1>1. PICK k \in Bijection(Kth, Kept) : t = [i \in Kth |-> s[k[i]]]
    BY DEF WithoutExpired
<1>2. k \in [Kth -> Kept]
    BY <1>1 DEF Bijection, Injection
<1>3. \A i \in Kth : s[k[i]] \in Chunks
    BY <1>2
<1>4. Cardinality(Kept) \in Nat
    <2>1. IsFiniteSet(DOMAIN s)
        <3>1. DOMAIN s = 1..Len(s) /\ Len(s) \in Nat
            OBVIOUS
        <3>2. QED BY <3>1, FS_Interval
    <2>2. QED BY <2>1, FS_Subset, FS_CardinalityType
<1>5. QED BY <1>1, <1>3, <1>4

\* Nothing is left out when no chunk has expired.
LEMMA NothingExpired ==
    ASSUME NEW s \in Seq(Chunks), alive = Chunks, NEW t \in WithoutExpired(s)
    PROVE  Len(t) = Len(s)
<1> DEFINE n == Len(s)
<1>1. n \in Nat /\ DOMAIN s = 1..n /\ {i \in DOMAIN s : s[i] \in alive} = 1..n
    OBVIOUS
<1>2. Cardinality(1..n) = n
    BY <1>1, FS_Interval
<1>3. \E k : t = [i \in 1..n |-> s[k[i]]]
    BY <1>1, <1>2 DEF WithoutExpired
<1>4. QED BY <1>1, <1>3

LEMMA SortedIsIn ==
    ASSUME NEW s \in Seq(Chunks), NEW t \in SortedByAddress(s)
    PROVE  t \in Seq(Chunks)
<1>1. PICK p \in Bijection(DOMAIN s, DOMAIN s) : t = [i \in DOMAIN s |-> s[p[i]]]
    BY DEF SortedByAddress
<1>2. p \in [DOMAIN s -> DOMAIN s]
    BY <1>1 DEF Bijection, Injection
<1>3. DOMAIN s = 1..Len(s) /\ Len(s) \in Nat /\ \A i \in DOMAIN s : s[i] \in Chunks
    OBVIOUS
<1>4. QED BY <1>1, <1>2, <1>3

LEMMA DataTypesStep == CommandTypes /\ DataTypes /\ [Next]_vars => DataTypes'
<1> SUFFICES ASSUME CommandTypes, DataTypes, [Next]_vars PROVE DataTypes'
    OBVIOUS
<1> USE DEF DataTypes, chunkVars, callVars, workerVars, replyVars
<1>1. ASSUME NEW c \in Chunks, AssignChunk(c) PROVE DataTypes'
    <2>1. Append(chunks, c) \in Seq(Chunks)
        OBVIOUS
    <2>2. chunks' \in Seq(Chunks)
        BY <1>1, <2>1, WithoutExpiredIsIn DEF AssignChunk
    <2>3. QED BY <1>1, <2>2 DEF AssignChunk, Disturb
<1>2. ASSUME NEW c \in Chunks, Expire(c) PROVE DataTypes'
    BY <1>2 DEF Expire
<1>3. CASE DealToNext
    <2>1. dealing \in Workers /\ chunks' \in Seq(Chunks)
        BY <1>3, SortedIsIn DEF DealToNext
    <2>2. Deal(chunks', dealing) \in Seq(Chunks)
        BY <2>1, DealIsIn
    <2>3. QED BY <1>3, <2>1, <2>2 DEF DealToNext, Disturb
<1>4. ASSUME NEW q \in Queries, Process(q) \/ CallerStep(q) PROVE DataTypes'
    <2>1. CASE ReduceNext(q)
        <3>1. Head(results[q]) \in Workers
            BY <2>1, TailOfDistinct DEF ReduceNext, CommandTypes
        <3>2. reduced[q] \o answer[q][Head(results[q])] \in Seq(Chunks)
            BY <3>1
        <3>3. QED BY <2>1, <3>2 DEF ReduceNext
    <2>2. CASE Process(q)
        BY <2>2 DEF Process
    <2>3. CASE SkipWorker(q) \/ EnqueueCommand(q) \/ StartGathering(q) \/ Finish(q)
        BY <2>3 DEF SkipWorker, EnqueueCommand, StartGathering, Finish
    <2>4. QED BY <1>4, <2>1, <2>2, <2>3 DEF CallerStep
<1>5. ASSUME NEW w \in Workers, WorkerStep(w) PROVE DataTypes'
    <2>1. CASE DequeueCommand(w) \/ ExitAfterTimeout(w)
        BY <2>1 DEF DequeueCommand, ExitAfterTimeout
    <2>2. CASE BeginScan(w)
        BY <2>2 DEF BeginScan
    <2>3. CASE ScanChunk(w)
        <3>1. assigned[w][position[w]] \in Chunks
            BY <2>3 DEF ScanChunk
        <3>2. QED BY <2>3, <3>1 DEF ScanChunk
    <2>4. CASE EndScan(w)
        BY <2>4 DEF EndScan
    <2>5. QED BY <1>5, <2>1, <2>2, <2>3, <2>4 DEF WorkerStep
<1>6. CASE DestroyNext BY <1>6 DEF DestroyNext
<1>7. CASE UNCHANGED vars BY <1>7 DEF vars
<1>8. QED BY <1>1, <1>2, <1>3, <1>4, <1>5, <1>6, <1>7 DEF Next, Stopped

LEMMA DataTypesInvariant == Spec => []DataTypes
<1>1. Init => DataTypes
    BY DEF Init, DataTypes
<1>2. QED BY <1>1, DataTypesStep, TypesInvariant, PTL DEF Spec

\* Every variable keeps its type: no cursor leaves the list of the workers, and
\* no worker reads past the list of its chunks.
THEOREM TypesCorrect == Spec => []TypeOK
<1>1. CommandTypes /\ DataTypes => TypeOK
    BY DEF CommandTypes, DataTypes, TypeOK
<1>2. QED BY <1>1, TypesInvariant, DataTypesInvariant, PTL

-----------------------------------------------------------------------------
(* The results of a query that nobody disturbs.                              *)

\* Query q runs, and _chunks was left alone and alive since it began.
Undisturbed(q) == IsCalling(q) /\ quiet[q]

\* The workers that had their turn have been dealt their chunks; all have when
\* the lock is free.
ShareInv == \A w \in Workers : (dealing = 0 \/ w < dealing) => assigned[w] = Deal(chunks, w)

IdleInv ==
    \A q \in Queries : caller[q] = "idle" =>
        cursor[q] = 1 /\ results[q] = <<>> /\ reduced[q] = <<>>

\* The worker whose results query q reduces next, were all workers loaded, and
\* the one after the i-th of its futures.
NextFuture(q) == IF results[q] = <<>> THEN cursor[q] ELSE Head(results[q])
FutureAfter(q, i) == IF i = Len(results[q]) THEN cursor[q] ELSE results[q][i + 1]

\* What is reduced are the chunks of the workers before the next future; the
\* workers between two futures have no chunks.
CountOf(q) ==
    /\ dealing = 0
    /\ Range(chunks) \subseteq alive
    /\ caller[q] = "gathering" => cursor[q] = WorkerCount + 1
    /\ Len(reduced[q]) = Dealt(chunks, NextFuture(q))
    /\ \A i \in DOMAIN results[q] :
        Dealt(chunks, FutureAfter(q, i)) = Dealt(chunks, results[q][i] + 1)

\* A worker answers with as many chunks as it has been dealt.
ScanOf(q, w) ==
    /\ w \in answered[q] => Len(answer[q][w]) = Len(Deal(chunks, w))
    /\ worker[w] = "scanning" /\ command[w] = q =>
        /\ Len(combined[w]) = position[w] - 1
        /\ position[w] <= Len(assigned[w]) + 1

CountInv == \A q \in Queries : Undisturbed(q) => CountOf(q) /\ \A w \in Workers : ScanOf(q, w)

LEMMA ShareStep == CommandTypes /\ ShareInv /\ DataTypes /\ [Next]_vars => ShareInv'
<1> SUFFICES ASSUME CommandTypes, DataTypes, ShareInv, [Next]_vars PROVE ShareInv'
    OBVIOUS
<1> USE DEF ShareInv, chunkVars
<1>1. ASSUME NEW c \in Chunks, AssignChunk(c) PROVE ShareInv'
    BY <1>1 DEF AssignChunk, Workers
<1>2. CASE DealToNext
    <2>1. /\ dealing \in Workers /\ dealing \in Nat /\ WorkerCount \in Nat
          /\ dealing # 1 => chunks' = chunks
          /\ assigned' = [assigned EXCEPT ![dealing] = Deal(chunks', dealing)]
          /\ dealing' = IF dealing = WorkerCount THEN 0 ELSE dealing + 1
        BY <1>2, WorkerCountAssumption DEF DealToNext, Workers
    <2>2. ASSUME NEW w \in Workers, (dealing = 0 \/ w < dealing)' PROVE (assigned[w] = Deal(chunks, w))'
        <3>1. w = dealing \/ (w < dealing /\ dealing # 1)
            BY <2>1, <2>2 DEF Workers
        <3>2. CASE w = dealing
            BY <2>1, <3>2 DEF DataTypes
        <3>3. CASE w # dealing /\ w < dealing /\ dealing # 1
            BY <2>1, <3>3 DEF DataTypes
        <3>4. w < dealing => w # dealing
            BY <2>1 DEF Workers
        <3>5. QED BY <3>1, <3>2, <3>3, <3>4
    <2>3. QED BY <2>2
<1>3. ASSUME UNCHANGED <<chunks, assigned, dealing>> PROVE ShareInv'
    BY <1>3 DEF Deal, Share, Remainder
<1>4. QED BY <1>1, <1>2, <1>3, OnlyAssigningDeals

LEMMA IdleStep == CommandTypes /\ IdleInv /\ [Next]_vars => IdleInv'
<1> SUFFICES ASSUME CommandTypes, IdleInv, [Next]_vars PROVE IdleInv'
    OBVIOUS
<1> USE DEF IdleInv, CommandTypes, chunkVars, callVars, workerVars, replyVars
<1>1. ASSUME NEW c \in Chunks, AssignChunk(c) \/ Expire(c) PROVE IdleInv'
    BY <1>1 DEF AssignChunk, Expire
<1>2. CASE DealToNext BY <1>2 DEF DealToNext
<1>3. ASSUME NEW q \in Queries, Process(q) \/ CallerStep(q) PROVE IdleInv'
    <2>1. CASE Process(q) BY <2>1 DEF Process
    <2>2. CASE SkipWorker(q) BY <2>2 DEF SkipWorker
    <2>3. CASE EnqueueCommand(q) BY <2>3 DEF EnqueueCommand
    <2>4. CASE StartGathering(q) BY <2>4 DEF StartGathering
    <2>5. CASE ReduceNext(q) BY <2>5 DEF ReduceNext
    <2>6. CASE Finish(q) BY <2>6 DEF Finish
    <2>7. QED BY <1>3, <2>1, <2>2, <2>3, <2>4, <2>5, <2>6 DEF CallerStep
<1>4. ASSUME NEW w \in Workers, WorkerStep(w) PROVE IdleInv'
    BY <1>4 DEF WorkerStep, DequeueCommand, ExitAfterTimeout, BeginScan, ScanChunk, EndScan
<1>5. CASE DestroyNext BY <1>5 DEF DestroyNext
<1>6. CASE UNCHANGED vars BY <1>6 DEF vars
<1>7. QED BY <1>1, <1>2, <1>3, <1>4, <1>5, <1>6 DEF Next, Stopped

\* A step that leaves query q and its workers alone leaves its counts alone.
LEMMA CountFrame ==
    ASSUME NEW q \in Queries, NEW w \in Workers,
           UNCHANGED <<chunks, dealing, assigned, caller[q], cursor[q], results[q], reduced[q]>>
    PROVE  /\ Range(chunks) \subseteq alive' /\ CountOf(q) => CountOf(q)'
           /\ UNCHANGED <<answered[q], answer[q], worker[w], command[w], combined[w], position[w]>>
                /\ ScanOf(q, w) => ScanOf(q, w)'
BY DEF CountOf, ScanOf, NextFuture, FutureAfter, Dealt, Deal, Share, Remainder

LEMMA CountProcess ==
    ASSUME CommandTypes, DataTypes, CommandInv, IdleInv, NEW r \in Queries, Process(r),
           Undisturbed(r)'
    PROVE  CountOf(r)' /\ \A w \in Workers : ScanOf(r, w)'
<1> USE DEF CommandTypes, DataTypes, Undisturbed, chunkVars, workerVars, replyVars
<1>1. /\ caller[r] = "idle"
      /\ caller' = [caller EXCEPT ![r] = "dispatching"]
      /\ quiet' = [quiet EXCEPT ![r] = dealing = 0 /\ Range(chunks) \subseteq alive]
      /\ UNCHANGED <<chunks, alive, assigned, dealing, cursor, results, reduced>>
      /\ UNCHANGED <<answer, answered, worker, command, combined, position>>
    BY DEF Process
<1>2. dealing = 0 /\ Range(chunks) \subseteq alive
    <2>1. quiet'[r] BY DEF Undisturbed
    <2>2. quiet'[r] = (dealing = 0 /\ Range(chunks) \subseteq alive)
        BY <1>1, Zenon
    <2>3. QED BY <2>1, <2>2
<1>3. cursor[r] = 1 /\ results[r] = <<>> /\ reduced[r] = <<>>
    BY <1>1 DEF IdleInv
<1>4. Dealt(chunks, 1) = 0
    <2>1. 1 \in Workers BY WorkerCountAssumption DEF Workers
    <2>2. QED BY <2>1, DealtNext
<1>5. CountOf(r)'
    <2>1. Dealt(chunks', 1) = 0 BY <1>1, <1>4
    <2>2. Len(reduced'[r]) = 0 /\ DOMAIN results'[r] = {} /\ caller'[r] # "gathering"
        BY <1>1, <1>3
    <2>3. NextFuture(r)' = 1 BY <1>1, <1>3 DEF NextFuture
    <2>4. QED BY <1>1, <1>2, <2>1, <2>2, <2>3 DEF CountOf
<1>6. ASSUME NEW w \in Workers PROVE ScanOf(r, w)'
    <2>1. w \notin answered[r] BY <1>3 DEF CommandInv, Workers
    <2>2. command[w] # r BY <1>1 DEF CommandInv, HasCommand, IsCalling
    <2>3. QED BY <1>1, <2>1, <2>2 DEF ScanOf
<1>7. QED BY <1>5, <1>6

LEMMA CountSkip ==
    ASSUME CommandTypes, DataTypes, ShareInv, NEW r \in Queries, CountOf(r), SkipWorker(r)
    PROVE  CountOf(r)'
<1> USE DEF CommandTypes, DataTypes, chunkVars, workerVars, replyVars
<1> DEFINE v == cursor[r]
<1>1. /\ v \in Workers /\ caller[r] = "dispatching" /\ MayLookEmpty(v)
      /\ cursor' = [cursor EXCEPT ![r] = v + 1]
      /\ UNCHANGED <<chunks, alive, dealing, caller, results, reduced>>
    BY DEF SkipWorker
<1>2. Dealt(chunks, v + 1) = Dealt(chunks, v)
    <2>1. Deal(chunks, v) = <<>>
        BY <1>1 DEF CountOf, MayLookEmpty, ShareInv
    <2>2. Dealt(chunks, v + 1) = Dealt(chunks, v) + Len(Deal(chunks, v)) /\ Dealt(chunks, v) \in Nat
        BY <1>1, DealtNext
    <2>3. QED BY <2>1, <2>2
<1>3. Dealt(chunks', cursor'[r]) = Dealt(chunks, cursor[r])
    BY <1>1, <1>2
<1>4. Dealt(chunks, NextFuture(r))' = Dealt(chunks, NextFuture(r))
    BY <1>1, <1>3 DEF NextFuture
<1>5. ASSUME NEW i \in DOMAIN results[r]
      PROVE  Dealt(chunks, FutureAfter(r, i))' = Dealt(chunks, FutureAfter(r, i))
    BY <1>1, <1>3 DEF FutureAfter
<1>6. QED BY <1>1, <1>4, <1>5 DEF CountOf

LEMMA CountEnqueue ==
    ASSUME CommandTypes, DataTypes, NEW r \in Queries, CountOf(r), EnqueueCommand(r)
    PROVE  CountOf(r)'
<1> USE DEF CommandTypes, DataTypes, chunkVars, workerVars, replyVars
<1> DEFINE v == cursor[r]
           s == results[r]
           n == Len(s)
<1>1. /\ v \in Workers /\ caller[r] = "dispatching"
      /\ results' = [results EXCEPT ![r] = Append(s, v)]
      /\ cursor' = [cursor EXCEPT ![r] = v + 1]
      /\ UNCHANGED <<chunks, alive, dealing, caller, reduced>>
    BY DEF EnqueueCommand
<1>2. /\ v \in Workers /\ s \in Seq(Workers) /\ n \in Nat
      /\ results'[r] = Append(s, v) /\ cursor'[r] = v + 1
    BY <1>1
<1> HIDE DEF v, s, n
<1>3. /\ DOMAIN s = 1..n
      /\ Len(Append(s, v)) = n + 1 /\ DOMAIN Append(s, v) = 1..(n + 1)
      /\ Append(s, v)[n + 1] = v
      /\ \A i \in 1..n : Append(s, v)[i] = s[i]
      /\ Append(s, v) # <<>>
      /\ Head(Append(s, v)) = Append(s, v)[1]
      /\ s # <<>> => Head(s) = s[1] /\ 1 \in 1..n
      /\ s = <<>> => n = 0
    BY ONLY <1>2, AppendElements DEF n
<1>4. NextFuture(r)' = NextFuture(r)
    BY <1>1, <1>2, <1>3 DEF NextFuture, s, v, n
<1>5. ASSUME NEW i \in 1..(n + 1)
      PROVE  Dealt(chunks, FutureAfter(r, i)') = Dealt(chunks, results'[r][i] + 1)
    <2>1. CASE i = n + 1
        BY <1>2, <1>3, <2>1 DEF FutureAfter
    <2>2. CASE i = n
        <3>1. i \in 1..n /\ i # n + 1
            BY <1>2, <1>5, <2>2
        <3>2. FutureAfter(r, i) = v
            BY <2>2 DEF FutureAfter, v, n, s
        <3>3. FutureAfter(r, i)' = v
            BY <1>2, <1>3, <2>2, <3>1 DEF FutureAfter
        <3>4. results'[r][i] = s[i] BY <1>2, <1>3, <3>1
        <3>5. QED BY <1>3, <3>1, <3>2, <3>3, <3>4 DEF CountOf, s
    <2>3. CASE i # n /\ i # n + 1
        <3>1. i \in 1..n /\ i + 1 \in 1..n BY <1>2, <1>5, <2>3
        <3>2. FutureAfter(r, i)' = FutureAfter(r, i)
            BY <1>2, <1>3, <2>3, <3>1 DEF FutureAfter, n, s
        <3>3. results'[r][i] = s[i] BY <1>2, <1>3, <3>1
        <3>4. QED BY <1>3, <3>1, <3>2, <3>3 DEF CountOf, s
    <2>4. QED BY <2>1, <2>2, <2>3
<1>6. QED BY <1>1, <1>2, <1>3, <1>4, <1>5 DEF CountOf

LEMMA CountReduce ==
    ASSUME CommandTypes, DataTypes, NEW r \in Queries, CountOf(r),
           \A w \in Workers : ScanOf(r, w), ReduceNext(r)
    PROVE  CountOf(r)'
<1> USE DEF CommandTypes, DataTypes, chunkVars, workerVars, replyVars
<1> DEFINE s == results[r]
           n == Len(s)
           w == Head(s)
<1>1. /\ s # <<>> /\ w \in answered[r]
      /\ reduced' = [reduced EXCEPT ![r] = reduced[r] \o answer[r][w]]
      /\ results' = [results EXCEPT ![r] = Tail(s)]
      /\ UNCHANGED <<chunks, alive, dealing, caller, cursor>>
    BY DEF ReduceNext
<1>2. /\ s \in Seq(Workers) /\ n \in Nat \ {0} /\ DOMAIN s = 1..n
      /\ w \in Workers /\ w = s[1] /\ 1 \in DOMAIN s
      /\ results'[r] = Tail(s) /\ Len(Tail(s)) = n - 1 /\ DOMAIN Tail(s) = 1..(n - 1)
      /\ \A i \in 1..(n - 1) : Tail(s)[i] = s[i + 1] /\ i + 1 \in DOMAIN s
      /\ Tail(s) # <<>> => Head(Tail(s)) = Tail(s)[1] /\ n # 1
      /\ Tail(s) = <<>> => n = 1
    BY <1>1, TailElements
<1>3. Len(reduced'[r]) = Len(reduced[r]) + Len(Deal(chunks, w))
    <2>1. answer[r][w] \in Seq(Chunks) /\ reduced[r] \in Seq(Chunks)
        BY <1>2
    <2>2. Len(reduced[r] \o answer[r][w]) = Len(reduced[r]) + Len(answer[r][w])
        BY <2>1
    <2>3. Len(answer[r][w]) = Len(Deal(chunks, w))
        BY <1>1, <1>2 DEF ScanOf
    <2>4. QED BY <1>1, <2>2, <2>3
<1> HIDE DEF s, n, w
<1>4. Len(reduced'[r]) = Dealt(chunks, w + 1)
    <2>1. Dealt(chunks, w + 1) = Dealt(chunks, w) + Len(Deal(chunks, w))
        BY <1>2, DealtNext
    <2>2. Len(reduced[r]) = Dealt(chunks, w)
        BY <1>1, <1>2 DEF CountOf, NextFuture, s, w
    <2>3. QED BY <1>3, <2>1, <2>2
<1>5. Dealt(chunks, w + 1) = Dealt(chunks, FutureAfter(r, 1))
    BY <1>2 DEF CountOf, s
<1>6. FutureAfter(r, 1) = NextFuture(r)'
    <2>1. CASE n = 1
        BY <1>1, <1>2, <2>1 DEF FutureAfter, NextFuture, s, n
    <2>2. CASE n # 1
        <3>1. n \in Nat \ {0} /\ Tail(s) # <<>> BY <1>2, <2>2
        <3>2. 1 \in 1..(n - 1) BY <2>2, <3>1
        <3>3. NextFuture(r)' = s[1 + 1] BY <1>2, <3>1, <3>2 DEF NextFuture
        <3>4. QED BY <2>2, <3>3 DEF FutureAfter, s, n
    <2>3. QED BY <2>1, <2>2
<1>7. ASSUME NEW i \in 1..(n - 1)
      PROVE  Dealt(chunks, FutureAfter(r, i)') = Dealt(chunks, results'[r][i] + 1)
    <2>1. FutureAfter(r, i)' = FutureAfter(r, i + 1)
        <3>1. CASE i = n - 1
            BY <1>1, <1>2, <3>1 DEF FutureAfter, n, s
        <3>2. CASE i # n - 1
            <4>1. i + 1 \in 1..(n - 1) /\ i + 1 # n BY <1>2, <1>7, <3>2
            <4>2. results'[r][i + 1] = s[i + 1 + 1] BY <1>2, <4>1
            <4>3. QED BY <1>1, <1>2, <3>2, <4>1, <4>2 DEF FutureAfter, n, s
        <3>3. QED BY <3>1, <3>2
    <2>2. results'[r][i] = s[i + 1] /\ i + 1 \in DOMAIN s
        BY <1>2
    <2>3. QED BY <2>1, <2>2 DEF CountOf, s
<1>8. QED BY <1>1, <1>2, <1>4, <1>5, <1>6, <1>7 DEF CountOf

LEMMA CountCaller ==
    ASSUME CommandTypes, DataTypes, CommandInv, ShareInv, IdleInv, CountInv,
           NEW r \in Queries, Process(r) \/ CallerStep(r)
    PROVE  CountInv'
<1> USE DEF CommandTypes, chunkVars, callVars, workerVars, replyVars
<1>1. /\ UNCHANGED <<chunks, alive, assigned, dealing>>
      /\ UNCHANGED <<answered, answer, worker, command, combined, position>>
      /\ Process(r) \/ quiet' = quiet
    BY DEF Process, CallerStep, SkipWorker, EnqueueCommand, StartGathering, ReduceNext, Finish
<1>2. ASSUME NEW q \in Queries, q # r
      PROVE  UNCHANGED <<caller[q], cursor[q], results[q], reduced[q], quiet[q]>>
    BY <1>2 DEF DataTypes, Process, CallerStep, SkipWorker, EnqueueCommand, StartGathering, ReduceNext,
        Finish
<1>3. ASSUME NEW q \in Queries, q # r, Undisturbed(q)'
      PROVE  CountOf(q)' /\ \A w \in Workers : ScanOf(q, w)'
    <2>1. Undisturbed(q) BY <1>2, <1>3 DEF Undisturbed, IsCalling
    <2>2. CountOf(q) /\ \A w \in Workers : ScanOf(q, w)
        BY <2>1 DEF CountInv
    <2>3. Range(chunks) \subseteq alive' BY <1>1, <2>2 DEF CountOf
    <2>4. ASSUME NEW w \in Workers PROVE CountOf(q)' /\ ScanOf(q, w)'
        BY <1>1, <1>2, <1>3, <2>2, <2>3, CountFrame
    <2>5. 1 \in Workers BY WorkerCountAssumption DEF Workers
    <2>6. QED BY <2>4, <2>5
<1>4. ASSUME Undisturbed(r)', ~Process(r)
      PROVE  CountOf(r)' /\ \A w \in Workers : ScanOf(r, w)'
    <2>1. CallerStep(r) /\ quiet[r] BY <1>1, <1>4 DEF Undisturbed
    <2>2. Undisturbed(r)
        BY <2>1 DEF Undisturbed, IsCalling, CallerStep, SkipWorker, EnqueueCommand, StartGathering,
            ReduceNext, Finish
    <2>3. CountOf(r) /\ \A w \in Workers : ScanOf(r, w)
        BY <2>2 DEF CountInv
    <2>4. \A w \in Workers : ScanOf(r, w)'
        BY <1>1, <2>3 DEF ScanOf, Deal, Share, Remainder
    <2>5. CASE StartGathering(r)
        <3>1. cursor'[r] = WorkerCount + 1
            BY <2>5, WorkerCountAssumption DEF StartGathering, Workers
        <3>2. UNCHANGED <<chunks, alive, dealing, cursor, results, reduced>>
            BY <2>5 DEF StartGathering
        <3>3. QED BY <2>3, <2>4, <3>1, <3>2 DEF CountOf, NextFuture, FutureAfter
    <2>6. CASE Finish(r)
        BY <1>4, <2>6 DEF Finish, Undisturbed, IsCalling
    <2>7. QED BY <2>1, <2>3, <2>4, <2>5, <2>6, CountSkip, CountEnqueue, CountReduce DEF CallerStep
<1>5. QED BY <1>3, <1>4, CountProcess DEF CountInv

LEMMA CountWorker ==
    ASSUME CommandTypes, DataTypes, CommandInv, ShareInv, CountInv,
           NEW v \in Workers, WorkerStep(v)
    PROVE  CountInv'
<1> USE DEF CommandTypes, DataTypes, chunkVars, callVars, workerVars, replyVars
<1>1. UNCHANGED <<chunks, alive, assigned, dealing, caller, cursor, results, reduced, quiet>>
    BY DEF WorkerStep, DequeueCommand, ExitAfterTimeout, BeginScan, ScanChunk, EndScan
<1>2. SUFFICES ASSUME NEW q \in Queries, Undisturbed(q)', NEW w \in Workers
               PROVE  CountOf(q)' /\ ScanOf(q, w)'
    <2>1. 1 \in Workers BY WorkerCountAssumption DEF Workers
    <2>2. QED BY <1>2, <2>1 DEF CountInv
<1>3. Undisturbed(q)
    BY <1>1, <1>2 DEF Undisturbed, IsCalling
<1>4. CountOf(q) /\ ScanOf(q, w)
    BY <1>3 DEF CountInv
<1>5. CountOf(q)'
    <2>1. Range(chunks) \subseteq alive' BY <1>1, <1>4 DEF CountOf
    <2>2. QED BY <1>1, <1>4, <2>1, CountFrame
<1>6. assigned[w] = Deal(chunks, w) /\ assigned[w] \in Seq(Chunks)
    BY <1>4 DEF CountOf, ShareInv
<1>7. Deal(chunks', w) = Deal(chunks, w)
    BY <1>1
<1>8. CASE DequeueCommand(v)
    <2>1. UNCHANGED <<answered, answer, combined, position>> /\ (worker'[w] = "scanning" => w # v)
        BY <1>8 DEF DequeueCommand
    <2>2. w # v => worker'[w] = worker[w] /\ command'[w] = command[w]
        BY <1>8 DEF DequeueCommand
    <2>3. QED BY <1>1, <1>4, <1>5, <1>7, <2>1, <2>2 DEF ScanOf
<1>9. CASE ExitAfterTimeout(v)
    <2>1. UNCHANGED <<answered, answer, combined, position, command>>
          /\ (worker'[w] = "scanning" => worker[w] = "scanning")
        BY <1>9 DEF ExitAfterTimeout
    <2>2. QED BY <1>1, <1>4, <1>5, <1>7, <2>1 DEF ScanOf
<1>10. CASE BeginScan(v)
    <2>1. UNCHANGED <<answered, answer, command>>
          /\ (w = v => combined'[w] = <<>> /\ position'[w] = 1)
          /\ (w # v => UNCHANGED <<worker[w], combined[w], position[w]>>)
        BY <1>10 DEF BeginScan
    <2>2. Len(<<>>) = 1 - 1 /\ 1 <= Len(assigned[w]) + 1
        BY <1>6
    <2>3. QED BY <1>1, <1>4, <1>5, <1>7, <2>1, <2>2 DEF ScanOf
<1>11. CASE ScanChunk(v)
    <2> DEFINE c == assigned[v][position[v]]
    <2>1. /\ worker[v] = "scanning" /\ position[v] <= Len(assigned[v])
          /\ combined' = [combined EXCEPT ![v] = IF c \in alive THEN Append(combined[v], c) ELSE combined[v]]
          /\ position' = [position EXCEPT ![v] = position[v] + 1]
          /\ UNCHANGED <<worker, command, answered, answer>>
        BY <1>11 DEF ScanChunk
    <2>2. CASE w # v
        BY <1>1, <1>4, <1>5, <1>7, <2>1, <2>2 DEF ScanOf
    <2>3. CASE w = v
        <3>1. c \in alive
            <4>1. position[v] \in DOMAIN assigned[v] BY <1>6, <2>1, <2>3
            <4>2. c \in Range(assigned[v]) BY <4>1 DEF Range
            <4>3. Range(assigned[v]) \subseteq Range(chunks) BY <1>6, <2>3, DealIsIn
            <4>4. QED BY <1>4, <4>2, <4>3 DEF CountOf
        <3>2. combined[v] \in Seq(Chunks) /\ c \in Chunks
            BY <3>1
        <3>3. combined'[v] = Append(combined[v], c)
            BY <2>1, <3>1
        <3>4. Len(combined'[v]) = Len(combined[v]) + 1 /\ Len(combined[v]) \in Nat
            BY <3>2, <3>3
        <3>5. position'[v] = position[v] + 1 /\ position[v] \in Nat /\ Len(assigned[v]) \in Nat
            BY <2>1, <1>6, <2>3
        <3>6. QED BY <1>1, <1>4, <1>5, <1>7, <2>1, <2>3, <3>4, <3>5 DEF ScanOf
    <2>4. QED BY <2>2, <2>3
<1>12. CASE EndScan(v)
    <2> DEFINE p == command[v]
    <2>1. /\ worker[v] = "scanning" /\ position[v] > Len(assigned[v])
          /\ answer' = [answer EXCEPT ![p][v] = combined[v]]
          /\ answered' = [answered EXCEPT ![p] = answered[p] \union {v}]
          /\ worker'[v] # "scanning"
          /\ w # v => worker'[w] = worker[w] /\ command'[w] = command[w]
          /\ UNCHANGED <<position, combined>>
        BY <1>12 DEF EndScan, WorkerPlaces
    <2>2. CASE w = v /\ q = p
        <3>1. answer'[q][w] = combined[w] BY <2>1, <2>2
        <3>2. /\ Len(combined[w]) = position[w] - 1 /\ position[w] <= Len(assigned[w]) + 1
              /\ position[w] > Len(assigned[w])
            BY <1>4, <2>1, <2>2 DEF ScanOf
        <3>3. position[w] \in Nat /\ Len(assigned[w]) \in Nat
            BY <1>6
        <3>4. Len(combined[w]) = Len(Deal(chunks, w))
            BY <1>6, <3>2, <3>3
        <3>5. QED BY <1>5, <1>7, <2>1, <2>2, <3>1, <3>4 DEF ScanOf
    <2>3. CASE ~(w = v /\ q = p)
        <3>1. answer'[q][w] = answer[q][w] /\ (w \in answered'[q] => w \in answered[q])
            BY <2>1, <2>3
        <3>2. QED BY <1>1, <1>4, <1>5, <1>7, <2>1, <3>1 DEF ScanOf
    <2>4. QED BY <2>2, <2>3
<1>13. QED BY <1>8, <1>9, <1>10, <1>11, <1>12 DEF WorkerStep

LEMMA CountStep ==
    CommandTypes /\ DataTypes /\ CommandInv /\ ShareInv /\ IdleInv /\ CountInv /\ [Next]_vars => CountInv'
<1> SUFFICES ASSUME CommandTypes, DataTypes, CommandInv, ShareInv, IdleInv, CountInv, [Next]_vars
             PROVE  CountInv'
    OBVIOUS
<1> USE DEF chunkVars, callVars, workerVars, replyVars
<1>1. ASSUME Disturb, UNCHANGED caller PROVE CountInv'
    <2>1. \A q \in Queries : ~Undisturbed(q)'
        BY <1>1 DEF Disturb, Undisturbed, IsCalling
    <2>2. QED BY <2>1 DEF CountInv
<1>2. ASSUME NEW c \in Chunks, AssignChunk(c) PROVE CountInv'
    BY <1>1, <1>2 DEF AssignChunk
<1>3. CASE DealToNext
    BY <1>1, <1>3 DEF DealToNext
<1>4. ASSUME NEW c \in Chunks, Expire(c) PROVE CountInv'
    <2>1. /\ UNCHANGED <<chunks, assigned, dealing, caller, cursor, results, reduced>>
          /\ UNCHANGED <<answered, answer, worker, command, combined, position>>
          /\ alive' = alive \ {c}
          /\ quiet' = [q \in Queries |-> quiet[q] /\ ~(IsCalling(q) /\ c \in Range(chunks))]
        BY <1>4 DEF Expire
    <2>2. SUFFICES ASSUME NEW q \in Queries, Undisturbed(q)', NEW w \in Workers
                   PROVE  CountOf(q)' /\ ScanOf(q, w)'
        <3>1. 1 \in Workers BY WorkerCountAssumption DEF Workers
        <3>2. QED BY <2>2, <3>1 DEF CountInv
    <2>3. Undisturbed(q) /\ c \notin Range(chunks)
        BY <2>1, <2>2 DEF Undisturbed, IsCalling
    <2>4. CountOf(q) /\ ScanOf(q, w)
        BY <2>3 DEF CountInv
    <2>5. Range(chunks) \subseteq alive'
        BY <2>1, <2>3, <2>4 DEF CountOf
    <2>6. QED BY <2>1, <2>4, <2>5, CountFrame
<1>5. CASE DestroyNext \/ UNCHANGED vars
    <2>1. UNCHANGED <<chunkVars, callVars, workerVars, replyVars, quiet>>
        BY <1>5 DEF DestroyNext, vars
    <2>2. ASSUME NEW q \in Queries, NEW w \in Workers, Undisturbed(q)'
          PROVE  CountOf(q)' /\ ScanOf(q, w)'
        <3>1. Undisturbed(q) BY <2>1, <2>2 DEF Undisturbed, IsCalling
        <3>2. CountOf(q) /\ ScanOf(q, w) BY <3>1 DEF CountInv
        <3>3. Range(chunks) \subseteq alive' BY <2>1, <3>2 DEF CountOf
        <3>4. QED BY <2>1, <3>2, <3>3, CountFrame
    <2>3. 1 \in Workers BY WorkerCountAssumption DEF Workers
    <2>4. QED BY <2>2, <2>3 DEF CountInv
<1>6. QED BY <1>2, <1>3, <1>4, <1>5, CountCaller, CountWorker DEF Next, Stopped

\* A query during which no chunk is assigned or released returns one result for
\* every registered chunk, whatever workers were skipped for having no chunks
\* and however its workers are interleaved.
THEOREM SlotsCounted == Spec => []EverySlotCounted
<1>1. Init => ShareInv /\ IdleInv /\ CountInv
    <2>1. ASSUME NEW w \in Workers PROVE Deal(<<>>, w) = <<>>
        <3>1. <<>> \in Seq({})
            OBVIOUS
        <3>2. Deal(<<>>, w) \in Seq({})
            BY <3>1, DealIsIn
        <3>3. QED BY <3>2
    <2>2. QED BY <2>1 DEF Init, ShareInv, IdleInv, CountInv, Undisturbed, IsCalling
<1>2. DataTypes /\ CountInv => EverySlotCounted
    <2> SUFFICES ASSUME DataTypes, CountInv, NEW q \in Queries, IsCompleteAndQuiet(q)
                 PROVE  Len(reduced[q]) = Len(chunks)
        BY DEF EverySlotCounted
    <2>1. CountOf(q) /\ caller[q] = "gathering" /\ results[q] = <<>>
        BY DEF CountInv, Undisturbed, IsCompleteAndQuiet, IsCalling
    <2>2. NextFuture(q) = WorkerCount + 1
        BY <2>1 DEF CountOf, NextFuture
    <2>3. WorkerCount + 1 \notin Workers
        BY WorkerCountAssumption DEF Workers
    <2>4. Dealt(chunks, WorkerCount + 1) = Len(chunks)
        BY <2>3 DEF Dealt
    <2>5. QED BY <2>1, <2>2, <2>4 DEF CountOf
<1>3. QED
    BY <1>1, <1>2, TypesInvariant, DataTypesInvariant, CommandInvariant, ShareStep, IdleStep, CountStep,
        PTL DEF Spec

=============================================================================
