---------------------------- MODULE Cancellation -----------------------------
(***************************************************************************)
(* cancellation_token_source, its cancellation_tokens and their callbacks    *)
(* (cancellation_token_source.cpp).                                         *)
(*                                                                         *)
(* Any thread may call any operation on what it shares with the others.  A   *)
(* call is a stack of frames, because cancelling runs callbacks, and the     *)
(* callback of a source that is linked to a token cancels that source.  The  *)
(* other callbacks return without calling into the library: one that did     *)
(* would wait for the lock its own thread holds.                             *)
(*                                                                         *)
(* A callback and the callback_token it was registered with are one          *)
(* identifier; the callback of a linked source is that source.               *)
(***************************************************************************)
EXTENDS Naturals, Sequences

CONSTANTS
    Threads,
    Sources,
    Tokens,
    Callbacks,      \* the callbacks of users, each registered at most once
    Links,          \* the sources that are constructed from a token
    Timed,          \* the sources that are constructed with a time
    SourceOf,       \* the source that creates each token
    TokenOf,        \* the token of each callback and of each linked source
    Nobody          \* no thread

ASSUME KindsAssumption ==
    /\ Sources \intersect Tokens = {}
    /\ Callbacks \intersect (Sources \union Tokens) = {}
ASSUME LinksAssumption == Links \subseteq Sources
ASSUME TimedAssumption == Timed \subseteq Sources \ Links /\ Timed \intersect Threads = {}
ASSUME SourceOfAssumption == SourceOf \in [Tokens -> Sources]
ASSUME TokenOfAssumption == TokenOf \in [Callbacks \union Links -> Tokens]
ASSUME NobodyAssumption == Nobody \notin Threads \union Timed

VARIABLES
    source,         \* where each source is in its life
    waiting,        \* the timed sources whose detached thread is still asleep
    sourceSignal,   \* _signal of its Impl
    tokens,         \* _tokens of its Impl: no order matters, and entries may be expired
    readers,        \* the threads that hold the lock of its Impl as readers
    token,          \* where each token is in its life
    signal,         \* _signal of the token
    callbacks,      \* _callbacks of the token
    holder,         \* the thread that holds the lock of the token
    handle,         \* where each callback_token is in its life
    calls,          \* how often each callback was called
    stack           \* the frames of each thread, the innermost first

sourceVars == <<source, waiting, sourceSignal, tokens, readers>>
tokenVars  == <<token, signal, callbacks, holder>>
vars == <<sourceVars, tokenVars, handle, calls, stack>>

Registrations == Callbacks \union Links

Places == {"exchange_source", "lock_source", "cancel_tokens", "erase_expired",
           "exchange_token", "lock_token", "call_callbacks",
           "register_token", "recheck", "created",
           "check_canceled", "insert_callback", "linked"}

\* A timed source has a thread of its own, which has the source's name.
Runners == Threads \union Timed

\* Sources that are neither linked nor timed may be constructed as cancelled.
Init ==
    /\ source = [s \in Sources |-> IF s \in Links THEN "none" ELSE "alive"]
    /\ sourceSignal \in [Sources -> BOOLEAN]
    /\ \A s \in Links \union Timed : ~sourceSignal[s]
    /\ waiting = Timed
    /\ tokens = [s \in Sources |-> {}]
    /\ readers = [s \in Sources |-> {}]
    /\ token = [k \in Tokens |-> "none"]
    /\ signal = [k \in Tokens |-> FALSE]
    /\ callbacks = [k \in Tokens |-> {}]
    /\ holder = [k \in Tokens |-> Nobody]
    /\ handle = [c \in Registrations |-> "none"]
    /\ calls = [c \in Callbacks |-> 0]
    /\ stack = [t \in Runners |-> <<>>]

-----------------------------------------------------------------------------
(* Frames.  `on' is the object of the call, `todo' what its loop has left.   *)

Frame(place, object) == [at |-> place, on |-> object, todo |-> {}]

IsIdle(t) == stack[t] = <<>>
At(t, place) == ~IsIdle(t) /\ Head(stack[t]).at = place
On(t) == Head(stack[t]).on
Todo(t) == Head(stack[t]).todo

Begin(t, frames) == stack' = [stack EXCEPT ![t] = frames]
Return(t) == stack' = [stack EXCEPT ![t] = Tail(@)]
Continue(t, place, todo) ==
    stack' = [stack EXCEPT ![t] = <<[at |-> place, on |-> On(t), todo |-> todo]>> \o Tail(@)]
CallFrom(t, place, todo, callee) ==
    stack' = [stack EXCEPT ![t] =
                <<callee, [at |-> place, on |-> On(t), todo |-> todo]>> \o Tail(@)]

\* The thread was told by its user to work on this object: it is not there
\* because a callback brought it there.
IsUsed(object) ==
    \E t \in Runners : ~IsIdle(t) /\ stack[t][Len(stack[t])].on = object

-----------------------------------------------------------------------------
(* cancellation_token_source::Impl::cancel.                                  *)

Cancel(t, s) ==
    /\ IsIdle(t)
    /\ source[s] = "alive"
    /\ Begin(t, <<Frame("exchange_source", s)>>)
    /\ UNCHANGED <<sourceVars, tokenVars, handle, calls>>

\* sleep_for or sleep_until comes back on the detached thread.
TimeUp(s) ==
    /\ s \in waiting
    /\ waiting' = waiting \ {s}
    /\ Begin(s, <<Frame("exchange_source", s)>>)
    /\ UNCHANGED <<source, sourceSignal, tokens, readers, tokenVars, handle, calls>>

ExchangeSource(t) ==
    LET s == On(t) IN
    /\ At(t, "exchange_source")
    /\ sourceSignal' = [sourceSignal EXCEPT ![s] = TRUE]
    /\ IF sourceSignal[s] THEN Return(t) ELSE Continue(t, "lock_source", {})
    /\ UNCHANGED <<source, waiting, tokens, readers, tokenVars, handle, calls>>

\* The read lock; writers hold the lock within one step only.
LockSource(t) ==
    LET s == On(t) IN
    /\ At(t, "lock_source")
    /\ readers' = [readers EXCEPT ![s] = @ \union {t}]
    /\ Continue(t, "cancel_tokens", tokens[s])
    /\ UNCHANGED <<source, waiting, sourceSignal, tokens, tokenVars, handle, calls>>

\* The next token is cancelled, or passed over if it is gone.
CancelNextToken(t) ==
    /\ At(t, "cancel_tokens")
    /\ \E k \in Todo(t) :
        IF token[k] = "dropped"
        THEN Continue(t, "cancel_tokens", Todo(t) \ {k})
        ELSE CallFrom(t, "cancel_tokens", Todo(t) \ {k}, Frame("exchange_token", k))
    /\ UNCHANGED <<sourceVars, tokenVars, handle, calls>>

\* Mutant: the write lock is asked for in the scope of the read lock.
UnlockSourceTooLate(t) ==
    /\ At(t, "cancel_tokens")
    /\ Todo(t) = {}
    /\ Continue(t, "erase_expired", {})
    /\ UNCHANGED <<sourceVars, tokenVars, handle, calls>>

UnlockSource(t) ==
    LET s == On(t) IN
    /\ At(t, "cancel_tokens")
    /\ Todo(t) = {}
    /\ readers' = [readers EXCEPT ![s] = @ \ {t}]
    /\ Continue(t, "erase_expired", {})
    /\ UNCHANGED <<source, waiting, sourceSignal, tokens, tokenVars, handle, calls>>

\* Under the write lock.
EraseExpired(t) ==
    LET s == On(t) IN
    /\ At(t, "erase_expired")
    /\ readers[s] = {}
    /\ tokens' = [tokens EXCEPT ![s] = {k \in @ : token[k] # "dropped"}]
    /\ Return(t)
    /\ UNCHANGED <<source, waiting, sourceSignal, readers, tokenVars, handle, calls>>

-----------------------------------------------------------------------------
(* cancellation_token_impl::cancel.                                          *)

ExchangeToken(t) ==
    LET k == On(t) IN
    /\ At(t, "exchange_token")
    /\ signal' = [signal EXCEPT ![k] = TRUE]
    /\ IF signal[k] THEN Return(t) ELSE Continue(t, "lock_token", {})
    /\ UNCHANGED <<sourceVars, token, callbacks, holder, handle, calls>>

\* Mutant: the callbacks are copied and called without the lock.
CopyCallbacks(t) ==
    LET k == On(t) IN
    /\ At(t, "lock_token")
    /\ holder[k] = Nobody
    /\ Continue(t, "call_callbacks", callbacks[k])
    /\ UNCHANGED <<sourceVars, tokenVars, handle, calls>>

\* The lock is held while the callbacks are called.
LockToken(t) ==
    LET k == On(t) IN
    /\ At(t, "lock_token")
    /\ holder[k] = Nobody
    /\ holder' = [holder EXCEPT ![k] = t]
    /\ Continue(t, "call_callbacks", callbacks[k])
    /\ UNCHANGED <<sourceVars, token, signal, callbacks, handle, calls>>

CallUserCallback(t) ==
    /\ At(t, "call_callbacks")
    /\ \E c \in Todo(t) \intersect Callbacks :
        /\ calls' = [calls EXCEPT ![c] = @ + 1]
        /\ Continue(t, "call_callbacks", Todo(t) \ {c})
    /\ UNCHANGED <<sourceVars, tokenVars, handle>>

\* The callback of a linked source is this->cancel().
CallLinkedSource(t) ==
    /\ At(t, "call_callbacks")
    /\ \E s \in Todo(t) \intersect Links :
        CallFrom(t, "call_callbacks", Todo(t) \ {s}, Frame("exchange_source", s))
    /\ UNCHANGED <<sourceVars, tokenVars, handle, calls>>

ClearCallbacks(t) ==
    LET k == On(t) IN
    /\ At(t, "call_callbacks")
    /\ Todo(t) = {}
    /\ callbacks' = [callbacks EXCEPT ![k] = {}]
    /\ holder' = [holder EXCEPT ![k] = Nobody]
    /\ Return(t)
    /\ UNCHANGED <<sourceVars, token, signal, handle, calls>>

-----------------------------------------------------------------------------
(* cancellation_token_source::create_token.                                  *)

\* The token starts with the signal its source has at this moment.
CreateToken(t, k) ==
    LET s == SourceOf[k] IN
    /\ IsIdle(t)
    /\ source[s] = "alive"
    /\ token[k] = "none"
    /\ token' = [token EXCEPT ![k] = "creating"]
    /\ signal' = [signal EXCEPT ![k] = sourceSignal[s]]
    /\ Begin(t, <<Frame("register_token", k)>>)
    /\ UNCHANGED <<sourceVars, callbacks, holder, handle, calls>>

\* register_token, under the write lock.
RegisterToken(t) ==
    LET k == On(t)
        s == SourceOf[k] IN
    /\ At(t, "register_token")
    /\ readers[s] = {}
    /\ tokens' = [tokens EXCEPT ![s] = @ \union {k}]
    /\ Continue(t, "recheck", {})
    /\ UNCHANGED <<source, waiting, sourceSignal, readers, tokenVars, handle, calls>>

\* Mutant: the source is not looked at again.
RecheckNothing(t) ==
    /\ At(t, "recheck")
    /\ Continue(t, "created", {})
    /\ UNCHANGED <<sourceVars, tokenVars, handle, calls>>

\* A source that was cancelled meanwhile may have missed the token.
Recheck(t) ==
    LET k == On(t) IN
    /\ At(t, "recheck")
    /\ IF sourceSignal[SourceOf[k]]
       THEN CallFrom(t, "created", {}, Frame("exchange_token", k))
       ELSE Continue(t, "created", {})
    /\ UNCHANGED <<sourceVars, tokenVars, handle, calls>>

ReturnToken(t) ==
    /\ At(t, "created")
    /\ token' = [token EXCEPT ![On(t)] = "owned"]
    /\ Return(t)
    /\ UNCHANGED <<sourceVars, signal, callbacks, holder, handle, calls>>

-----------------------------------------------------------------------------
(* register_callback, and the constructor of a source from a token.          *)

RegisterCallback(t, c) ==
    /\ IsIdle(t)
    /\ token[TokenOf[c]] = "owned"
    /\ handle[c] = "none"
    /\ handle' = [handle EXCEPT ![c] = "registering"]
    /\ Begin(t, <<Frame("check_canceled", c)>>)
    /\ UNCHANGED <<sourceVars, tokenVars, calls>>

\* The source copies the signal of the token and registers its own cancel.
LinkSource(t, s) ==
    /\ IsIdle(t)
    /\ token[TokenOf[s]] = "owned"
    /\ source[s] = "none"
    /\ source' = [source EXCEPT ![s] = "linking"]
    /\ sourceSignal' = [sourceSignal EXCEPT ![s] = signal[TokenOf[s]]]
    /\ handle' = [handle EXCEPT ![s] = "registering"]
    /\ Begin(t, <<Frame("check_canceled", s), Frame("linked", s)>>)
    /\ UNCHANGED <<waiting, tokens, readers, tokenVars, calls>>

\* Mutant: the return after the call is missing.
CallAtOnceAndGoOn(t) ==
    LET c == On(t) IN
    /\ At(t, "check_canceled")
    /\ signal[TokenOf[c]]
    /\ c \in Callbacks
    /\ calls' = [calls EXCEPT ![c] = @ + 1]
    /\ Continue(t, "insert_callback", {})
    /\ UNCHANGED <<sourceVars, tokenVars, handle>>

\* The callback is called at once on the registering thread, and there is no
\* callback token.
CallAtOnce(t) ==
    LET c == On(t) IN
    /\ At(t, "check_canceled")
    /\ signal[TokenOf[c]]
    /\ handle' = [handle EXCEPT ![c] = "null"]
    /\ IF c \in Links
       THEN Continue(t, "exchange_source", {}) /\ UNCHANGED calls
       ELSE Return(t) /\ calls' = [calls EXCEPT ![c] = @ + 1]
    /\ UNCHANGED <<sourceVars, tokenVars>>

FindNotCanceled(t) ==
    /\ At(t, "check_canceled")
    /\ ~signal[TokenOf[On(t)]]
    /\ Continue(t, "insert_callback", {})
    /\ UNCHANGED <<sourceVars, tokenVars, handle, calls>>

\* The callback is inserted under the lock, whatever the signal is by then.
InsertCallback(t) ==
    LET c == On(t)
        k == TokenOf[c] IN
    /\ At(t, "insert_callback")
    /\ holder[k] = Nobody
    /\ callbacks' = [callbacks EXCEPT ![k] = @ \union {c}]
    /\ handle' = [handle EXCEPT ![c] = "held"]
    /\ Return(t)
    /\ UNCHANGED <<sourceVars, token, signal, holder, calls>>

FinishLink(t) ==
    /\ At(t, "linked")
    /\ source' = [source EXCEPT ![On(t)] = "alive"]
    /\ Return(t)
    /\ UNCHANGED <<waiting, sourceSignal, tokens, readers, tokenVars, handle, calls>>

-----------------------------------------------------------------------------
(* Unregistration and destruction.  Each takes its lock in one step; a thread *)
(* that waits for the lock has changed nothing yet.                          *)

\* unregister_callback(const callback_token&): the callback_token lives on.
UnregisterCallback(t, c) ==
    LET k == TokenOf[c] IN
    /\ IsIdle(t)
    /\ handle[c] = "held"
    /\ token[k] = "owned"
    /\ holder[k] = Nobody
    /\ callbacks' = [callbacks EXCEPT ![k] = @ \ {c}]
    /\ handle' = [handle EXCEPT ![c] = "removed"]
    /\ UNCHANGED <<sourceVars, token, signal, holder, calls, stack>>

\* unregister_callback(callback_token&&): the pointer is released, not
\* destroyed, and the callback stays where it is.
ReleaseHandle(t, c) ==
    /\ IsIdle(t)
    /\ handle[c] = "held"
    /\ token[TokenOf[c]] = "owned"
    /\ handle' = [handle EXCEPT ![c] = "leaked"]
    /\ UNCHANGED <<sourceVars, tokenVars, calls, stack>>

\* The destructor of the callback_token removes the callback.
DestroyHandle(t, c) ==
    LET k == TokenOf[c] IN
    /\ IsIdle(t)
    /\ handle[c] \in {"held", "removed"}
    /\ holder[k] = Nobody
    /\ callbacks' = [callbacks EXCEPT ![k] = @ \ {c}]
    /\ handle' = [handle EXCEPT ![c] = "gone"]
    /\ UNCHANGED <<sourceVars, token, signal, holder, calls, stack>>

\* The last owner of a token drops it.  Its callback_tokens hold a pointer to
\* it, and the sources that are linked to it are its owners.
DropToken(k) ==
    /\ token[k] = "owned"
    /\ ~IsUsed(k)
    /\ \A c \in Callbacks : TokenOf[c] = k => handle[c] \notin {"registering", "held", "removed"}
    /\ \A s \in Links : TokenOf[s] = k => source[s] \notin {"linking", "alive"}
    /\ token' = [token EXCEPT ![k] = "dropped"]
    /\ UNCHANGED <<sourceVars, signal, callbacks, holder, handle, calls, stack>>

\* Nobody is inside an operation of this source, except for callbacks of its
\* token.  The detached thread keeps the address of a timed source: its owner
\* has to wait for the time it gave, which the library has no means to do.
MayDestroy(s) ==
    /\ source[s] = "alive"
    /\ s \notin waiting
    /\ ~IsUsed(s)
    /\ \A k \in Tokens : SourceOf[k] = s => token[k] # "creating"

\* Mutant: the callback token of the source is destroyed last, without effect.
DestroySourceRegistered(s) ==
    /\ MayDestroy(s)
    /\ source' = [source EXCEPT ![s] = "gone"]
    /\ UNCHANGED <<waiting, sourceSignal, tokens, readers, tokenVars, handle, calls, stack>>

\* The callback token is destroyed first, which waits for a running callback.
DestroySource(s) ==
    /\ MayDestroy(s)
    /\ source' = [source EXCEPT ![s] = "gone"]
    /\ IF s \in Links /\ handle[s] = "held"
       THEN LET k == TokenOf[s] IN
            /\ holder[k] = Nobody
            /\ callbacks' = [callbacks EXCEPT ![k] = @ \ {s}]
            /\ handle' = [handle EXCEPT ![s] = "gone"]
       ELSE UNCHANGED <<callbacks, handle>>
    /\ UNCHANGED <<waiting, sourceSignal, tokens, readers, token, signal, holder, calls, stack>>

-----------------------------------------------------------------------------

\* What users do, at any time they are allowed to.
UserStep(t) ==
    \/ \E s \in Sources : Cancel(t, s)
    \/ \E k \in Tokens : CreateToken(t, k)
    \/ \E s \in Links : LinkSource(t, s)
    \/ \E c \in Callbacks :
        RegisterCallback(t, c) \/ UnregisterCallback(t, c) \/ ReleaseHandle(t, c)
        \/ DestroyHandle(t, c)

\* What a call goes on with.
CallStep(t) ==
    \/ ExchangeSource(t) \/ LockSource(t) \/ CancelNextToken(t) \/ UnlockSource(t)
    \/ EraseExpired(t)
    \/ ExchangeToken(t) \/ LockToken(t) \/ CallUserCallback(t) \/ CallLinkedSource(t)
    \/ ClearCallbacks(t)
    \/ RegisterToken(t) \/ Recheck(t) \/ ReturnToken(t)
    \/ CallAtOnce(t) \/ FindNotCanceled(t) \/ InsertCallback(t) \/ FinishLink(t)

\* Nobody is obliged to call anything.
Rest == (\A t \in Runners : IsIdle(t)) /\ waiting = {} /\ UNCHANGED vars

Next ==
    \/ \E t \in Threads : UserStep(t)
    \/ \E t \in Runners : CallStep(t)
    \/ \E s \in Timed : TimeUp(s)
    \/ \E k \in Tokens : DropToken(k)
    \/ \E s \in Sources : DestroySource(s)
    \/ Rest

Spec == Init /\ [][Next]_vars

\* Every thread goes on with the call it is in, and sleeps end.
Fairness ==
    /\ \A t \in Runners : WF_vars(CallStep(t))
    /\ \A s \in Timed : WF_vars(TimeUp(s))

FairSpec == Spec /\ Fairness

-----------------------------------------------------------------------------
(* Properties.                                                               *)

\* Every variable has its type: in particular no callback is called twice,
\* although the thread that registers it, a source and create_token may call it.
TypeOK ==
    /\ source \in [Sources -> {"none", "linking", "alive", "gone"}]
    /\ waiting \subseteq Timed
    /\ sourceSignal \in [Sources -> BOOLEAN]
    /\ tokens \in [Sources -> SUBSET Tokens]
    /\ readers \in [Sources -> SUBSET Runners]
    /\ token \in [Tokens -> {"none", "creating", "owned", "dropped"}]
    /\ signal \in [Tokens -> BOOLEAN]
    /\ callbacks \in [Tokens -> SUBSET Registrations]
    /\ holder \in [Tokens -> Runners \union {Nobody}]
    /\ handle \in [Registrations ->
                    {"none", "registering", "null", "held", "removed", "leaked", "gone"}]
    /\ calls \in [Callbacks -> {0, 1}]
    /\ stack \in [Runners -> Seq([at : Places,
                                  on : Sources \union Tokens \union Registrations,
                                  todo : SUBSET (Tokens \union Registrations)])]

\* Some thread is at one of these places of a call on the object.
SomeoneIsAt(places, object) ==
    \E t \in Runners : \E i \in DOMAIN stack[t] :
        stack[t][i].at \in places /\ stack[t][i].on = object

\* A token whose source is cancelled is cancelled too, unless the thread that
\* cancels the source is on its way to it: a token that is created at the same
\* time is not missed.
CancelReachesTokens ==
    \A k \in Tokens :
        LET s == SourceOf[k] IN
        token[k] = "owned" /\ sourceSignal[s]
        /\ ~SomeoneIsAt({"lock_source", "cancel_tokens"}, s) => signal[k]

\* A callback that is unregistered, by its callback_token's destructor or by
\* reference, is not called any more: not even by a cancel that has begun.
NoCallAfterUnregister ==
    [][\A c \in Callbacks : handle[c] \in {"removed", "gone"} => calls'[c] = calls[c]]_vars

\* No source is cancelled after its destruction, although a token it is linked
\* to holds its address: the callback_token goes first and waits.
LinkedSourceAlive ==
    \A t \in Runners : \A i \in DOMAIN stack[t] :
        stack[t][i].on \in Sources => source[stack[t][i].on] \in {"linking", "alive"}

\* Every call returns: no thread waits for itself or for one that waits for it.
CallsReturn == \A t \in Runners : ~IsIdle(t) ~> IsIdle(t)

\* When its time is up, a timed source cancels every token it has given away,
\* those too that are created at that moment.
TimeoutReachesTokens ==
    \A k \in Tokens :
        SourceOf[k] \in Timed => (token[k] = "owned" ~> signal[k] \/ token[k] = "dropped")

\* A callback whose token is cancelled, and which nobody is about to call, was
\* called: "Registers a callback to invoke when the token is canceled."
\* (cancellation_token_source.cpp:86).
RegisteredMeansCalled ==
    \A c \in Callbacks :
        LET k == TokenOf[c] IN
        handle[c] = "held" /\ signal[k]
        /\ ~SomeoneIsAt({"lock_token", "call_callbacks"}, k) => calls[c] = 1

=============================================================================
