------------------------ MODULE Cancellation_proofs -------------------------
(***************************************************************************)
(* Theorems about Cancellation for any number of threads, sources, tokens    *)
(* and callbacks, and for chains of linked sources of any length.            *)
(*                                                                         *)
(* The invariant IInv is a conjunction of parts, each about one hazard; they *)
(* are preserved together.  The first sections say once what a step does to  *)
(* the frames of its thread, so that each part is proved by looking at the   *)
(* frames that stay and at the one or two that are new.                      *)
(***************************************************************************)
EXTENDS Cancellation, TLAPS

\* The frames of a thread by their depth: the outermost has depth 1, and keeps
\* it while calls begin and return above it.
Depth(t) == Len(stack[t])
FrameAt(t, d) == stack[t][Len(stack[t]) + 1 - d]
IsAt(t, d, places, object) == FrameAt(t, d).at \in places /\ FrameAt(t, d).on = object

SourcePlaces   == {"exchange_source", "lock_source", "cancel_tokens", "erase_expired"}
TokenPlaces    == {"exchange_token", "lock_token", "call_callbacks"}
CreatePlaces   == {"register_token", "recheck", "created"}
RegisterPlaces == {"check_canceled", "insert_callback"}

\* All that a frame may be.
Frames == [at : Places, on : Sources \union Tokens \union Registrations,
           todo : SUBSET (Tokens \union Registrations)]

\* The types, up to what the frames are and how often callbacks are called.
ObjectTypes ==
    /\ source \in [Sources -> {"none", "linking", "alive", "gone"}]
    /\ waiting \subseteq Timed
    /\ sourceSignal \in [Sources -> BOOLEAN]
    /\ tokens \in [Sources -> SUBSET Tokens]
    /\ readers \in [Sources -> SUBSET Runners]
    /\ token \in [Tokens -> {"none", "creating", "owned", "dropped"}]
    /\ signal \in [Tokens -> BOOLEAN]
    /\ callbacks \in [Tokens -> SUBSET Registrations]
    /\ holder \in [Tokens -> Runners \union {Nobody}]
    /\ handle \in [Registrations ->
                    {"none", "registering", "null", "held", "removed", "leaked", "gone"}]
    /\ calls \in [Callbacks -> Nat]
    /\ stack \in [Runners -> Seq(Frames)]
    /\ \A s \in Sources : \A k \in tokens[s] : SourceOf[k] = s
    /\ \A k \in Tokens : \A c \in callbacks[k] : TokenOf[c] = k
    /\ \A k \in Tokens : source[SourceOf[k]] \in {"none", "linking"} => token[k] = "none"

\* What a frame at depth d is about, and which frame has called it.
IsNested(d, f, caller) ==
    /\ f.at \in SourcePlaces =>
        /\ f.on \in Sources
        /\ d # 1 => f.on \in Links /\
            \/ caller.at = "linked" /\ caller.on = f.on
            \/ caller.at = "call_callbacks" /\ caller.on = TokenOf[f.on]
    /\ f.at \in TokenPlaces =>
        /\ f.on \in Tokens
        /\ d # 1
        /\ \/ caller.at = "cancel_tokens" /\ caller.on = SourceOf[f.on]
           \/ caller.at = "created" /\ caller.on = f.on
    /\ f.at \in CreatePlaces => f.on \in Tokens /\ d = 1
    /\ f.at \in RegisterPlaces =>
        /\ f.on \in Registrations
        /\ IF f.on \in Links THEN d # 1 /\ caller.at = "linked" /\ caller.on = f.on
           ELSE d = 1
    /\ f.at = "linked" => f.on \in Links /\ d = 1
    /\ f.at = "cancel_tokens" => \A k \in f.todo : k \in Tokens /\ SourceOf[k] = f.on

\* No two frames are at these places of one object.
OnlyOneAt(places) ==
    \A t, u \in Runners : \A d \in 1..Depth(t), e \in 1..Depth(u) :
        FrameAt(t, d).at \in places /\ IsAt(u, e, places, FrameAt(t, d).on) => t = u /\ d = e

NestInv == \A t \in Runners : \A d \in 1..Depth(t) : IsNested(d, FrameAt(t, d), FrameAt(t, d - 1))

\* A timed source is there, and its thread asleep, until its time is up.
WaitingInv == \A s \in waiting : source[s] = "alive" /\ stack[s] = <<>>

\* A token is being created by one thread.
CreateInv ==
    /\ \A t \in Runners : \A d \in 1..Depth(t) :
        FrameAt(t, d).at \in CreatePlaces => token[FrameAt(t, d).on] = "creating"
    /\ OnlyOneAt(CreatePlaces)

\* A callback is being registered by one thread.
RegisterInv ==
    /\ \A t \in Runners : \A d \in 1..Depth(t) :
        FrameAt(t, d).at \in RegisterPlaces => handle[FrameAt(t, d).on] = "registering"
    /\ OnlyOneAt(RegisterPlaces)

\* The lock of a token is held, once, by the thread that calls its callbacks,
\* and these stay registered.
LockInv ==
    /\ \A t \in Runners : \A d \in 1..Depth(t) :
        LET f == FrameAt(t, d) IN
        /\ f.at = "call_callbacks" => holder[f.on] = t /\ f.todo \subseteq callbacks[f.on]
        /\ f.at \in SourcePlaces /\ d # 1 /\ FrameAt(t, d - 1).at = "call_callbacks" =>
            f.on \in callbacks[TokenOf[f.on]]
    /\ OnlyOneAt({"call_callbacks"})

\* Registered callbacks have a handle, and registered sources are alive.
HandleInv ==
    \A k \in Tokens : \A c \in callbacks[k] :
        /\ handle[c] \in {"held", "leaked"}
        /\ c \in Links => handle[c] = "held" /\ source[c] \in {"linking", "alive"}

\* The sources that calls are about are alive.
SourceInv ==
    \A t \in Runners : \A d \in 1..Depth(t) :
        FrameAt(t, d).on \in Sources => source[FrameAt(t, d).on] \in {"linking", "alive"}

\* A callback that is being registered, or waits in a list, was not called.
CallsInv ==
    /\ \A c \in Callbacks : calls[c] \in {0, 1} /\ (handle[c] \in {"none", "registering"} => calls[c] = 0)
    /\ \A k \in Tokens : \A c \in callbacks[k] \intersect Callbacks :
        holder[k] = Nobody => calls[c] = 0
    /\ \A t \in Runners : \A d \in 1..Depth(t) : 
        FrameAt(t, d).at = "call_callbacks" => \A c \in FrameAt(t, d).todo \intersect Callbacks : calls[c] = 0

SomeDepth(places, object) ==
    \E t \in Runners : \E d \in 1..Depth(t) : IsAt(t, d, places, object)

\* A token that its cancelled source has not reached is on the list of somebody
\* who cancels the source, or is still being looked at.
ReachInv ==
    \A k \in Tokens : token[k] \in {"creating", "owned"} =>
        /\ k \in tokens[SourceOf[k]] \/ SomeDepth({"register_token"}, k)
        /\ sourceSignal[SourceOf[k]] /\ ~signal[k] =>
            \/ SomeDepth({"lock_source"}, SourceOf[k])
            \/ \E t \in Runners : \E d \in 1..Depth(t) :
                IsAt(t, d, {"cancel_tokens"}, SourceOf[k]) /\ k \in FrameAt(t, d).todo
            \/ SomeDepth({"exchange_token", "register_token", "recheck"}, k)

-----------------------------------------------------------------------------
(* What a step does to the frames of its thread.                             *)

\* The frames below the innermost one of t, and all of the other threads, stay.
Moved(t) ==
    /\ Depth(t)' \in Nat
    /\ \A u \in Runners \ {t} : stack'[u] = stack[u]
    /\ \A d \in 1..(Depth(t) - 1) : d <= Depth(t)' => FrameAt(t, d)' = FrameAt(t, d)

Begun(t, f) == Depth(t) = 0 /\ Depth(t)' = 1 /\ FrameAt(t, 1)' = f

Returned(t) == Depth(t)' = Depth(t) - 1

\* (The depths in what is primed are those of the new state.)
Continued(t, place, todo) ==
    /\ Depth(t)' = Depth(t)
    /\ FrameAt(t, Depth(t))' = [at |-> place, on |-> On(t), todo |-> todo]

Called(t, place, todo, callee) ==
    /\ Depth(t)' = Depth(t) + 1
    /\ FrameAt(t, Depth(t) - 1)' = [at |-> place, on |-> On(t), todo |-> todo]
    /\ FrameAt(t, Depth(t))' = callee

LEMMA HeadIsInnermost ==
    ASSUME ObjectTypes, NEW t \in Runners
    PROVE  /\ Depth(t) \in Nat
           /\ IsIdle(t) <=> Depth(t) = 0
           /\ ~IsIdle(t) => FrameAt(t, Depth(t)) = Head(stack[t])
<1>1. stack[t] \in Seq(Frames)
    BY DEF ObjectTypes
<1>2. Depth(t) \in Nat /\ (IsIdle(t) <=> Depth(t) = 0)
    BY <1>1 DEF Depth, IsIdle
<1>3. ASSUME ~IsIdle(t) PROVE FrameAt(t, Depth(t)) = Head(stack[t])
    <2>1. Len(stack[t]) + 1 - Depth(t) = 1 BY <1>2 DEF Depth
    <2>2. Head(stack[t]) = stack[t][1] BY <1>1, <1>3 DEF IsIdle
    <2>3. QED BY <2>1, <2>2 DEF FrameAt
<1>4. QED BY <1>2, <1>3

LEMMA ReplacedHead ==
    ASSUME NEW S, NEW s \in Seq(S), s # <<>>, NEW f, NEW g
    PROVE  /\ Len(<<f>> \o Tail(s)) = Len(s)
           /\ (<<f>> \o Tail(s))[1] = f
           /\ \A i \in 2..Len(s) : (<<f>> \o Tail(s))[i] = s[i]
           /\ Len(<<g, f>> \o Tail(s)) = Len(s) + 1
           /\ (<<g, f>> \o Tail(s))[1] = g /\ (<<g, f>> \o Tail(s))[2] = f
           /\ \A i \in 2..Len(s) : (<<g, f>> \o Tail(s))[i + 1] = s[i]
           /\ Len(Tail(s)) = Len(s) - 1
           /\ \A i \in 2..Len(s) : Tail(s)[i - 1] = s[i]
           /\ Len(s) \in Nat \ {0}
<1> DEFINE T == S \union {f, g}
<1>1. /\ s \in Seq(T) /\ Tail(s) \in Seq(T) /\ <<f>> \in Seq(T) /\ <<g, f>> \in Seq(T)
      /\ Len(s) \in Nat \ {0} /\ Len(Tail(s)) = Len(s) - 1
    <2>1. s \in Seq(T) /\ <<f>> \in Seq(T) /\ <<g, f>> \in Seq(T)
        OBVIOUS
    <2> HIDE DEF T
    <2>2. QED BY <2>1
<1> HIDE DEF T
<1>2. \A i \in 2..Len(s) : Tail(s)[i - 1] = s[i]
    BY <1>1
<1>3. Len(<<f>>) = 1 /\ Len(<<g, f>>) = 2 /\ <<f>>[1] = f /\ <<g, f>>[1] = g /\ <<g, f>>[2] = f
    OBVIOUS
<1>4. Len(<<f>> \o Tail(s)) = Len(s) /\ Len(<<g, f>> \o Tail(s)) = Len(s) + 1
    BY <1>1, <1>3
<1>5. (<<f>> \o Tail(s))[1] = f /\ (<<g, f>> \o Tail(s))[1] = g /\ (<<g, f>> \o Tail(s))[2] = f
    BY <1>1, <1>3
<1>6. ASSUME NEW i \in 2..Len(s) PROVE (<<f>> \o Tail(s))[i] = s[i]
    <2>1. (<<f>> \o Tail(s))[i] = Tail(s)[i - 1] BY <1>1, <1>3
    <2>2. QED BY <1>2, <2>1
<1>7. ASSUME NEW i \in 2..Len(s) PROVE (<<g, f>> \o Tail(s))[i + 1] = s[i]
    <2>1. (<<g, f>> \o Tail(s))[i + 1] = Tail(s)[i + 1 - 2] BY <1>1, <1>3
    <2>2. i + 1 - 2 = i - 1 OBVIOUS
    <2>3. QED BY <1>2, <2>1, <2>2
<1>8. QED BY <1>1, <1>2, <1>4, <1>5, <1>6, <1>7

LEMMA BeginFrames ==
    ASSUME ObjectTypes, NEW t \in Runners, IsIdle(t), NEW f, Begin(t, <<f>>)
    PROVE  Moved(t) /\ Begun(t, f)
<1>1. /\ \A u \in Runners \ {t} : stack'[u] = stack[u]
      /\ stack'[t] = <<f>> /\ stack[t] = <<>>
    BY DEF ObjectTypes, Begin, IsIdle
<1>2. QED BY <1>1 DEF Moved, Begun, Depth, FrameAt

LEMMA ReturnFrames ==
    ASSUME ObjectTypes, NEW t \in Runners, ~IsIdle(t), Return(t)
    PROVE  Moved(t) /\ Returned(t)
<1> DEFINE s == stack[t]
<1>1. /\ \A u \in Runners \ {t} : stack'[u] = stack[u]
      /\ stack'[t] = Tail(s) /\ s # <<>> /\ s \in Seq(Frames)
    BY DEF ObjectTypes, Return, IsIdle
<1> HIDE DEF s
<1>2. /\ Len(s) \in Nat \ {0} /\ Len(Tail(s)) = Len(s) - 1
      /\ \A i \in 2..Len(s) : Tail(s)[i - 1] = s[i]
    BY <1>1, ReplacedHead
<1>3. Depth(t) = Len(s) /\ Depth(t)' = Len(s) - 1
    BY <1>1, <1>2 DEF Depth, s
<1>4. ASSUME NEW d \in 1..(Len(s) - 1) PROVE FrameAt(t, d)' = FrameAt(t, d)
    <2> DEFINE i == Len(s) + 1 - d
    <2>1. i \in 2..Len(s) /\ Len(s) - 1 + 1 - d = i - 1
        BY <1>2, <1>4
    <2> HIDE DEF i
    <2>2. FrameAt(t, d)' = Tail(s)[i - 1]
        BY <1>1, <1>2, <2>1 DEF FrameAt
    <2>3. FrameAt(t, d) = s[i] BY DEF FrameAt, s, i
    <2>4. QED BY <1>2, <2>1, <2>2, <2>3
<1>5. QED BY <1>1, <1>2, <1>3, <1>4 DEF Moved, Returned

LEMMA ContinueFrames ==
    ASSUME ObjectTypes, NEW t \in Runners, ~IsIdle(t), NEW place, NEW todo, Continue(t, place, todo)
    PROVE  Moved(t) /\ Continued(t, place, todo)
<1> DEFINE s == stack[t]
           f == [at |-> place, on |-> On(t), todo |-> todo]
<1>1. /\ \A u \in Runners \ {t} : stack'[u] = stack[u]
      /\ stack'[t] = <<f>> \o Tail(s) /\ s # <<>> /\ s \in Seq(Frames)
    BY DEF ObjectTypes, Continue, IsIdle
<1> HIDE DEF s, f
<1>2. /\ Len(s) \in Nat \ {0} /\ Len(<<f>> \o Tail(s)) = Len(s)
      /\ (<<f>> \o Tail(s))[1] = f
      /\ \A i \in 2..Len(s) : (<<f>> \o Tail(s))[i] = s[i]
    BY <1>1, ReplacedHead
<1>3. Depth(t) = Len(s) /\ Depth(t)' = Len(s)
    BY <1>1, <1>2 DEF Depth, s
<1>4. ASSUME NEW d \in 1..(Len(s) - 1) PROVE FrameAt(t, d)' = FrameAt(t, d)
    <2> DEFINE i == Len(s) + 1 - d
    <2>1. i \in 2..Len(s)
        BY <1>2, <1>4
    <2>2. FrameAt(t, d)' = (<<f>> \o Tail(s))[i]
        BY <1>1, <1>2 DEF FrameAt
    <2>3. FrameAt(t, d) = s[i] BY DEF FrameAt, s
    <2> HIDE DEF i
    <2>4. QED BY <1>2, <2>1, <2>2, <2>3
<1>5. FrameAt(t, Depth(t))' = f
    <2>1. Len(stack'[t]) + 1 - Depth(t)' = 1 BY <1>2, <1>3 DEF Depth
    <2>2. QED BY <1>1, <1>2, <2>1 DEF FrameAt
<1>6. QED BY <1>1, <1>2, <1>3, <1>4, <1>5 DEF Moved, Continued, f

LEMMA CallFrames ==
    ASSUME ObjectTypes, NEW t \in Runners, ~IsIdle(t), NEW place, NEW todo, NEW callee,
           CallFrom(t, place, todo, callee)
    PROVE  Moved(t) /\ Called(t, place, todo, callee)
<1> DEFINE s == stack[t]
           f == [at |-> place, on |-> On(t), todo |-> todo]
<1>1. /\ \A u \in Runners \ {t} : stack'[u] = stack[u]
      /\ stack'[t] = <<callee, f>> \o Tail(s) /\ s # <<>> /\ s \in Seq(Frames)
    BY DEF ObjectTypes, CallFrom, IsIdle
<1> HIDE DEF s, f
<1>2. /\ Len(s) \in Nat \ {0} /\ Len(<<callee, f>> \o Tail(s)) = Len(s) + 1
      /\ (<<callee, f>> \o Tail(s))[1] = callee
      /\ (<<callee, f>> \o Tail(s))[2] = f
      /\ \A i \in 2..Len(s) : (<<callee, f>> \o Tail(s))[i + 1] = s[i]
    BY <1>1, ReplacedHead
<1>3. Depth(t) = Len(s) /\ Depth(t)' = Len(s) + 1
    BY <1>1, <1>2 DEF Depth, s
<1>4. ASSUME NEW d \in 1..(Len(s) - 1) PROVE FrameAt(t, d)' = FrameAt(t, d)
    <2> DEFINE i == Len(s) + 1 - d
    <2>1. i \in 2..Len(s) /\ Len(s) + 1 + 1 - d = i + 1
        BY <1>2, <1>4
    <2>2. FrameAt(t, d) = s[i] BY DEF FrameAt, s
    <2> HIDE DEF i
    <2>3. FrameAt(t, d)' = (<<callee, f>> \o Tail(s))[i + 1]
        BY <1>1, <1>2, <2>1 DEF FrameAt
    <2>4. QED BY <1>2, <2>1, <2>2, <2>3
<1>5. /\ FrameAt(t, Depth(t) - 1)' = f
      /\ FrameAt(t, Depth(t))' = callee
    <2>1. Len(stack'[t]) + 1 - (Depth(t)' - 1) = 2 /\ Len(stack'[t]) + 1 - Depth(t)' = 1
        BY <1>2, <1>3 DEF Depth
    <2>2. QED BY <1>1, <1>2, <2>1 DEF FrameAt
<1>6. QED BY <1>1, <1>2, <1>3, <1>4, <1>5 DEF Moved, Called, f

\* How the innermost frame of a thread gives way to the next in one step of its
\* call.
Successors ==
    {<<"exchange_source", "lock_source">>, <<"cancel_tokens", "erase_expired">>,
     <<"exchange_token", "lock_token">>, <<"register_token", "recheck">>, <<"recheck", "created">>,
     <<"check_canceled", "insert_callback">>}

Returning == {"exchange_source", "erase_expired", "exchange_token", "call_callbacks", "created",
              "check_canceled", "insert_callback", "linked"}

Shape(t) ==
    LET f == FrameAt(t, Depth(t)) IN
    \/ f.at \in Returning /\ Returned(t)
    \/ \E place \in Places : <<f.at, place>> \in Successors /\ Continued(t, place, {})
    \/ f.at = "check_canceled" /\ f.on \in Links /\ Continued(t, "exchange_source", {})
    \/ f.at = "lock_source" /\ Continued(t, "cancel_tokens", tokens[f.on])
    \/ f.at = "lock_token" /\ Continued(t, "call_callbacks", callbacks[f.on])
    \/ /\ f.at \in {"cancel_tokens", "call_callbacks"}
       /\ \E x \in f.todo : Continued(t, f.at, f.todo \ {x})
    \/ /\ f.at = "cancel_tokens"
       /\ \E k \in f.todo : Called(t, f.at, f.todo \ {k}, Frame("exchange_token", k))
    \/ /\ f.at = "call_callbacks"
       /\ \E s \in f.todo \intersect Links :
            Called(t, f.at, f.todo \ {s}, Frame("exchange_source", s))
    \/ f.at = "recheck" /\ Called(t, "created", {}, Frame("exchange_token", f.on))

LEMMA ShapeOfCall ==
    ASSUME ObjectTypes, NEW t \in Runners, CallStep(t)
    PROVE  ~IsIdle(t) /\ Moved(t) /\ Shape(t)
<1> DEFINE f == FrameAt(t, Depth(t))
<1>1. ~IsIdle(t)
    BY DEF CallStep, ExchangeSource, LockSource, CancelNextToken, UnlockSource, EraseExpired,
           ExchangeToken, LockToken, CallUserCallback, CallLinkedSource, ClearCallbacks,
           RegisterToken, Recheck, ReturnToken, CallAtOnce, FindNotCanceled, InsertCallback,
           FinishLink, At
<1>2. /\ \A place : At(t, place) <=> f.at = place
      /\ On(t) = f.on /\ Todo(t) = f.todo
    BY <1>1, HeadIsInnermost DEF At, On, Todo
<1> HIDE DEF f
<1>3. CASE ExchangeSource(t)
    <2>1. f.at = "exchange_source" /\ (Return(t) \/ Continue(t, "lock_source", {}))
        BY <1>2, <1>3 DEF ExchangeSource
    <2>2. QED
        BY <1>1, <2>1, ReturnFrames, ContinueFrames DEF Shape, Successors, Returning, Places, f
<1>4. CASE LockSource(t)
    BY <1>1, <1>2, <1>4, ContinueFrames DEF LockSource, Shape, f
<1>5. CASE CancelNextToken(t)
    <2>1. PICK k \in f.todo :
            \/ Continue(t, "cancel_tokens", f.todo \ {k})
            \/ CallFrom(t, "cancel_tokens", f.todo \ {k}, Frame("exchange_token", k))
        BY <1>2, <1>5 DEF CancelNextToken
    <2>2. f.at = "cancel_tokens" BY <1>2, <1>5 DEF CancelNextToken
    <2>3. QED BY <1>1, <2>1, <2>2, ContinueFrames, CallFrames DEF Shape, f
<1>6. CASE UnlockSource(t)
    <2>1. f.at = "cancel_tokens" /\ Continue(t, "erase_expired", {})
        BY <1>2, <1>6 DEF UnlockSource
    <2>2. QED BY <1>1, <2>1, ContinueFrames DEF Shape, Successors, Places, f
<1>7. CASE EraseExpired(t) \/ ClearCallbacks(t) \/ ReturnToken(t) \/ InsertCallback(t) \/ FinishLink(t)
    <2>1. f.at \in Returning /\ Return(t)
        BY <1>2, <1>7 DEF EraseExpired, ClearCallbacks, ReturnToken, InsertCallback, FinishLink,
                          Returning
    <2>2. QED BY <1>1, <2>1, ReturnFrames DEF Shape, f
<1>8. CASE ExchangeToken(t)
    <2>1. f.at = "exchange_token" /\ (Return(t) \/ Continue(t, "lock_token", {}))
        BY <1>2, <1>8 DEF ExchangeToken
    <2>2. QED
        BY <1>1, <2>1, ReturnFrames, ContinueFrames DEF Shape, Successors, Returning, Places, f
<1>9. CASE LockToken(t)
    BY <1>1, <1>2, <1>9, ContinueFrames DEF LockToken, Shape, f
<1>10. CASE CallUserCallback(t)
    <2>1. f.at = "call_callbacks" /\ \E c \in f.todo : Continue(t, "call_callbacks", f.todo \ {c})
        BY <1>2, <1>10 DEF CallUserCallback
    <2>2. QED BY <1>1, <2>1, ContinueFrames DEF Shape, f
<1>11. CASE CallLinkedSource(t)
    <2>1. f.at = "call_callbacks" /\ \E s \in f.todo \intersect Links :
            CallFrom(t, "call_callbacks", f.todo \ {s}, Frame("exchange_source", s))
        BY <1>2, <1>11 DEF CallLinkedSource
    <2>2. QED BY <1>1, <2>1, CallFrames DEF Shape, f
<1>12. CASE RegisterToken(t)
    <2>1. f.at = "register_token" /\ Continue(t, "recheck", {})
        BY <1>2, <1>12 DEF RegisterToken
    <2>2. QED BY <1>1, <2>1, ContinueFrames DEF Shape, Successors, Places, f
<1>13. CASE Recheck(t)
    <2>1. f.at = "recheck" /\ (\/ CallFrom(t, "created", {}, Frame("exchange_token", f.on))
                               \/ Continue(t, "created", {}))
        BY <1>2, <1>13 DEF Recheck
    <2>2. QED BY <1>1, <2>1, CallFrames, ContinueFrames DEF Shape, Successors, Places, f
<1>14. CASE CallAtOnce(t)
    <2>1. f.at = "check_canceled"
          /\ (Return(t) \/ (f.on \in Links /\ Continue(t, "exchange_source", {})))
        BY <1>2, <1>14 DEF CallAtOnce
    <2>2. QED BY <1>1, <2>1, ReturnFrames, ContinueFrames DEF Shape, Returning, f
<1>15. CASE FindNotCanceled(t)
    <2>1. f.at = "check_canceled" /\ Continue(t, "insert_callback", {})
        BY <1>2, <1>15 DEF FindNotCanceled
    <2>2. QED BY <1>1, <2>1, ContinueFrames DEF Shape, Successors, Places, f
<1>16. QED
    BY <1>3, <1>4, <1>5, <1>6, <1>7, <1>8, <1>9, <1>10, <1>11, <1>12, <1>13, <1>14, <1>15 DEF CallStep

\* A frame after a step was there before, with the frame that called it, or is
\* among the innermost of the thread that moved.
LEMMA OldFrame ==
    ASSUME ObjectTypes, NEW t \in Runners, Moved(t), NEW u \in Runners, NEW d \in 1..Depth(u)',
           u # t \/ d < Depth(t)
    PROVE  /\ d \in 1..Depth(u) /\ FrameAt(u, d)' = FrameAt(u, d)
           /\ d # 1 => d - 1 \in 1..Depth(u) /\ FrameAt(u, d - 1)' = FrameAt(u, d - 1)
<1>1. Depth(t) \in Nat /\ Depth(u) \in Nat
    BY HeadIsInnermost
<1>2. CASE u # t
    <2>1. stack'[u] = stack[u] BY <1>2 DEF Moved
    <2>2. Depth(u)' = Depth(u) BY <2>1 DEF Depth
    <2>3. \A e : FrameAt(u, e)' = FrameAt(u, e) BY <2>1 DEF FrameAt
    <2>4. QED BY <1>1, <2>2, <2>3
<1>3. CASE u = t
    <2>1. Depth(t)' \in Nat /\ d \in 1..(Depth(t) - 1) /\ d <= Depth(t)'
        BY <1>1, <1>3 DEF Moved
    <2>2. FrameAt(t, d)' = FrameAt(t, d)
        BY <2>1 DEF Moved
    <2>3. ASSUME d # 1 PROVE d - 1 \in 1..(Depth(t) - 1) /\ d - 1 <= Depth(t)'
        BY <1>1, <2>1, <2>3
    <2>4. ASSUME d # 1 PROVE FrameAt(t, d - 1)' = FrameAt(t, d - 1)
        <3> DEFINE e == d - 1
        <3>1. e \in 1..(Depth(t) - 1) /\ e <= Depth(t)' BY <2>3, <2>4
        <3> HIDE DEF e
        <3>2. FrameAt(t, e)' = FrameAt(t, e) BY <3>1 DEF Moved
        <3>3. QED BY <3>2 DEF e
    <2>5. QED BY <1>1, <1>3, <2>1, <2>2, <2>3, <2>4
<1>4. QED BY <1>2, <1>3

\* The innermost frames after a step of a call: the one that replaces the
\* innermost, and perhaps one that it calls.
LEMMA NewFrames ==
    ASSUME ObjectTypes, NEW t \in Runners, CallStep(t)
    PROVE  \E h \in Nat \ {0} :
            /\ h = Depth(t)
            /\ Depth(t)' \in {h - 1, h, h + 1}
            /\ \A d \in 1..Depth(t)' : d >= h => d \in {h, h + 1}
            /\ h # 1 => FrameAt(t, h - 1)' = FrameAt(t, h - 1)
            /\ ~IsIdle(t) /\ Moved(t) /\ Shape(t)
<1>1. ~IsIdle(t) /\ Moved(t) /\ Shape(t)
    BY ShapeOfCall
<1>2. Depth(t) \in Nat \ {0}
    BY <1>1, HeadIsInnermost
<1>3. PICK h \in Nat \ {0} : h = Depth(t)
    BY <1>2
<1>4. Depth(t)' \in {h - 1, h, h + 1}
    BY <1>1, <1>3 DEF Shape, Returned, Continued, Called
<1>5. h # 1 => FrameAt(t, h - 1)' = FrameAt(t, h - 1)
    <2> DEFINE d == h - 1
    <2>1. h # 1 => d \in 1..(Depth(t) - 1) /\ d <= Depth(t)'
        BY <1>3, <1>4
    <2> HIDE DEF d
    <2>2. h # 1 => FrameAt(t, d)' = FrameAt(t, d)
        BY <1>1, <2>1 DEF Moved
    <2>3. QED BY <2>2 DEF d
<1>6. QED BY <1>1, <1>3, <1>4, <1>5

-----------------------------------------------------------------------------
(* Frames are nested as the calls of the code are.                           *)

LEMMA NestOld ==
    ASSUME ObjectTypes, NestInv, NEW t \in Runners, Moved(t), NEW u \in Runners, NEW d \in 1..Depth(u)',
           u # t \/ d < Depth(t)
    PROVE  IsNested(d, FrameAt(u, d)', FrameAt(u, d - 1)')
<1>1. d \in 1..Depth(u) /\ FrameAt(u, d)' = FrameAt(u, d)
      /\ (d # 1 => FrameAt(u, d - 1)' = FrameAt(u, d - 1))
    BY OldFrame
<1>2. IsNested(d, FrameAt(u, d), FrameAt(u, d - 1))
    BY <1>1 DEF NestInv
<1>3. QED BY <1>1, <1>2 DEF IsNested

LEMMA NestCall ==
    ASSUME ObjectTypes, NestInv, LockInv, NEW t \in Runners, CallStep(t)
    PROVE  NestInv'
<1>1. PICK h \in Nat \ {0} :
        /\ h = Depth(t)
        /\ Depth(t)' \in {h - 1, h, h + 1}
        /\ \A d \in 1..Depth(t)' : d >= h => d \in {h, h + 1}
        /\ h # 1 => FrameAt(t, h - 1)' = FrameAt(t, h - 1)
        /\ ~IsIdle(t) /\ Moved(t) /\ Shape(t)
    BY NewFrames
<1>2. PICK f : f = FrameAt(t, h)
    OBVIOUS
<1>3. PICK p : p = FrameAt(t, h - 1)
    OBVIOUS
<1>4. IsNested(h, f, p) /\ (h # 1 => FrameAt(t, h - 1)' = p)
    <2>1. h \in 1..Depth(t) BY <1>1
    <2>2. QED BY <1>1, <1>2, <1>3, <2>1 DEF NestInv
<1>5. On(t) = f.on /\ f = FrameAt(t, Depth(t))
    BY <1>1, <1>2, HeadIsInnermost DEF On
<1>6. SUFFICES ASSUME NEW d \in 1..Depth(t)', d \in {h, h + 1}
               PROVE  IsNested(d, FrameAt(t, d)', FrameAt(t, d - 1)')
    <2>1. ASSUME NEW u \in Runners, NEW d \in 1..Depth(u)'
          PROVE  IsNested(d, FrameAt(u, d)', FrameAt(u, d - 1)')
        <3>1. CASE u # t \/ d < Depth(t) BY <1>1, <3>1, NestOld
        <3>2. CASE u = t /\ d >= h BY <1>1, <1>6, <3>2
        <3>3. QED BY <1>1, <3>1, <3>2
    <2>2. QED BY <2>1 DEF NestInv
<1>7. ASSUME NEW g, g = FrameAt(t, h)', IsNested(h, g, p), d = h
      PROVE  IsNested(d, FrameAt(t, d)', FrameAt(t, d - 1)')
    BY <1>4, <1>7 DEF IsNested
<1>8. CASE f.at \in Returning /\ Returned(t)
    BY <1>1, <1>6, <1>8 DEF Returned
<1>9. ASSUME NEW place, NEW todo, Continued(t, place, todo),
             IsNested(h, [at |-> place, on |-> f.on, todo |-> todo], p)
      PROVE  IsNested(d, FrameAt(t, d)', FrameAt(t, d - 1)')
    <2>1. Depth(t)' = h /\ d = h BY <1>1, <1>6, <1>9 DEF Continued
    <2>2. FrameAt(t, h)' = [at |-> place, on |-> f.on, todo |-> todo]
        BY <1>1, <1>5, <1>9, <2>1 DEF Continued
    <2>3. QED BY <1>7, <1>9, <2>1, <2>2
<1>10. ASSUME NEW place, NEW todo, NEW callee, Called(t, place, todo, callee),
              IsNested(h, [at |-> place, on |-> f.on, todo |-> todo], p),
              IsNested(h + 1, callee, [at |-> place, on |-> f.on, todo |-> todo])
       PROVE  IsNested(d, FrameAt(t, d)', FrameAt(t, d - 1)')
    <2>1. Depth(t)' = h + 1 /\ Depth(t)' - 1 = h BY <1>1, <1>10 DEF Called
    <2>2. FrameAt(t, h)' = [at |-> place, on |-> f.on, todo |-> todo] /\ FrameAt(t, h + 1)' = callee
        BY <1>1, <1>5, <1>10, <2>1 DEF Called
    <2>3. CASE d = h BY <1>7, <1>10, <2>2, <2>3
    <2>4. CASE d = h + 1
        <3>1. d - 1 = h BY <2>4
        <3>2. QED BY <1>10, <2>2, <2>4, <3>1
    <2>5. QED BY <1>6, <2>3, <2>4
<1> USE DEF IsNested, SourcePlaces, TokenPlaces, CreatePlaces, RegisterPlaces
<1>11. ASSUME NEW place \in Places, <<f.at, place>> \in Successors, Continued(t, place, {})
       PROVE  IsNested(d, FrameAt(t, d)', FrameAt(t, d - 1)')
    <2>1. IsNested(h, [at |-> place, on |-> f.on, todo |-> {}], p)
        BY <1>4, <1>11 DEF Successors
    <2>2. QED BY <1>9, <1>11, <2>1
<1>12. CASE f.at = "check_canceled" /\ f.on \in Links /\ Continued(t, "exchange_source", {})
    <2>1. IsNested(h, [at |-> "exchange_source", on |-> f.on, todo |-> {}], p)
        BY <1>4, <1>12, LinksAssumption
    <2>2. QED BY <1>9, <1>12, <2>1
<1>13. CASE f.at = "lock_source" /\ Continued(t, "cancel_tokens", tokens[f.on])
    <2>1. IsNested(h, [at |-> "cancel_tokens", on |-> f.on, todo |-> tokens[f.on]], p)
        BY <1>4, <1>13 DEF ObjectTypes
    <2>2. QED BY <1>9, <1>13, <2>1
<1>14. CASE f.at = "lock_token" /\ Continued(t, "call_callbacks", callbacks[f.on])
    <2>1. IsNested(h, [at |-> "call_callbacks", on |-> f.on, todo |-> callbacks[f.on]], p)
        BY <1>4, <1>14
    <2>2. QED BY <1>9, <1>14, <2>1
<1>15. ASSUME f.at \in {"cancel_tokens", "call_callbacks"}, NEW x \in f.todo,
              Continued(t, f.at, f.todo \ {x})
       PROVE  IsNested(d, FrameAt(t, d)', FrameAt(t, d - 1)')
    <2>1. IsNested(h, [at |-> f.at, on |-> f.on, todo |-> f.todo \ {x}], p)
        BY <1>4, <1>15
    <2>2. QED BY <1>9, <1>15, <2>1
<1>16. ASSUME f.at = "cancel_tokens", NEW k \in f.todo,
              Called(t, f.at, f.todo \ {k}, Frame("exchange_token", k))
       PROVE  IsNested(d, FrameAt(t, d)', FrameAt(t, d - 1)')
    <2>1. IsNested(h, [at |-> f.at, on |-> f.on, todo |-> f.todo \ {k}], p)
        BY <1>4, <1>16
    <2>2. IsNested(h + 1, Frame("exchange_token", k), [at |-> f.at, on |-> f.on, todo |-> f.todo \ {k}])
        BY <1>4, <1>16 DEF Frame
    <2>3. QED BY <1>10, <1>16, <2>1, <2>2
<1>17. ASSUME f.at = "call_callbacks", NEW s \in f.todo \intersect Links, s \in callbacks[f.on],
              Called(t, f.at, f.todo \ {s}, Frame("exchange_source", s))
       PROVE  IsNested(d, FrameAt(t, d)', FrameAt(t, d - 1)')
    <2>1. IsNested(h, [at |-> f.at, on |-> f.on, todo |-> f.todo \ {s}], p)
        BY <1>4, <1>17
    <2>2. IsNested(h + 1, Frame("exchange_source", s), [at |-> f.at, on |-> f.on, todo |-> f.todo \ {s}])
        BY <1>4, <1>17, LinksAssumption DEF Frame, ObjectTypes
    <2>3. QED BY <1>10, <1>17, <2>1, <2>2
<1>18. CASE f.at = "recheck" /\ Called(t, "created", {}, Frame("exchange_token", f.on))
    <2>1. IsNested(h, [at |-> "created", on |-> f.on, todo |-> {}], p)
        BY <1>4, <1>18
    <2>2. IsNested(h + 1, Frame("exchange_token", f.on), [at |-> "created", on |-> f.on, todo |-> {}])
        BY <1>4, <1>18 DEF Frame
    <2>3. QED BY <1>10, <1>18, <2>1, <2>2
<1>19. f.at = "call_callbacks" => f.todo \subseteq callbacks[f.on]
    <2>1. h \in 1..Depth(t) BY <1>1
    <2>2. QED BY <1>1, <1>2, <2>1 DEF LockInv
<1>20. QED
    BY <1>1, <1>5, <1>8, <1>11, <1>12, <1>13, <1>14, <1>15, <1>16, <1>17, <1>18, <1>19 DEF Shape

LEMMA NestEntry ==
    ASSUME ObjectTypes, NestInv, NEW t \in Runners, Moved(t), NEW f, Begun(t, f),
           \A caller : IsNested(1, f, caller)
    PROVE  NestInv'
<1>1. ASSUME NEW u \in Runners, NEW d \in 1..Depth(u)'
      PROVE  IsNested(d, FrameAt(u, d)', FrameAt(u, d - 1)')
    <2>1. CASE u # t BY <2>1, NestOld
    <2>2. CASE u = t
        <3>1. d = 1 BY <2>2 DEF Begun
        <3>2. QED BY <2>2, <3>1 DEF Begun
    <2>3. QED BY <2>1, <2>2
<1>2. QED BY <1>1 DEF NestInv

\* The frames of a thread that begins to link a source.
Linking(t, s) ==
    /\ Depth(t) = 0 /\ Depth(t)' = 2
    /\ FrameAt(t, 1)' = Frame("linked", s)
    /\ FrameAt(t, 2)' = Frame("check_canceled", s)

LEMMA LinkFrames ==
    ASSUME ObjectTypes, NEW t \in Runners, NEW s \in Links, LinkSource(t, s)
    PROVE  Moved(t) /\ Linking(t, s)
<1>1. /\ \A u \in Runners \ {t} : stack'[u] = stack[u]
      /\ stack'[t] = <<Frame("check_canceled", s), Frame("linked", s)>> /\ stack[t] = <<>>
    BY DEF ObjectTypes, LinkSource, Begin, IsIdle
<1>2. Depth(t) = 0 /\ Depth(t)' = 2
    BY <1>1 DEF Depth
<1>3. 2 + 1 - 1 = 2 /\ 2 + 1 - 2 = 1 /\ Len(stack'[t]) = 2
    BY <1>1
<1>4. FrameAt(t, 1)' = Frame("linked", s) /\ FrameAt(t, 2)' = Frame("check_canceled", s)
    BY <1>1, <1>3 DEF FrameAt
<1>5. QED BY <1>1, <1>2, <1>4 DEF Moved, Linking

\* The steps with which a call begins.
Enter(t) ==
    \/ /\ t \in Threads
       /\ \/ \E s \in Sources : Cancel(t, s)
          \/ \E k \in Tokens : CreateToken(t, k)
          \/ \E c \in Callbacks : RegisterCallback(t, c)
          \/ \E s \in Links : LinkSource(t, s)
    \/ t \in Timed /\ TimeUp(t)

LEMMA EntryFrames ==
    ASSUME ObjectTypes, WaitingInv, NEW t \in Runners
    PROVE  /\ \A s \in Sources : Cancel(t, s) => Moved(t) /\ Begun(t, Frame("exchange_source", s))
           /\ \A k \in Tokens : CreateToken(t, k) => Moved(t) /\ Begun(t, Frame("register_token", k))
           /\ \A c \in Callbacks : RegisterCallback(t, c) =>
                Moved(t) /\ Begun(t, Frame("check_canceled", c))
           /\ t \in Timed /\ TimeUp(t) => Moved(t) /\ Begun(t, Frame("exchange_source", t))
<1>1. t \in Timed /\ TimeUp(t) => IsIdle(t) BY DEF TimeUp, WaitingInv, IsIdle
<1>2. QED BY <1>1, BeginFrames DEF Cancel, CreateToken, RegisterCallback, TimeUp

\* The frame of a thread that begins, and of one that links a source.
LEMMA EnteredFrame ==
    ASSUME ObjectTypes, WaitingInv, NEW t \in Runners, Enter(t)
    PROVE  /\ Moved(t) /\ Depth(t) = 0
           /\ \/ \E s \in Links : LinkSource(t, s) /\ Linking(t, s)
              \/ \E s \in Sources : source[s] = "alive" /\ UNCHANGED <<source, token, tokens, signal,
                                            sourceSignal, callbacks, holder, handle, calls>>
                    /\ Begun(t, Frame("exchange_source", s))
              \/ \E k \in Tokens : CreateToken(t, k) /\ Begun(t, Frame("register_token", k))
              \/ \E c \in Callbacks : RegisterCallback(t, c) /\ Begun(t, Frame("check_canceled", c))
<1>1. CASE \E s \in Sources : Cancel(t, s)
    BY <1>1, EntryFrames DEF Cancel, Begun, sourceVars, tokenVars
<1>2. CASE \E k \in Tokens : CreateToken(t, k)
    BY <1>2, EntryFrames DEF Begun
<1>3. CASE \E c \in Callbacks : RegisterCallback(t, c)
    BY <1>3, EntryFrames DEF Begun
<1>4. CASE \E s \in Links : LinkSource(t, s)
    BY <1>4, LinkFrames DEF Linking
<1>5. CASE t \in Timed /\ TimeUp(t)
    BY <1>5, EntryFrames, TimedAssumption DEF TimeUp, WaitingInv, Begun, tokenVars
<1>6. QED BY <1>1, <1>2, <1>3, <1>4, <1>5 DEF Enter

LEMMA NestEnter ==
    ASSUME ObjectTypes, WaitingInv, NestInv, NEW t \in Runners, Enter(t)
    PROVE  NestInv'
<1> USE KindsAssumption, LinksAssumption
    DEF IsNested, SourcePlaces, TokenPlaces, CreatePlaces, RegisterPlaces, Frame, Registrations
<1>1. Moved(t) /\ Depth(t) = 0 BY EnteredFrame
<1>2. ASSUME NEW s \in Sources, Begun(t, Frame("exchange_source", s)) PROVE NestInv'
    BY <1>1, <1>2, NestEntry
<1>3. ASSUME NEW k \in Tokens, Begun(t, Frame("register_token", k)) PROVE NestInv'
    BY <1>1, <1>3, NestEntry
<1>4. ASSUME NEW c \in Callbacks, Begun(t, Frame("check_canceled", c)) PROVE NestInv'
    <2>1. c \notin Links OBVIOUS
    <2>2. QED BY <1>1, <1>4, <2>1, NestEntry
<1>5. ASSUME NEW s \in Links, Linking(t, s) PROVE NestInv'
    <2>1. ASSUME NEW u \in Runners, NEW d \in 1..Depth(u)'
          PROVE  IsNested(d, FrameAt(u, d)', FrameAt(u, d - 1)')
        <3>1. CASE u # t BY <1>1, <3>1, NestOld
        <3>2. CASE u = t /\ d = 1 BY <1>5, <3>2 DEF Linking
        <3>3. CASE u = t /\ d = 2
            <4>1. d - 1 = 1 BY <3>3
            <4>2. QED BY <1>5, <3>3, <4>1 DEF Linking
        <3>4. u = t => d = 1 \/ d = 2 BY <1>5 DEF Linking
        <3>5. QED BY <3>1, <3>2, <3>3, <3>4
    <2>2. QED BY <2>1 DEF NestInv
<1>6. QED BY <1>2, <1>3, <1>4, <1>5, EnteredFrame

LEMMA NestStay ==
    ASSUME NestInv, UNCHANGED stack
    PROVE  NestInv'
<1>1. \A u \in Runners : Depth(u)' = Depth(u) /\ \A d : FrameAt(u, d)' = FrameAt(u, d)
    BY DEF Depth, FrameAt
<1>2. QED BY <1>1 DEF NestInv

-----------------------------------------------------------------------------
(* Places that only one frame is at.                                         *)

\* g takes the place of f, the innermost frame of a call.
Replaces(g, f) ==
    /\ g.on = f.on
    /\ \/ <<f.at, g.at>> \in Successors /\ g.todo = {}
       \/ f.at = "check_canceled" /\ f.on \in Links /\ g.at = "exchange_source" /\ g.todo = {}
       \/ f.at = "lock_source" /\ g.at = "cancel_tokens" /\ g.todo = tokens[f.on]
       \/ f.at = "lock_token" /\ g.at = "call_callbacks" /\ g.todo = callbacks[f.on]
       \/ f.at \in {"cancel_tokens", "call_callbacks"} /\ g.at = f.at /\ g.todo \subseteq f.todo

\* f calls g.
Calls(f, g) ==
    \/ f.at = "cancel_tokens" /\ \E k \in f.todo : g = Frame("exchange_token", k)
    \/ f.at = "call_callbacks" /\ \E s \in f.todo \intersect Links : g = Frame("exchange_source", s)
    \/ f.at = "recheck" /\ g = Frame("exchange_token", f.on)

LEMMA NewFrame ==
    ASSUME ObjectTypes, NEW t \in Runners, CallStep(t), NEW d \in 1..Depth(t)', ~(d < Depth(t))
    PROVE  \/ d = Depth(t) /\ Replaces(FrameAt(t, d)', FrameAt(t, Depth(t)))
           \/ /\ d - 1 = Depth(t) /\ Calls(FrameAt(t, Depth(t)), FrameAt(t, d)')
              /\ Replaces(FrameAt(t, d - 1)', FrameAt(t, Depth(t)))
<1>1. PICK h \in Nat \ {0} :
        /\ h = Depth(t)
        /\ Depth(t)' \in {h - 1, h, h + 1}
        /\ \A e \in 1..Depth(t)' : e >= h => e \in {h, h + 1}
        /\ ~IsIdle(t) /\ Moved(t) /\ Shape(t)
    BY NewFrames
<1>2. PICK f : f = FrameAt(t, Depth(t))
    OBVIOUS
<1>3. On(t) = f.on /\ d \in {h, h + 1}
    BY <1>1, <1>2, HeadIsInnermost DEF On
<1>4. ASSUME NEW place, NEW todo, Continued(t, place, todo),
             Replaces([at |-> place, on |-> f.on, todo |-> todo], f)
      PROVE  d = h /\ Replaces(FrameAt(t, d)', f)
    <2>1. Depth(t)' = h /\ d = h BY <1>1, <1>3, <1>4 DEF Continued
    <2>2. QED BY <1>3, <1>4, <2>1 DEF Continued
<1>5. ASSUME NEW place, NEW todo, NEW callee, Called(t, place, todo, callee), Calls(f, callee),
             Replaces([at |-> place, on |-> f.on, todo |-> todo], f)
      PROVE  \/ d = h /\ Replaces(FrameAt(t, d)', f)
             \/ d - 1 = h /\ Calls(f, FrameAt(t, d)') /\ Replaces(FrameAt(t, d - 1)', f)
    <2>1. Depth(t)' = h + 1 /\ Depth(t)' - 1 = h BY <1>1, <1>5 DEF Called
    <2>2. /\ FrameAt(t, h)' = [at |-> place, on |-> f.on, todo |-> todo]
          /\ FrameAt(t, h + 1)' = callee
        BY <1>3, <1>5, <2>1 DEF Called
    <2>3. CASE d = h BY <1>5, <2>2, <2>3
    <2>4. CASE d = h + 1
        <3>1. d - 1 = h BY <2>4
        <3>2. QED BY <1>5, <2>2, <2>4, <3>1
    <2>5. QED BY <1>3, <2>3, <2>4
<1>6. ~Returned(t) BY <1>1, <1>3 DEF Returned
<1> USE DEF Replaces, Calls
<1>7. CASE \E place \in Places : <<f.at, place>> \in Successors /\ Continued(t, place, {})
    BY <1>1, <1>2, <1>4, <1>7
<1>8. CASE f.at = "check_canceled" /\ f.on \in Links /\ Continued(t, "exchange_source", {})
    BY <1>1, <1>2, <1>4, <1>8
<1>9. CASE f.at = "lock_source" /\ Continued(t, "cancel_tokens", tokens[f.on])
    BY <1>1, <1>2, <1>4, <1>9
<1>10. CASE f.at = "lock_token" /\ Continued(t, "call_callbacks", callbacks[f.on])
    BY <1>1, <1>2, <1>4, <1>10
<1>11. CASE /\ f.at \in {"cancel_tokens", "call_callbacks"}
            /\ \E x \in f.todo : Continued(t, f.at, f.todo \ {x})
    BY <1>1, <1>2, <1>4, <1>11
<1>12. ASSUME f.at \in {"cancel_tokens", "call_callbacks"}, NEW x \in f.todo, NEW callee,
              Called(t, f.at, f.todo \ {x}, callee), Calls(f, callee)
       PROVE  \/ d = h /\ Replaces(FrameAt(t, d)', f)
              \/ d - 1 = h /\ Calls(f, FrameAt(t, d)') /\ Replaces(FrameAt(t, d - 1)', f)
    <2>1. Replaces([at |-> f.at, on |-> f.on, todo |-> f.todo \ {x}], f)
        BY <1>12
    <2>2. QED BY <1>5, <1>12, <2>1
<1>13. CASE f.at = "recheck" /\ Called(t, "created", {}, Frame("exchange_token", f.on))
    <2>1. Replaces([at |-> "created", on |-> f.on, todo |-> {}], f)
        BY <1>13 DEF Successors
    <2>2. QED BY <1>1, <1>2, <1>5, <1>13, <2>1
<1>14. QED
    BY <1>1, <1>2, <1>6, <1>7, <1>8, <1>9, <1>10, <1>11, <1>12, <1>13 DEF Shape

LEMMA OnlyOneStep ==
    ASSUME ObjectTypes, NEW P, OnlyOneAt(P), NEW t \in Runners, Moved(t), NEW e,
           \A d \in 1..Depth(t)' : ~(d < Depth(t)) /\ FrameAt(t, d)'.at \in P =>
                /\ d = e
                /\ \A u \in Runners : \A c \in 1..Depth(u) :
                    IsAt(u, c, P, FrameAt(t, d)'.on) => u = t /\ c = Depth(t)
    PROVE  OnlyOneAt(P)'
<1> SUFFICES ASSUME NEW u \in Runners, NEW v \in Runners,
                    NEW c \in 1..Depth(u)', NEW d \in 1..Depth(v)',
                    FrameAt(u, c)'.at \in P, FrameAt(v, d)'.at \in P,
                    FrameAt(v, d)'.on = FrameAt(u, c)'.on
             PROVE  u = v /\ c = d
    BY DEF OnlyOneAt, IsAt
<1>1. CASE (u # t \/ c < Depth(t)) /\ (v # t \/ d < Depth(t))
    <2>1. /\ c \in 1..Depth(u) /\ FrameAt(u, c)' = FrameAt(u, c)
          /\ d \in 1..Depth(v) /\ FrameAt(v, d)' = FrameAt(v, d)
        BY <1>1, OldFrame
    <2>2. QED BY <2>1 DEF OnlyOneAt, IsAt
<1>2. CASE ~(u # t \/ c < Depth(t)) /\ ~(v # t \/ d < Depth(t))
    BY <1>2
<1>3. CASE ~(u # t \/ c < Depth(t)) /\ (v # t \/ d < Depth(t))
    <2>1. d \in 1..Depth(v) /\ FrameAt(v, d)' = FrameAt(v, d)
        BY <1>3, OldFrame
    <2>2. IsAt(v, d, P, FrameAt(u, c)'.on)
        BY <2>1 DEF IsAt
    <2>3. v = t /\ d = Depth(t) BY <1>3, <2>1, <2>2
    <2>4. QED BY <1>3, <2>3, HeadIsInnermost
<1>4. CASE (u # t \/ c < Depth(t)) /\ ~(v # t \/ d < Depth(t))
    <2>1. c \in 1..Depth(u) /\ FrameAt(u, c)' = FrameAt(u, c)
        BY <1>4, OldFrame
    <2>2. IsAt(u, c, P, FrameAt(v, d)'.on)
        BY <2>1 DEF IsAt
    <2>3. u = t /\ c = Depth(t) BY <1>4, <2>1, <2>2
    <2>4. QED BY <1>4, <2>3, HeadIsInnermost
<1>5. QED BY <1>1, <1>2, <1>3, <1>4

\* The steps that begin no call and go on with none.
Aside ==
    \/ \E t \in Threads, c \in Callbacks :
        UnregisterCallback(t, c) \/ ReleaseHandle(t, c) \/ DestroyHandle(t, c)
    \/ \E k \in Tokens : DropToken(k)
    \/ \E s \in Sources : DestroySource(s)
    \/ UNCHANGED vars

LEMMA StepKinds ==
    ASSUME [Next]_vars
    PROVE  (\E t \in Runners : CallStep(t) \/ Enter(t)) \/ Aside
BY TimedAssumption DEF Next, UserStep, Enter, Aside, Rest, Runners

LEMMA AsideFrames ==
    ASSUME Aside
    PROVE  stack' = stack /\ \A u \in Runners : Depth(u)' = Depth(u)
                                /\ \A d : FrameAt(u, d)' = FrameAt(u, d)
<1>1. stack' = stack
    BY DEF Aside, UnregisterCallback, ReleaseHandle, DestroyHandle, DropToken, DestroySource, vars
<1>2. QED BY <1>1 DEF Depth, FrameAt

LEMMA OnlyOneStay ==
    ASSUME Aside, NEW P, OnlyOneAt(P)
    PROVE  OnlyOneAt(P)'
BY AsideFrames DEF OnlyOneAt, IsAt

LEMMA NestStep ==
    ASSUME ObjectTypes, WaitingInv, LockInv, NestInv, [Next]_vars
    PROVE  NestInv'
BY StepKinds, AsideFrames, NestCall, NestEnter, NestStay

-----------------------------------------------------------------------------
(* Tokens that are being created.                                            *)

LEMMA CreateCall ==
    ASSUME ObjectTypes, NestInv, CreateInv, NEW t \in Runners, CallStep(t)
    PROVE  CreateInv'
<1>1. PICK f : f = FrameAt(t, Depth(t))
    OBVIOUS
<1>2. PICK h \in Nat \ {0} : h = Depth(t) /\ h \in 1..Depth(t) /\ Moved(t) /\ ~IsIdle(t)
    BY NewFrames
<1>3. ASSUME NEW d \in 1..Depth(t)', ~(d < Depth(t)), FrameAt(t, d)'.at \in CreatePlaces
      PROVE  d = h /\ f.at \in {"register_token", "recheck"} /\ FrameAt(t, d)'.on = f.on
    BY <1>1, <1>2, <1>3, NewFrame DEF Replaces, Calls, Successors, Frame, CreatePlaces
<1>4. OnlyOneAt(CreatePlaces)'
    <2>1. ASSUME f.at \in CreatePlaces, NEW u \in Runners, NEW c \in 1..Depth(u),
                 IsAt(u, c, CreatePlaces, f.on)
          PROVE  u = t /\ c = h
        BY <1>1, <1>2, <2>1 DEF CreateInv, OnlyOneAt
    <2>2. QED
        BY <1>2, <1>3, <2>1, OnlyOneStep DEF CreateInv, CreatePlaces
<1>5. ASSUME NEW u \in Runners, NEW d \in 1..Depth(u)', FrameAt(u, d)'.at \in CreatePlaces
      PROVE  token'[FrameAt(u, d)'.on] = "creating"
    <2>1. PICK g : g = FrameAt(u, d)'
        OBVIOUS
    <2>2. \/ f.at \in {"register_token", "recheck"} /\ g.on = f.on
          \/ \E c \in 1..Depth(u) : g = FrameAt(u, c) /\ (u # t \/ c # h)
        <3>1. CASE u # t \/ d < Depth(t) BY <1>2, <2>1, <3>1, OldFrame
        <3>2. CASE ~(u # t \/ d < Depth(t)) BY <1>3, <1>5, <2>1, <3>2
        <3>3. QED BY <3>1, <3>2
    <2>3. token[g.on] = "creating" /\ (f.at = "created" => g.on # f.on)
        BY <1>1, <1>2, <1>5, <2>1, <2>2 DEF CreateInv, OnlyOneAt, IsAt, CreatePlaces
    <2>4. CASE ReturnToken(t)
        <3>1. f.at = "created" /\ token' = [token EXCEPT ![f.on] = "owned"]
            BY <1>1, <1>2, <2>4, HeadIsInnermost DEF ReturnToken, At, On
        <3>2. QED BY <2>1, <2>3, <3>1 DEF ObjectTypes
    <2>5. CASE ~ReturnToken(t)
        <3>1. token' = token
            BY <2>5 DEF CallStep, ExchangeSource, LockSource, CancelNextToken, UnlockSource, EraseExpired,
                ExchangeToken, LockToken, CallUserCallback, CallLinkedSource, ClearCallbacks,
                RegisterToken, Recheck, CallAtOnce, FindNotCanceled, InsertCallback, FinishLink, tokenVars
        <3>2. QED BY <2>1, <2>3, <3>1
    <2>6. QED BY <2>4, <2>5
<1>6. QED BY <1>4, <1>5 DEF CreateInv

LEMMA CreateEnter ==
    ASSUME ObjectTypes, WaitingInv, NestInv, CreateInv, NEW t \in Runners, Enter(t)
    PROVE  CreateInv'
<1>1. Moved(t) /\ Depth(t) = 0
    BY EnteredFrame
<1>2. CASE \E k \in Tokens : CreateToken(t, k) /\ Begun(t, Frame("register_token", k))
    <2>1. PICK k \in Tokens :
            /\ token[k] = "none" /\ token' = [token EXCEPT ![k] = "creating"]
            /\ Depth(t)' = 1 /\ FrameAt(t, 1)' = Frame("register_token", k)
        BY <1>2 DEF CreateToken, Begun
    <2>2. ASSUME NEW u \in Runners, NEW c \in 1..Depth(u) PROVE ~IsAt(u, c, CreatePlaces, k)
        BY <2>1, <2>2 DEF CreateInv, IsAt
    <2>3. OnlyOneAt(CreatePlaces)'
        <3>1. FrameAt(t, 1)'.on = k BY <2>1 DEF Frame
        <3>2. \A d \in 1..Depth(t)' : d = 1 BY <2>1
        <3>3. QED BY <1>1, <2>2, <3>1, <3>2, OnlyOneStep DEF CreateInv
    <2>4. ASSUME NEW u \in Runners, NEW d \in 1..Depth(u)', FrameAt(u, d)'.at \in CreatePlaces
          PROVE  token'[FrameAt(u, d)'.on] = "creating"
        <3>1. CASE u # t
            <4>1. d \in 1..Depth(u) /\ FrameAt(u, d)' = FrameAt(u, d) BY <1>1, <3>1, OldFrame
            <4>2. QED BY <2>1, <2>4, <4>1 DEF CreateInv, ObjectTypes
        <3>2. CASE u = t
            <4>1. d = 1 BY <2>1, <3>2
            <4>2. QED BY <2>1, <3>2, <4>1 DEF ObjectTypes, Frame
        <3>3. QED BY <3>1, <3>2
    <2>5. QED BY <2>3, <2>4 DEF CreateInv
<1>3. CASE ~\E k \in Tokens : CreateToken(t, k)
    <2>1. token' = token
        BY <1>3 DEF Enter, Cancel, RegisterCallback, LinkSource, TimeUp, tokenVars
    <2>2. ASSUME NEW d \in 1..Depth(t)' PROVE FrameAt(t, d)'.at \notin CreatePlaces
        <3>1. FrameAt(t, d)'.at \in {"exchange_source", "check_canceled", "linked"}
            BY <1>3, <2>2, EnteredFrame DEF Begun, Linking, Frame
        <3>2. QED BY <3>1 DEF CreatePlaces
    <2>3. OnlyOneAt(CreatePlaces)'
        BY <1>1, <2>2, OnlyOneStep DEF CreateInv
    <2>4. ASSUME NEW u \in Runners, NEW d \in 1..Depth(u)', FrameAt(u, d)'.at \in CreatePlaces
          PROVE  token'[FrameAt(u, d)'.on] = "creating"
        <3>1. u # t BY <2>2, <2>4
        <3>2. d \in 1..Depth(u) /\ FrameAt(u, d)' = FrameAt(u, d) BY <1>1, <3>1, OldFrame
        <3>3. QED BY <2>1, <2>4, <3>2 DEF CreateInv
    <2>5. QED BY <2>3, <2>4 DEF CreateInv
<1>4. QED BY <1>2, <1>3, EnteredFrame, EntryFrames

LEMMA CreateStep ==
    ASSUME ObjectTypes, WaitingInv, NestInv, CreateInv, [Next]_vars
    PROVE  CreateInv'
<1>1. ASSUME Aside PROVE CreateInv'
    <2>1. token' = token \/ \E k \in Tokens : token[k] = "owned" /\ token' = [token EXCEPT ![k] = "dropped"]
        BY <1>1 DEF Aside, UnregisterCallback, ReleaseHandle, DestroyHandle, DropToken, DestroySource,
                    vars, tokenVars
    <2>2. \A k \in Tokens : token[k] = "creating" => token'[k] = "creating"
        BY <2>1 DEF ObjectTypes
    <2>3. ASSUME NEW u \in Runners, NEW d \in 1..Depth(u), FrameAt(u, d).at \in CreatePlaces
          PROVE  token'[FrameAt(u, d).on] = "creating"
        BY <2>2, <2>3 DEF CreateInv, NestInv, IsNested
    <2>4. QED BY <1>1, <2>3, AsideFrames, OnlyOneStay DEF CreateInv
<1>2. QED BY <1>1, StepKinds, CreateCall, CreateEnter

-----------------------------------------------------------------------------
(* Callbacks that are being registered.                                      *)

\* The steps of a call that end a registration, and what the others leave alone.
LEMMA HandleOfCall ==
    ASSUME ObjectTypes, NEW t \in Runners, CallStep(t)
    PROVE  \/ /\ CallAtOnce(t) /\ FrameAt(t, Depth(t)).at = "check_canceled"
              /\ handle' = [handle EXCEPT ![FrameAt(t, Depth(t)).on] = "null"]
           \/ /\ InsertCallback(t) /\ FrameAt(t, Depth(t)).at = "insert_callback"
              /\ handle' = [handle EXCEPT ![FrameAt(t, Depth(t)).on] = "held"]
           \/ handle' = handle /\ ~CallAtOnce(t) /\ ~InsertCallback(t)
<1>1. ~IsIdle(t) BY NewFrames
<1>2. CASE CallAtOnce(t)
    BY <1>1, <1>2, HeadIsInnermost DEF CallAtOnce, At, On
<1>3. CASE InsertCallback(t)
    BY <1>1, <1>3, HeadIsInnermost DEF InsertCallback, At, On
<1>4. CASE ~CallAtOnce(t) /\ ~InsertCallback(t)
    BY <1>4 DEF CallStep, ExchangeSource, LockSource, CancelNextToken, UnlockSource, EraseExpired,
        ExchangeToken, LockToken, CallUserCallback, CallLinkedSource, ClearCallbacks,
        RegisterToken, Recheck, ReturnToken, FindNotCanceled, FinishLink
<1>5. QED BY <1>2, <1>3, <1>4

LEMMA RegisterCall ==
    ASSUME ObjectTypes, NestInv, RegisterInv, NEW t \in Runners, CallStep(t)
    PROVE  RegisterInv'
<1>1. PICK f : f = FrameAt(t, Depth(t))
    OBVIOUS
<1>2. PICK h \in Nat \ {0} :
            /\ h = Depth(t) /\ h \in 1..Depth(t) /\ Moved(t) /\ ~IsIdle(t)
            /\ Depth(t)' \in {h - 1, h, h + 1}
    BY NewFrames
<1>3. ASSUME NEW d \in 1..Depth(t)', ~(d < Depth(t)), FrameAt(t, d)'.at \in RegisterPlaces
      PROVE  d = h /\ f.at = "check_canceled" /\ FrameAt(t, d)'.at = "insert_callback"
             /\ FrameAt(t, d)'.on = f.on
    BY <1>1, <1>2, <1>3, NewFrame DEF Replaces, Calls, Successors, Frame, RegisterPlaces
<1>4. OnlyOneAt(RegisterPlaces)'
    <2>1. ASSUME f.at \in RegisterPlaces, NEW u \in Runners, NEW c \in 1..Depth(u),
                 IsAt(u, c, RegisterPlaces, f.on)
          PROVE  u = t /\ c = h
        BY <1>1, <1>2, <2>1 DEF RegisterInv, OnlyOneAt
    <2>2. QED
        BY <1>2, <1>3, <2>1, OnlyOneStep DEF RegisterInv, RegisterPlaces
<1>5. ASSUME NEW u \in Runners, NEW d \in 1..Depth(u)', FrameAt(u, d)'.at \in RegisterPlaces
      PROVE  handle'[FrameAt(u, d)'.on] = "registering"
    <2>1. PICK g : g = FrameAt(u, d)'
        OBVIOUS
    <2>2. \/ /\ f.at = "check_canceled" /\ g.on = f.on /\ u = t /\ d = h /\ g.at = "insert_callback"
          \/ \E c \in 1..Depth(u) : g = FrameAt(u, c) /\ (u # t \/ c # h)
        <3>1. CASE u # t \/ d < Depth(t) BY <1>2, <2>1, <3>1, OldFrame
        <3>2. CASE ~(u # t \/ d < Depth(t)) BY <1>2, <1>3, <1>5, <2>1, <3>2
        <3>3. QED BY <3>1, <3>2
    <2>3. CASE handle' = handle
        BY <1>1, <1>2, <1>5, <2>1, <2>2, <2>3 DEF RegisterInv, RegisterPlaces
    <2>4. CASE CallAtOnce(t) \/ InsertCallback(t)
        <3>1. f.at \in RegisterPlaces /\ \E x \in {"null", "held"} : handle' = [handle EXCEPT ![f.on] = x]
            BY <1>1, <2>4, HandleOfCall DEF RegisterPlaces
        <3>2. CASE \E c \in 1..Depth(u) : g = FrameAt(u, c) /\ (u # t \/ c # h)
            <4>1. handle[g.on] = "registering" /\ g.on # f.on
                BY <1>1, <1>2, <1>5, <2>1, <3>1, <3>2 DEF RegisterInv, OnlyOneAt, IsAt
            <4>2. QED BY <2>1, <3>1, <4>1 DEF ObjectTypes
        <3>3. CASE f.at = "check_canceled" /\ u = t /\ d = h /\ g.at = "insert_callback"
            <4>1. CallAtOnce(t) BY <1>1, <2>4, <3>3, HandleOfCall
            <4>2. Return(t) \/ Continue(t, "exchange_source", {})
                BY <4>1 DEF CallAtOnce
            <4>3. CASE Return(t)
                <5>1. Depth(t)' = h - 1 BY <1>2, <4>3, ReturnFrames DEF Returned
                <5>2. QED BY <1>2, <3>3, <5>1
            <4>4. CASE Continue(t, "exchange_source", {})
                <5>1. /\ Depth(t)' = h
                      /\ FrameAt(t, Depth(t))' = [at |-> "exchange_source", on |-> On(t), todo |-> {}]
                    BY <1>2, <4>4, ContinueFrames DEF Continued
                <5>2. g.at = "exchange_source" BY <2>1, <3>3, <5>1
                <5>3. QED BY <3>3, <5>2
            <4>5. QED BY <4>2, <4>3, <4>4
        <3>4. QED BY <2>2, <3>2, <3>3
    <2>5. QED BY <2>3, <2>4, HandleOfCall
<1>6. QED BY <1>4, <1>5 DEF RegisterInv

LEMMA RegisterBegin ==
    ASSUME ObjectTypes, RegisterInv, NEW t \in Runners, Moved(t), Depth(t) = 0,
           NEW c \in Registrations, handle' = [handle EXCEPT ![c] = "registering"],
           \A u \in Runners : \A d \in 1..Depth(u) : ~IsAt(u, d, RegisterPlaces, c),
           \A d \in 1..Depth(t)' : FrameAt(t, d)'.at \in RegisterPlaces =>
                d = Depth(t)' /\ FrameAt(t, d)'.on = c
    PROVE  RegisterInv'
<1>1. OnlyOneAt(RegisterPlaces)'
    BY OnlyOneStep DEF RegisterInv
<1>2. ASSUME NEW u \in Runners, NEW d \in 1..Depth(u)', FrameAt(u, d)'.at \in RegisterPlaces
      PROVE  handle'[FrameAt(u, d)'.on] = "registering"
    <2>1. CASE u # t
        <3>1. d \in 1..Depth(u) /\ FrameAt(u, d)' = FrameAt(u, d) BY <2>1, OldFrame
        <3>2. QED BY <1>2, <3>1 DEF RegisterInv, IsAt
    <2>2. CASE u = t BY <1>2, <2>2 DEF ObjectTypes
    <2>3. QED BY <2>1, <2>2
<1>3. QED BY <1>1, <1>2 DEF RegisterInv

LEMMA RegisterEnter ==
    ASSUME ObjectTypes, WaitingInv, NestInv, SourceInv, RegisterInv, NEW t \in Runners, Enter(t)
    PROVE  RegisterInv'
<1>1. Moved(t) /\ Depth(t) = 0
    BY EnteredFrame
<1>3. ASSUME NEW c \in Callbacks, RegisterCallback(t, c), Begun(t, Frame("check_canceled", c))
      PROVE  RegisterInv'
    <2>1. c \in Registrations /\ handle[c] = "none" /\ handle' = [handle EXCEPT ![c] = "registering"]
        BY <1>3 DEF RegisterCallback, Registrations
    <2>2. ASSUME NEW u \in Runners, NEW d \in 1..Depth(u) PROVE ~IsAt(u, d, RegisterPlaces, c)
        BY <2>1 DEF RegisterInv, IsAt
    <2>3. ASSUME NEW d \in 1..Depth(t)' PROVE d = Depth(t)' /\ FrameAt(t, d)'.on = c
        BY <1>3 DEF Begun, Frame
    <2>4. QED BY <1>1, <2>1, <2>2, <2>3, RegisterBegin
<1>4. ASSUME NEW s \in Links, LinkSource(t, s), Linking(t, s)
      PROVE  RegisterInv'
    <2>1. s \in Registrations /\ s \in Sources /\ source[s] = "none"
          /\ handle' = [handle EXCEPT ![s] = "registering"]
        BY <1>4, LinksAssumption DEF LinkSource, Registrations
    <2>2. ASSUME NEW u \in Runners, NEW d \in 1..Depth(u) PROVE ~IsAt(u, d, RegisterPlaces, s)
        BY <2>1 DEF SourceInv, IsAt
    <2>3. ASSUME NEW d \in 1..Depth(t)', FrameAt(t, d)'.at \in RegisterPlaces
          PROVE  d = Depth(t)' /\ FrameAt(t, d)'.on = s
        <3>1. d = 1 \/ d = 2 BY <1>4 DEF Linking
        <3>2. QED BY <1>4, <2>3, <3>1 DEF Linking, Frame, RegisterPlaces
    <2>4. QED BY <1>1, <2>1, <2>2, <2>3, RegisterBegin
<1>5. ASSUME handle' = handle, NEW g, Begun(t, g), g.at \notin RegisterPlaces PROVE RegisterInv'
    <2>1. ASSUME NEW d \in 1..Depth(t)' PROVE FrameAt(t, d)'.at \notin RegisterPlaces
        BY <1>5 DEF Begun
    <2>2. OnlyOneAt(RegisterPlaces)'
        BY <1>1, <2>1, OnlyOneStep DEF RegisterInv
    <2>3. ASSUME NEW u \in Runners, NEW d \in 1..Depth(u)', FrameAt(u, d)'.at \in RegisterPlaces
          PROVE  handle'[FrameAt(u, d)'.on] = "registering"
        <3>1. u # t BY <2>1, <2>3
        <3>2. d \in 1..Depth(u) /\ FrameAt(u, d)' = FrameAt(u, d) BY <1>1, <3>1, OldFrame
        <3>3. QED BY <1>5, <2>3, <3>2 DEF RegisterInv
    <2>4. QED BY <2>2, <2>3 DEF RegisterInv
<1>6. ASSUME NEW s \in Sources, handle' = handle, Begun(t, Frame("exchange_source", s))
      PROVE  RegisterInv'
    BY <1>5, <1>6 DEF Frame, RegisterPlaces
<1>7. ASSUME NEW k \in Tokens, CreateToken(t, k), Begun(t, Frame("register_token", k))
      PROVE  RegisterInv'
    BY <1>5, <1>7 DEF CreateToken, Frame, RegisterPlaces
<1>8. QED BY <1>3, <1>4, <1>6, <1>7, EnteredFrame

LEMMA RegisterStep ==
    ASSUME ObjectTypes, WaitingInv, NestInv, SourceInv, RegisterInv, [Next]_vars
    PROVE  RegisterInv'
<1>1. ASSUME Aside PROVE RegisterInv'
    <2>1. \A c \in Registrations : handle[c] = "registering" => handle'[c] = "registering"
        <3>1. \/ handle' = handle
              \/ \E c \in Registrations, x \in {"removed", "leaked", "gone"} :
                    handle[c] \in {"held", "removed"} /\ handle' = [handle EXCEPT ![c] = x]
            BY <1>1 DEF Aside, UnregisterCallback, ReleaseHandle, DestroyHandle, DropToken,
                        DestroySource, vars, Registrations
        <3>2. QED BY <3>1 DEF ObjectTypes
    <2>2. ASSUME NEW u \in Runners, NEW d \in 1..Depth(u), FrameAt(u, d).at \in RegisterPlaces
          PROVE  handle'[FrameAt(u, d).on] = "registering"
        BY <2>1, <2>2 DEF RegisterInv, NestInv, IsNested
    <2>3. QED BY <1>1, <2>2, AsideFrames, OnlyOneStay DEF RegisterInv
<1>2. QED BY <1>1, StepKinds, RegisterCall, RegisterEnter


-----------------------------------------------------------------------------
(* Locks of tokens.                                                          *)

\* What the innermost frame is called in the definitions of the steps.
LEMMA HeadOfCall ==
    ASSUME ObjectTypes, NEW t \in Runners, CallStep(t), NEW f, f = FrameAt(t, Depth(t))
    PROVE  /\ ~IsIdle(t) /\ On(t) = f.on /\ Todo(t) = f.todo
           /\ \A place : At(t, place) <=> f.at = place
BY ShapeOfCall, HeadIsInnermost DEF At, On, Todo

\* The steps of a call that change a lock or a list of callbacks.
LEMMA LockOfCall ==
    ASSUME ObjectTypes, NEW t \in Runners, CallStep(t), NEW f, f = FrameAt(t, Depth(t))
    PROVE  \/ /\ f.at = "lock_token" /\ holder[f.on] = Nobody /\ callbacks' = callbacks
              /\ holder' = [holder EXCEPT ![f.on] = t] /\ Continued(t, "call_callbacks", callbacks[f.on])
           \/ /\ f.at = "call_callbacks" /\ Returned(t)
              /\ callbacks' = [callbacks EXCEPT ![f.on] = {}]
              /\ holder' = [holder EXCEPT ![f.on] = Nobody]
           \/ /\ f.at = "insert_callback" /\ holder[TokenOf[f.on]] = Nobody /\ holder' = holder
              /\ callbacks' = [callbacks EXCEPT ![TokenOf[f.on]] = @ \union {f.on}]
           \/ /\ f.at \notin {"lock_token", "insert_callback"}
              /\ callbacks' = callbacks /\ holder' = holder
<1> USE HeadOfCall
<1>1. CASE LockToken(t)
    BY <1>1, ContinueFrames DEF LockToken
<1>2. CASE ClearCallbacks(t)
    BY <1>2, ReturnFrames DEF ClearCallbacks
<1>3. CASE InsertCallback(t)
    BY <1>3 DEF InsertCallback
<1>4. CASE ~LockToken(t) /\ ~ClearCallbacks(t) /\ ~InsertCallback(t)
    BY <1>4 DEF CallStep, ExchangeSource, LockSource, CancelNextToken, UnlockSource, EraseExpired,
        ExchangeToken, CallUserCallback, CallLinkedSource, RegisterToken, Recheck, ReturnToken,
        CallAtOnce, FindNotCanceled, FinishLink, tokenVars
<1>5. QED BY <1>1, <1>2, <1>3, <1>4

LEMMA LockKept ==
    ASSUME ObjectTypes, NEW t \in Runners, CallStep(t), NEW f, f = FrameAt(t, Depth(t)),
           NEW k \in Tokens, f.at = "call_callbacks" => k # f.on
    PROVE  /\ callbacks[k] \subseteq callbacks'[k]
           /\ holder[k] # Nobody => holder'[k] = holder[k]
<1>1. callbacks \in [Tokens -> SUBSET Registrations] /\ holder \in [Tokens -> Runners \union {Nobody}]
    BY DEF ObjectTypes
<1>2. CASE f.at = "lock_token" /\ holder[f.on] = Nobody /\ callbacks' = callbacks
           /\ holder' = [holder EXCEPT ![f.on] = t]
    BY <1>1, <1>2
<1>3. CASE f.at = "call_callbacks" /\ callbacks' = [callbacks EXCEPT ![f.on] = {}]
           /\ holder' = [holder EXCEPT ![f.on] = Nobody]
    BY <1>1, <1>3
<1>4. CASE callbacks' = [callbacks EXCEPT ![TokenOf[f.on]] = @ \union {f.on}] /\ holder' = holder
    BY <1>1, <1>4
<1>5. CASE callbacks' = callbacks /\ holder' = holder
    BY <1>5
<1>6. QED BY <1>2, <1>3, <1>4, <1>5, LockOfCall

LEMMA LockCall ==
    ASSUME ObjectTypes, NestInv, LockInv, NEW t \in Runners, CallStep(t)
    PROVE  LockInv'
<1>1. PICK f : f = FrameAt(t, Depth(t))
    OBVIOUS
<1>2. PICK h \in Nat \ {0} :
            /\ h = Depth(t) /\ h \in 1..Depth(t) /\ Moved(t) /\ ~IsIdle(t)
            /\ h # 1 => FrameAt(t, h - 1)' = FrameAt(t, h - 1)
    BY NewFrames
<1>3. PICK p : p = FrameAt(t, h - 1)
    OBVIOUS
<1>4. /\ IsNested(h, f, p)
      /\ f.at = "call_callbacks" => holder[f.on] = t /\ f.todo \subseteq callbacks[f.on]
      /\ f.at \in SourcePlaces /\ h # 1 /\ p.at = "call_callbacks" => f.on \in callbacks[TokenOf[f.on]]
    BY <1>1, <1>2, <1>3 DEF NestInv, LockInv
<1>5. ASSUME NEW u \in Runners, NEW c \in 1..Depth(u), FrameAt(u, c).at = "call_callbacks",
             f.at \in {"lock_token", "call_callbacks"}, FrameAt(u, c).on = f.on,
             f.at = "lock_token" => holder[f.on] = Nobody
      PROVE  u = t /\ c = h
    <2>1. holder[f.on] = u /\ f.at = "call_callbacks"
        BY <1>5, NobodyAssumption DEF LockInv, Runners
    <2>2. QED BY <1>1, <1>2, <1>5, <2>1 DEF LockInv, OnlyOneAt, IsAt
<1>6. ASSUME NEW d \in 1..Depth(t)', ~(d < Depth(t))
      PROVE  \/ d = h /\ Replaces(FrameAt(t, d)', f)
             \/ d - 1 = h /\ Calls(f, FrameAt(t, d)') /\ Replaces(FrameAt(t, d - 1)', f)
    BY <1>1, <1>2, <1>6, NewFrame
<1>7. ASSUME NEW d \in 1..Depth(t)', ~(d < Depth(t)), FrameAt(t, d)'.at = "call_callbacks"
      PROVE  d = h /\ Replaces(FrameAt(t, d)', f) /\ f.at \in {"lock_token", "call_callbacks"}
    BY <1>6, <1>7 DEF Replaces, Calls, Successors, Frame
<1>8. OnlyOneAt({"call_callbacks"})'
    <2>1. ASSUME NEW d \in 1..Depth(t)', ~(d < Depth(t)), FrameAt(t, d)'.at \in {"call_callbacks"},
                 NEW u \in Runners, NEW c \in 1..Depth(u),
                 IsAt(u, c, {"call_callbacks"}, FrameAt(t, d)'.on)
          PROVE  d = h /\ u = t /\ c = Depth(t)
        <3>1. FrameAt(t, d)'.on = f.on /\ d = h /\ f.at \in {"lock_token", "call_callbacks"}
            BY <1>7, <2>1 DEF Replaces
        <3>2. f.at = "lock_token" => holder[f.on] = Nobody
            BY <1>1, LockOfCall
        <3>3. QED BY <1>2, <1>5, <2>1, <3>1, <3>2 DEF IsAt
    <2>2. QED
        BY <1>2, <1>7, <2>1, OnlyOneStep DEF LockInv
<1>9. ASSUME NEW u \in Runners, NEW d \in 1..Depth(u)', NEW g, g = FrameAt(u, d)',
             g.at = "call_callbacks"
      PROVE  holder'[g.on] = u /\ g.todo \subseteq callbacks'[g.on]
    <2>1. CASE u # t \/ d < Depth(t)
        <3>1. d \in 1..Depth(u) /\ g = FrameAt(u, d) /\ ~(u = t /\ d = h)
            BY <1>2, <1>9, <2>1, OldFrame
        <3>2. holder[g.on] = u /\ g.todo \subseteq callbacks[g.on] /\ g.on \in Tokens
            BY <1>9, <3>1 DEF LockInv, NestInv, IsNested, TokenPlaces
        <3>3. f.at = "call_callbacks" => g.on # f.on
            BY <1>5, <1>9, <3>1
        <3>4. QED BY <1>1, <3>2, <3>3, LockKept, NobodyAssumption DEF Runners
    <2>2. CASE u = t /\ ~(d < Depth(t))
        <3>1. d = h /\ Replaces(g, f) /\ f.at \in {"lock_token", "call_callbacks"}
            BY <1>7, <1>9, <2>2
        <3>2. ~Returned(t) BY <1>2, <1>9, <2>2, <3>1 DEF Returned
        <3>3. CASE f.at = "call_callbacks"
            <4>1. callbacks' = callbacks /\ holder' = holder BY <1>1, <3>2, <3>3, LockOfCall
            <4>2. QED BY <1>4, <2>2, <3>1, <3>3, <4>1 DEF Replaces, Successors
        <3>4. CASE f.at = "lock_token"
            <4>1. callbacks' = callbacks /\ holder' = [holder EXCEPT ![f.on] = t] /\ f.on \in Tokens
                BY <1>1, <1>4, <3>4, LockOfCall DEF IsNested, TokenPlaces
            <4>2. g.on = f.on /\ g.todo = callbacks[f.on]
                BY <1>9, <3>1, <3>4 DEF Replaces, Successors
            <4>3. QED BY <2>2, <4>1, <4>2 DEF ObjectTypes
        <3>5. QED BY <3>1, <3>3, <3>4
    <2>3. QED BY <2>1, <2>2
<1>10. ASSUME NEW u \in Runners, NEW d \in 1..Depth(u)', NEW g, g = FrameAt(u, d)',
              g.at \in SourcePlaces, d # 1, FrameAt(u, d - 1)'.at = "call_callbacks"
       PROVE  g.on \in callbacks'[TokenOf[g.on]]
    <2>1. CASE u # t \/ d < Depth(t)
        <3>1. PICK q : q = FrameAt(u, d - 1)
            OBVIOUS
        <3>2. /\ d \in 1..Depth(u) /\ g = FrameAt(u, d)
              /\ d - 1 \in 1..Depth(u) /\ q.at = "call_callbacks" /\ ~(u = t /\ d - 1 = h)
            BY <1>2, <1>10, <2>1, <3>1, OldFrame
        <3>3. /\ g.on \in callbacks[TokenOf[g.on]] /\ g.on \in Links /\ q.on = TokenOf[g.on]
            BY <1>10, <3>1, <3>2 DEF LockInv, NestInv, IsNested
        <3>4. TokenOf[g.on] \in Tokens
            BY <3>3, TokenOfAssumption
        <3>5. f.at = "call_callbacks" => TokenOf[g.on] # f.on
            BY <1>5, <3>1, <3>2, <3>3
        <3>6. QED BY <1>1, <3>3, <3>4, <3>5, LockKept
    <2>2. CASE u = t /\ ~(d < Depth(t)) /\ d = h
        <3>1. Replaces(g, f) /\ p.at = "call_callbacks"
            BY <1>2, <1>3, <1>6, <1>10, <2>2
        <3>2. f.at \in SourcePlaces /\ g.on = f.on
            BY <1>4, <1>10, <2>2, <3>1 DEF Replaces, Successors, SourcePlaces, IsNested, RegisterPlaces
        <3>3. callbacks' = callbacks
            BY <1>1, <3>2, LockOfCall DEF SourcePlaces
        <3>4. QED BY <1>4, <1>10, <2>2, <3>1, <3>2, <3>3
    <2>3. CASE u = t /\ ~(d < Depth(t)) /\ d - 1 = h
        <3>1. f.at = "call_callbacks" /\ g.on \in f.todo /\ g.on \in Links
            BY <1>6, <1>10, <2>3 DEF Calls, Frame, SourcePlaces
        <3>2. g.on \in callbacks[f.on] /\ f.on \in Tokens
            BY <1>4, <3>1 DEF IsNested, TokenPlaces
        <3>3. TokenOf[g.on] = f.on
            BY <3>2 DEF ObjectTypes
        <3>4. ~Returned(t)
            BY <1>2, <1>10, <2>3 DEF Returned
        <3>5. callbacks' = callbacks BY <1>1, <3>1, <3>4, LockOfCall
        <3>6. QED BY <3>2, <3>3, <3>5
    <2>4. QED BY <1>6, <2>1, <2>2, <2>3
<1>11. QED BY <1>8, <1>9, <1>10 DEF LockInv

LEMMA LockEnter ==
    ASSUME ObjectTypes, WaitingInv, NestInv, LockInv, NEW t \in Runners, Enter(t)
    PROVE  LockInv'
<1>1. /\ Moved(t) /\ Depth(t) = 0
      /\ \/ \E s \in Links : Linking(t, s)
         \/ \E f : Begun(t, f) /\ f.at # "call_callbacks"
    <2>1. CASE \E s \in Links : LinkSource(t, s) /\ Linking(t, s)
        BY <2>1, EnteredFrame
    <2>2. \A place, x : Frame(place, x).at = place
        BY DEF Frame
    <2>3. Moved(t) /\ Depth(t) = 0
        BY EnteredFrame
    <2>4. QED BY <2>1, <2>2, <2>3, EnteredFrame
<1>2. holder' = holder /\ callbacks' = callbacks
    BY DEF Enter, Cancel, CreateToken, RegisterCallback, LinkSource, TimeUp, tokenVars
<1>3. ASSUME NEW d \in 1..Depth(t)'
      PROVE  FrameAt(t, d)'.at # "call_callbacks" /\ (FrameAt(t, d)'.at \in SourcePlaces => d = 1)
    BY <1>1, <1>3 DEF Linking, Begun, Frame, SourcePlaces
<1>4. OnlyOneAt({"call_callbacks"})'
    BY <1>1, <1>3, OnlyOneStep DEF LockInv
<1>5. ASSUME NEW u \in Runners, NEW d \in 1..Depth(u)'
      PROVE  LET f == FrameAt(u, d)' IN
             /\ f.at = "call_callbacks" => holder'[f.on] = u /\ f.todo \subseteq callbacks'[f.on]
             /\ f.at \in SourcePlaces /\ d # 1 /\ FrameAt(u, d - 1)'.at = "call_callbacks" =>
                f.on \in callbacks'[TokenOf[f.on]]
    <2>1. CASE u = t BY <1>3, <2>1
    <2>2. CASE u # t
        <3>1. /\ d \in 1..Depth(u) /\ FrameAt(u, d)' = FrameAt(u, d)
              /\ d # 1 => FrameAt(u, d - 1)' = FrameAt(u, d - 1)
            BY <1>1, <2>2, OldFrame
        <3>2. QED BY <1>2, <3>1 DEF LockInv
    <2>3. QED BY <2>1, <2>2
<1>6. QED BY <1>4, <1>5 DEF LockInv

\* What is not part of a call changes the callbacks of tokens that are not locked.
LEMMA CallbacksAside ==
    ASSUME ObjectTypes, Aside
    PROVE  /\ holder' = holder
           /\ \/ callbacks' = callbacks
              \/ \E c \in Registrations :
                    /\ holder[TokenOf[c]] = Nobody
                    /\ callbacks' = [callbacks EXCEPT ![TokenOf[c]] = @ \ {c}]
BY DEF Aside, UnregisterCallback, ReleaseHandle, DestroyHandle, DropToken, DestroySource,
       vars, tokenVars, Registrations

LEMMA LockStep ==
    ASSUME ObjectTypes, WaitingInv, NestInv, LockInv, [Next]_vars
    PROVE  LockInv'
<1>1. ASSUME Aside PROVE LockInv'
    <2>1. \A k \in Tokens : holder[k] # Nobody => callbacks'[k] = callbacks[k] /\ holder'[k] = holder[k]
        BY <1>1, CallbacksAside DEF ObjectTypes
    <2>2. ASSUME NEW u \in Runners, NEW d \in 1..Depth(u), NEW f, f = FrameAt(u, d)
          PROVE  /\ f.at = "call_callbacks" => holder'[f.on] = u /\ f.todo \subseteq callbacks'[f.on]
                 /\ f.at \in SourcePlaces /\ d # 1 /\ FrameAt(u, d - 1).at = "call_callbacks" =>
                    f.on \in callbacks'[TokenOf[f.on]]
        <3>1. u # Nobody BY NobodyAssumption DEF Runners
        <3>2. IsNested(d, f, FrameAt(u, d - 1)) BY <2>2 DEF NestInv
        <3>3. ASSUME f.at = "call_callbacks"
              PROVE  holder'[f.on] = u /\ f.todo \subseteq callbacks'[f.on]
            BY <2>1, <2>2, <3>1, <3>2, <3>3 DEF LockInv, IsNested, TokenPlaces
        <3>4. ASSUME f.at \in SourcePlaces, d # 1, FrameAt(u, d - 1).at = "call_callbacks"
              PROVE  f.on \in callbacks'[TokenOf[f.on]]
            <4>1. PICK e : e = d - 1
                OBVIOUS
            <4>2. e \in 1..Depth(u)
                BY <3>4, <4>1, HeadIsInnermost
            <4>3. FrameAt(u, e).at = "call_callbacks" /\ FrameAt(u, e).on = TokenOf[f.on]
                  /\ f.on \in Links
                BY <3>2, <3>4, <4>1 DEF IsNested
            <4>4. holder[TokenOf[f.on]] = u
                BY <4>2, <4>3 DEF LockInv
            <4>5. QED
                BY <2>1, <2>2, <3>1, <3>4, <4>3, <4>4, TokenOfAssumption DEF LockInv
        <3>5. QED BY <3>3, <3>4
    <2>3. QED BY <1>1, <2>2, AsideFrames, OnlyOneStay DEF LockInv
<1>2. QED BY <1>1, StepKinds, LockCall, LockEnter

-----------------------------------------------------------------------------
(* Handles, and the sources that are linked or worked on.                    *)

LEMMA FrameType ==
    ASSUME ObjectTypes, NEW t \in Runners, NEW d \in 1..Depth(t)
    PROVE  FrameAt(t, d) \in Frames
<1>1. stack[t] \in Seq(Frames)
    BY DEF ObjectTypes
<1>2. Len(stack[t]) \in Nat /\ d \in 1..Len(stack[t])
    BY <1>1 DEF Depth
<1>3. Len(stack[t]) + 1 - d \in 1..Len(stack[t])
    BY <1>2
<1>4. QED BY <1>1, <1>3 DEF FrameAt

\* A source is changed by the last step of a call that links it.
LEMMA SourceOfCall ==
    ASSUME ObjectTypes, NEW t \in Runners, CallStep(t)
    PROVE  \/ source' = source
           \/ /\ FrameAt(t, Depth(t)).at = "linked"
              /\ source' = [source EXCEPT ![FrameAt(t, Depth(t)).on] = "alive"]
<1> USE HeadOfCall
<1>1. CASE FinishLink(t)
    BY <1>1 DEF FinishLink
<1>2. CASE ~FinishLink(t)
    BY <1>2 DEF CallStep, ExchangeSource, LockSource, CancelNextToken, UnlockSource, EraseExpired,
        ExchangeToken, LockToken, CallUserCallback, CallLinkedSource, ClearCallbacks, RegisterToken,
        Recheck, ReturnToken, CallAtOnce, FindNotCanceled, InsertCallback, sourceVars
<1>3. QED BY <1>1, <1>2

LEMMA AliveKept ==
    ASSUME ObjectTypes, NEW t \in Runners, CallStep(t), NEW s \in Sources,
           source[s] \in {"linking", "alive"}
    PROVE  source'[s] \in {"linking", "alive"}
BY SourceOfCall DEF ObjectTypes

LEMMA HandleCall ==
    ASSUME ObjectTypes, NestInv, SourceInv, RegisterInv, HandleInv, NEW t \in Runners, CallStep(t)
    PROVE  HandleInv'
<1>1. PICK f : f = FrameAt(t, Depth(t))
    OBVIOUS
<1>2. PICK h \in Nat \ {0} : h = Depth(t) /\ h \in 1..Depth(t)
    BY NewFrames
<1>3. /\ f.at \in RegisterPlaces => f.on \in Registrations /\ handle[f.on] = "registering"
      /\ f.on \in Links => source[f.on] \in {"linking", "alive"}
    BY <1>1, <1>2, LinksAssumption DEF NestInv, IsNested, RegisterInv, SourceInv
<1>4. SUFFICES ASSUME NEW k \in Tokens, NEW c \in callbacks'[k]
               PROVE  /\ handle'[c] \in {"held", "leaked"}
                      /\ c \in Links => handle'[c] = "held" /\ source'[c] \in {"linking", "alive"}
    BY DEF HandleInv
<1>5. CASE c \in callbacks[k]
    <2>1. /\ handle[c] \in {"held", "leaked"} /\ c \in Registrations
          /\ c \in Links => handle[c] = "held" /\ source[c] \in {"linking", "alive"}
        BY <1>5 DEF HandleInv, ObjectTypes
    <2>2. handle'[c] = handle[c]
        BY <1>1, <1>3, <2>1, HandleOfCall DEF ObjectTypes, RegisterPlaces
    <2>3. QED BY <2>1, <2>2, AliveKept, LinksAssumption
<1>6. CASE c \notin callbacks[k]
    <2>1. f.at = "insert_callback" /\ c = f.on
        <3>1. callbacks \in [Tokens -> SUBSET Registrations]
            BY DEF ObjectTypes
        <3>2. ~(callbacks' = callbacks) /\ ~(callbacks' = [callbacks EXCEPT ![f.on] = {}])
            BY <1>4, <1>6, <3>1
        <3>3. f.at = "insert_callback"
              /\ callbacks' = [callbacks EXCEPT ![TokenOf[f.on]] = @ \union {f.on}]
            BY <1>1, <3>2, LockOfCall
        <3>4. QED BY <1>4, <1>6, <3>1, <3>3
    <2>2. handle'[c] = "held"
        <3>1. InsertCallback(t)
            <4>1. callbacks' # callbacks BY <1>4, <1>6
            <4>2. QED BY <1>1, <2>1, <4>1, HeadOfCall DEF CallStep, ExchangeSource, LockSource,
                CancelNextToken, UnlockSource, EraseExpired, ExchangeToken, LockToken,
                CallUserCallback, CallLinkedSource, ClearCallbacks, RegisterToken, Recheck,
                ReturnToken, CallAtOnce, FindNotCanceled, FinishLink, tokenVars
        <3>2. handle' = [handle EXCEPT ![c] = "held"]
            BY <1>1, <2>1, <3>1, HeadOfCall DEF InsertCallback
        <3>3. QED BY <1>3, <2>1, <3>2 DEF ObjectTypes, RegisterPlaces
    <2>3. QED BY <1>3, <2>1, <2>2, AliveKept, LinksAssumption
<1>7. QED BY <1>5, <1>6

LEMMA HandleEnter ==
    ASSUME ObjectTypes, WaitingInv, HandleInv, NEW t \in Runners, Enter(t)
    PROVE  HandleInv'
<1>1. callbacks' = callbacks
    BY DEF Enter, Cancel, CreateToken, RegisterCallback, LinkSource, TimeUp, tokenVars
<1>2. CASE \E s \in Links : LinkSource(t, s)
    <2>1. PICK s \in Links : /\ source[s] = "none"
                             /\ source' = [source EXCEPT ![s] = "linking"]
                             /\ handle' = [handle EXCEPT ![s] = "registering"]
        BY <1>2 DEF LinkSource
    <2>2. \A k \in Tokens : s \notin callbacks[k]
        BY <2>1 DEF HandleInv
    <2>3. QED BY <1>1, <2>1, <2>2, LinksAssumption DEF HandleInv, ObjectTypes, Registrations
<1>3. CASE \E c \in Callbacks : RegisterCallback(t, c)
    <2>1. PICK c \in Callbacks : /\ handle[c] = "none" /\ source' = source
                                 /\ handle' = [handle EXCEPT ![c] = "registering"]
        BY <1>3 DEF RegisterCallback, sourceVars
    <2>2. \A k \in Tokens : c \notin callbacks[k]
        BY <2>1 DEF HandleInv
    <2>3. QED BY <1>1, <2>1, <2>2 DEF HandleInv, ObjectTypes, Registrations
<1>4. CASE ~(\E s \in Links : LinkSource(t, s)) /\ ~(\E c \in Callbacks : RegisterCallback(t, c))
    <2>1. handle' = handle /\ source' = source
        BY <1>4 DEF Enter, Cancel, CreateToken, TimeUp, sourceVars
    <2>2. QED BY <1>1, <2>1 DEF HandleInv
<1>5. QED BY <1>2, <1>3, <1>4

LEMMA HandleAside ==
    ASSUME ObjectTypes, HandleInv, Aside
    PROVE  HandleInv'
<1> USE DEF ObjectTypes, Registrations
<1>1. \A c \in Callbacks : c \notin Links
    BY KindsAssumption, LinksAssumption
<1>2. ASSUME NEW t \in Threads, NEW c \in Callbacks,
             UnregisterCallback(t, c) \/ DestroyHandle(t, c)
      PROVE  HandleInv'
    <2>1. /\ callbacks' = [callbacks EXCEPT ![TokenOf[c]] = @ \ {c}] /\ source' = source
          /\ \E x \in {"removed", "gone"} : handle' = [handle EXCEPT ![c] = x]
        BY <1>2 DEF UnregisterCallback, DestroyHandle, sourceVars
    <2>2. ASSUME NEW k \in Tokens, NEW b \in callbacks'[k]
          PROVE  b \in callbacks[k] /\ b # c /\ handle'[b] = handle[b]
        BY <2>1, <2>2, TokenOfAssumption
    <2>3. QED BY <2>1, <2>2 DEF HandleInv
<1>3. ASSUME NEW t \in Threads, NEW c \in Callbacks, ReleaseHandle(t, c)
      PROVE  HandleInv'
    <2>1. callbacks' = callbacks /\ source' = source /\ handle' = [handle EXCEPT ![c] = "leaked"]
        BY <1>3 DEF ReleaseHandle, sourceVars, tokenVars
    <2>2. QED BY <1>1, <2>1 DEF HandleInv
<1>4. ASSUME NEW s \in Sources, DestroySource(s)
      PROVE  HandleInv'
    <2>1. source' = [source EXCEPT ![s] = "gone"]
        BY <1>4 DEF DestroySource
    <2>2. CASE s \in Links /\ handle[s] = "held"
        <3>1. /\ callbacks' = [callbacks EXCEPT ![TokenOf[s]] = @ \ {s}]
              /\ handle' = [handle EXCEPT ![s] = "gone"]
            BY <1>4, <2>2 DEF DestroySource
        <3>2. ASSUME NEW k \in Tokens, NEW b \in callbacks'[k]
              PROVE  b \in callbacks[k] /\ b # s /\ handle'[b] = handle[b]
            BY <2>2, <3>1, <3>2, TokenOfAssumption
        <3>3. QED BY <2>1, <3>2, LinksAssumption DEF HandleInv
    <2>3. CASE ~(s \in Links /\ handle[s] = "held")
        <3>1. callbacks' = callbacks /\ handle' = handle
            BY <1>4, <2>3 DEF DestroySource
        <3>2. QED BY <2>1, <2>3, <3>1, LinksAssumption DEF HandleInv
    <2>4. QED BY <2>2, <2>3
<1>5. CASE UNCHANGED <<handle, callbacks, source>>
    BY <1>5 DEF HandleInv
<1>6. QED BY <1>2, <1>3, <1>4, <1>5 DEF Aside, DropToken, vars, tokenVars, sourceVars

LEMMA HandleStep ==
    ASSUME ObjectTypes, WaitingInv, NestInv, SourceInv, RegisterInv, HandleInv, [Next]_vars
    PROVE  HandleInv'
BY StepKinds, HandleCall, HandleEnter, HandleAside

LEMMA SourceCall ==
    ASSUME ObjectTypes, NestInv, LockInv, HandleInv, SourceInv, NEW t \in Runners, CallStep(t)
    PROVE  SourceInv'
<1>1. PICK f : f = FrameAt(t, Depth(t))
    OBVIOUS
<1>2. PICK h \in Nat \ {0} : h = Depth(t) /\ h \in 1..Depth(t) /\ Moved(t)
    BY NewFrames
<1>3. ASSUME NEW u \in Runners, NEW d \in 1..Depth(u)', NEW g, g = FrameAt(u, d)', g.on \in Sources
      PROVE  source[g.on] \in {"linking", "alive"}
    <2>1. CASE u # t \/ d < Depth(t)
        <3>1. d \in 1..Depth(u) /\ g = FrameAt(u, d) BY <1>2, <1>3, <2>1, OldFrame
        <3>2. QED BY <1>3, <3>1 DEF SourceInv
    <2>2. CASE u = t /\ d = h /\ g.on = f.on
        BY <1>1, <1>2, <1>3, <2>2 DEF SourceInv
    <2>3. CASE u = t /\ Calls(f, g)
        <3>1. IsNested(h, f, FrameAt(t, h - 1)) /\ (f.at = "call_callbacks" => f.todo \subseteq callbacks[f.on])
            BY <1>1, <1>2 DEF NestInv, LockInv
        <3>2. \A x \in Tokens : x \notin Sources BY KindsAssumption
        <3>3. f.at = "call_callbacks" /\ g.on \in callbacks[f.on] /\ g.on \in Links /\ f.on \in Tokens
            BY <1>3, <2>3, <3>1, <3>2 DEF Calls, Frame, IsNested, CreatePlaces, TokenPlaces
        <3>4. QED BY <3>3 DEF HandleInv
    <2>4. QED BY <1>1, <1>2, <1>3, <2>1, <2>2, <2>3, NewFrame DEF Replaces
<1>4. QED BY <1>3, AliveKept DEF SourceInv

LEMMA SourceEnter ==
    ASSUME ObjectTypes, WaitingInv, SourceInv, NEW t \in Runners, Enter(t)
    PROVE  SourceInv'
<1>1. Moved(t) /\ Depth(t) = 0
    BY EnteredFrame
<1>2. \A s \in Sources : source[s] \in {"linking", "alive"} => source'[s] \in {"linking", "alive"}
    <2>1. source' = source \/ \E s \in Links : source[s] = "none" /\ source' = [source EXCEPT ![s] = "linking"]
        BY DEF Enter, Cancel, CreateToken, RegisterCallback, LinkSource, TimeUp, sourceVars
    <2>2. QED BY <2>1, LinksAssumption DEF ObjectTypes
<1>3. ASSUME NEW d \in 1..Depth(t)', NEW g, g = FrameAt(t, d)', g.on \in Sources
      PROVE  source'[g.on] \in {"linking", "alive"}
    <2>1. ASSUME NEW s \in Links, LinkSource(t, s), Linking(t, s)
          PROVE  source'[g.on] \in {"linking", "alive"}
        <3>1. g.on = s
            <4>1. d = 1 \/ d = 2 BY <2>1 DEF Linking
            <4>2. QED BY <1>3, <2>1, <4>1 DEF Linking, Frame
        <3>2. QED BY <2>1, <3>1, LinksAssumption DEF LinkSource, ObjectTypes
    <2>2. ASSUME NEW s \in Sources, source[s] = "alive", Begun(t, Frame("exchange_source", s))
          PROVE  source'[g.on] \in {"linking", "alive"}
        <3>1. g.on = s BY <1>3, <2>2 DEF Begun, Frame
        <3>2. QED BY <1>2, <2>2, <3>1
    <2>3. ASSUME NEW k \in Tokens, Begun(t, Frame("register_token", k))
          PROVE  FALSE
        <3>1. g.on = k BY <1>3, <2>3 DEF Begun, Frame
        <3>2. QED BY <1>3, <3>1, KindsAssumption
    <2>4. ASSUME NEW c \in Callbacks, Begun(t, Frame("check_canceled", c))
          PROVE  FALSE
        <3>1. g.on = c BY <1>3, <2>4 DEF Begun, Frame
        <3>2. QED BY <1>3, <3>1, KindsAssumption
    <2>5. QED BY <2>1, <2>2, <2>3, <2>4, EnteredFrame
<1>4. ASSUME NEW u \in Runners, NEW d \in 1..Depth(u)', FrameAt(u, d)'.on \in Sources
      PROVE  source'[FrameAt(u, d)'.on] \in {"linking", "alive"}
    <2>1. CASE u = t BY <1>3, <1>4, <2>1
    <2>2. CASE u # t
        <3>1. d \in 1..Depth(u) /\ FrameAt(u, d)' = FrameAt(u, d) BY <1>1, <2>2, OldFrame
        <3>2. QED BY <1>2, <1>4, <3>1 DEF SourceInv
    <2>3. QED BY <2>1, <2>2
<1>5. QED BY <1>4 DEF SourceInv

\* Nobody is inside an operation of a source that is destroyed.
LEMMA DestroyedUnused ==
    ASSUME ObjectTypes, NestInv, LockInv, HandleInv, NEW s \in Sources, DestroySource(s),
           NEW u \in Runners, NEW d \in 1..Depth(u)
    PROVE  FrameAt(u, d).on # s
<1>1. SUFFICES ASSUME FrameAt(u, d).on = s PROVE FALSE
    OBVIOUS
<1>2. PICK f : f = FrameAt(u, d)
    OBVIOUS
<1>3. PICK p : p = FrameAt(u, d - 1)
    OBVIOUS
<1>4. IsNested(d, f, p) /\ f.at \in Places
    BY <1>2, <1>3, FrameType DEF NestInv, Frames
<1>5. Depth(u) \in Nat /\ s \notin Tokens
    BY HeadIsInnermost, KindsAssumption
<1>6. FrameAt(u, 1).on # s
    <2>1. Len(stack[u]) + 1 - 1 = Len(stack[u]) /\ Depth(u) # 0 BY <1>5 DEF Depth
    <2>2. ~IsIdle(u) BY <2>1, HeadIsInnermost
    <2>3. QED BY <2>1, <2>2 DEF DestroySource, MayDestroy, IsUsed, FrameAt
<1>7. d # 1 BY <1>1, <1>6
<1>8. d - 1 \in 1..Depth(u) BY <1>5, <1>7
<1>9. \/ p.at = "linked" /\ p.on = s
      \/ p.at = "call_callbacks" /\ p.on = TokenOf[s] /\ s \in Links /\ f.at \in SourcePlaces
    BY <1>1, <1>2, <1>4, <1>5, <1>7 DEF IsNested, Places, SourcePlaces, TokenPlaces, CreatePlaces, RegisterPlaces
<1>10. CASE p.at = "linked" /\ p.on = s
    <2>1. PICK e : e = d - 1
        OBVIOUS
    <2>2. e = 1
        BY <1>3, <1>8, <1>10, <2>1 DEF NestInv, IsNested
    <2>3. QED BY <1>3, <1>6, <1>10, <2>1, <2>2
<1>11. CASE p.at = "call_callbacks" /\ p.on = TokenOf[s] /\ s \in Links /\ f.at \in SourcePlaces
    <2>1. s \in callbacks[TokenOf[s]] /\ TokenOf[s] \in Tokens
        BY <1>1, <1>2, <1>3, <1>7, <1>11, TokenOfAssumption DEF LockInv
    <2>2. handle[s] = "held"
        BY <1>11, <2>1 DEF HandleInv
    <2>3. holder[TokenOf[s]] = Nobody
        BY <1>11, <2>2 DEF DestroySource
    <2>4. holder[TokenOf[s]] = u
        BY <1>3, <1>8, <1>11 DEF LockInv
    <2>5. QED BY <2>3, <2>4, NobodyAssumption DEF Runners
<1>12. QED BY <1>9, <1>10, <1>11

LEMMA SourceStep ==
    ASSUME ObjectTypes, WaitingInv, NestInv, LockInv, HandleInv, SourceInv, [Next]_vars
    PROVE  SourceInv'
<1>1. ASSUME Aside PROVE SourceInv'
    <2>1. CASE source' = source
        BY <1>1, <2>1, AsideFrames DEF SourceInv
    <2>2. ASSUME NEW s \in Sources, DestroySource(s) PROVE SourceInv'
        <3>1. source' = [source EXCEPT ![s] = "gone"] BY <2>2 DEF DestroySource
        <3>2. ASSUME NEW u \in Runners, NEW d \in 1..Depth(u), FrameAt(u, d).on \in Sources
              PROVE  source'[FrameAt(u, d).on] \in {"linking", "alive"}
            <4>1. FrameAt(u, d).on # s BY <2>2, DestroyedUnused
            <4>2. QED BY <3>1, <3>2, <4>1 DEF SourceInv, ObjectTypes
        <3>3. QED BY <1>1, <3>2, AsideFrames DEF SourceInv
    <2>3. QED
        BY <1>1, <2>1, <2>2 DEF Aside, UnregisterCallback, ReleaseHandle, DestroyHandle, DropToken,
                                vars, sourceVars
<1>2. QED BY <1>1, StepKinds, SourceCall, SourceEnter

-----------------------------------------------------------------------------
(* Timed sources, and how often callbacks are called.                        *)

LEMMA WaitingStep ==
    ASSUME ObjectTypes, WaitingInv, [Next]_vars
    PROVE  WaitingInv'
<1>1. \A s \in waiting : s \in Runners /\ s \in Sources
    BY TimedAssumption DEF ObjectTypes, Runners
<1>2. ASSUME NEW t \in Runners, CallStep(t) PROVE WaitingInv'
    <2>1. waiting' = waiting
        BY <1>2 DEF CallStep, ExchangeSource, LockSource, CancelNextToken, UnlockSource, EraseExpired,
            ExchangeToken, LockToken, CallUserCallback, CallLinkedSource, ClearCallbacks, RegisterToken,
            Recheck, ReturnToken, CallAtOnce, FindNotCanceled, InsertCallback, FinishLink, sourceVars
    <2>2. ~IsIdle(t) /\ \A u \in Runners \ {t} : stack'[u] = stack[u]
        BY <1>2, ShapeOfCall DEF Moved
    <2>3. \A s \in waiting : s # t
        BY <2>2 DEF WaitingInv, IsIdle
    <2>4. \A s \in Sources : source[s] = "alive" => source'[s] = "alive"
        BY <1>2, SourceOfCall DEF ObjectTypes
    <2>5. QED BY <1>1, <2>1, <2>2, <2>3, <2>4 DEF WaitingInv
<1>3. ASSUME NEW t \in Runners, Enter(t) PROVE WaitingInv'
    <2>1. Moved(t) BY <1>3, EnteredFrame
    <2>2. \A s \in waiting' : s \in waiting /\ s # t
        <3>1. CASE t \in Threads /\ waiting' = waiting
            BY <3>1, TimedAssumption DEF ObjectTypes
        <3>2. CASE waiting' = waiting \ {t}
            BY <3>2
        <3>3. QED
            BY <1>3, <3>1, <3>2
            DEF Enter, Cancel, CreateToken, RegisterCallback, LinkSource, TimeUp, sourceVars
    <2>3. source' = source \/ \E s \in Links : source[s] = "none" /\ source' = [source EXCEPT ![s] = "linking"]
        BY <1>3 DEF Enter, Cancel, CreateToken, RegisterCallback, LinkSource, TimeUp, sourceVars
    <2>4. \A s \in Sources : source[s] = "alive" => source'[s] = "alive"
        BY <2>3 DEF ObjectTypes
    <2>5. QED BY <1>1, <2>1, <2>2, <2>4 DEF WaitingInv, Moved
<1>4. ASSUME Aside PROVE WaitingInv'
    <2>1. waiting' = waiting
        BY <1>4 DEF Aside, UnregisterCallback, ReleaseHandle, DestroyHandle, DropToken, DestroySource,
                    vars, sourceVars
    <2>2. stack' = stack BY <1>4, AsideFrames
    <2>3. source' = source \/ \E s \in Sources \ waiting : source' = [source EXCEPT ![s] = "gone"]
        BY <1>4 DEF Aside, UnregisterCallback, ReleaseHandle, DestroyHandle, DropToken, DestroySource,
                    MayDestroy, vars, sourceVars
    <2>4. QED BY <1>1, <2>1, <2>2, <2>3 DEF WaitingInv, ObjectTypes
<1>5. QED BY <1>2, <1>3, <1>4, StepKinds

\* The steps of a call that call a callback of a user.
LEMMA CallsOfCall ==
    ASSUME ObjectTypes, NEW t \in Runners, CallStep(t), NEW f, f = FrameAt(t, Depth(t))
    PROVE  \/ /\ f.at = "call_callbacks"
              /\ \E c \in f.todo \intersect Callbacks :
                    /\ calls' = [calls EXCEPT ![c] = @ + 1]
                    /\ Continued(t, "call_callbacks", f.todo \ {c})
              /\ UNCHANGED <<callbacks, holder, handle>>
           \/ /\ f.at = "check_canceled" /\ f.on \in Callbacks
              /\ calls' = [calls EXCEPT ![f.on] = @ + 1]
              /\ handle' = [handle EXCEPT ![f.on] = "null"]
              /\ Returned(t) /\ UNCHANGED <<callbacks, holder>>
           \/ calls' = calls
<1> USE HeadOfCall
<1>1. CASE CallUserCallback(t)
    <2>1. PICK c \in f.todo \intersect Callbacks :
            /\ calls' = [calls EXCEPT ![c] = @ + 1]
            /\ Continue(t, "call_callbacks", f.todo \ {c})
        BY <1>1 DEF CallUserCallback
    <2>2. f.at = "call_callbacks" /\ UNCHANGED <<callbacks, holder, handle>>
        BY <1>1 DEF CallUserCallback, tokenVars
    <2>3. QED BY <2>1, <2>2, ContinueFrames
<1>2. CASE CallAtOnce(t)
    <2>1. PICK p : p = FrameAt(t, Depth(t) - 1)
        OBVIOUS
    <2>2. ASSUME f.on \notin Links, f.on \notin Callbacks, f.at = "check_canceled" PROVE calls' = calls
        <3>1. calls' = [calls EXCEPT ![f.on] = @ + 1]
            BY <1>2, <2>2 DEF CallAtOnce
        <3>2. QED BY <2>2, <3>1 DEF ObjectTypes
    <2>3. CASE f.on \in Links BY <1>2, <2>3 DEF CallAtOnce
    <2>4. CASE f.on \in Callbacks /\ f.on \notin Links
        BY <1>2, <2>4, ReturnFrames DEF CallAtOnce, tokenVars
    <2>5. f.at = "check_canceled" BY <1>2 DEF CallAtOnce
    <2>6. QED BY <2>2, <2>3, <2>4, <2>5
<1>3. CASE ~CallUserCallback(t) /\ ~CallAtOnce(t)
    BY <1>3 DEF CallStep, ExchangeSource, LockSource, CancelNextToken, UnlockSource, EraseExpired,
        ExchangeToken, LockToken, CallLinkedSource, ClearCallbacks, RegisterToken, Recheck, ReturnToken,
        FindNotCanceled, InsertCallback, FinishLink
<1>4. QED BY <1>1, <1>2, <1>3

LEMMA CallsCall ==
    ASSUME ObjectTypes, NestInv, RegisterInv, LockInv, HandleInv, CallsInv, NEW t \in Runners, CallStep(t)
    PROVE  CallsInv'
<1>1. PICK f : f = FrameAt(t, Depth(t))
    OBVIOUS
<1>2. PICK h \in Nat \ {0} : /\ h = Depth(t) /\ h \in 1..Depth(t) /\ Moved(t)
    BY NewFrames
<1>3. /\ IsNested(h, f, FrameAt(t, h - 1))
      /\ f.at = "call_callbacks" => /\ holder[f.on] = t /\ f.todo \subseteq callbacks[f.on]
                                    /\ \A c \in f.todo \intersect Callbacks : calls[c] = 0
      /\ f.at \in RegisterPlaces => handle[f.on] = "registering"
    BY <1>1, <1>2 DEF NestInv, LockInv, CallsInv, RegisterInv
<1>4. /\ \A c \in Callbacks : calls[c] \in {0, 1} /\ (handle[c] \in {"none", "registering"} => calls[c] = 0)
      /\ \A k \in Tokens : \A c \in callbacks[k] \intersect Callbacks : holder[k] = Nobody => calls[c] = 0
    BY DEF CallsInv
\* The callbacks that are called were not called before.
<1>5. ASSUME NEW c \in Callbacks, calls'[c] # calls[c]
      PROVE  /\ calls[c] = 0 /\ calls'[c] = 1
             /\ \/ /\ f.at = "call_callbacks" /\ c \in callbacks[f.on] /\ c \in f.todo
                   /\ Continued(t, "call_callbacks", f.todo \ {c})
                   /\ UNCHANGED <<callbacks, holder, handle>>
                \/ /\ handle[c] = "registering" /\ handle'[c] = "null"
                   /\ Returned(t) /\ UNCHANGED <<callbacks, holder>>
    <2>1. CASE /\ f.at = "call_callbacks"
               /\ \E b \in f.todo \intersect Callbacks :
                    /\ calls' = [calls EXCEPT ![b] = @ + 1]
                    /\ Continued(t, "call_callbacks", f.todo \ {b})
               /\ UNCHANGED <<callbacks, holder, handle>>
        <3>1. PICK b \in f.todo \intersect Callbacks :
                    /\ calls' = [calls EXCEPT ![b] = @ + 1]
                    /\ Continued(t, "call_callbacks", f.todo \ {b})
            BY <2>1
        <3>2. b = c BY <1>5, <3>1 DEF ObjectTypes
        <3>3. calls[c] = 0 BY <1>3, <2>1, <3>1, <3>2
        <3>4. calls'[c] = 1 BY <3>1, <3>2, <3>3 DEF ObjectTypes
        <3>5. QED BY <1>3, <2>1, <3>1, <3>2, <3>3, <3>4
    <2>2. CASE /\ f.at = "check_canceled" /\ f.on \in Callbacks
               /\ calls' = [calls EXCEPT ![f.on] = @ + 1]
               /\ handle' = [handle EXCEPT ![f.on] = "null"]
               /\ Returned(t) /\ UNCHANGED <<callbacks, holder>>
        <3>1. c = f.on BY <1>5, <2>2 DEF ObjectTypes
        <3>2. handle[c] = "registering" BY <1>3, <2>2, <3>1 DEF RegisterPlaces
        <3>3. calls[c] = 0 BY <1>4, <3>2
        <3>4. calls'[c] = 1 BY <2>2, <3>1, <3>3 DEF ObjectTypes
        <3>5. handle'[c] = "null" BY <2>2, <3>1 DEF ObjectTypes, Registrations
        <3>6. QED BY <2>2, <3>2, <3>3, <3>4, <3>5
    <2>3. QED BY <1>1, <1>5, <2>1, <2>2, CallsOfCall
<1>6. ASSUME NEW c \in Callbacks
      PROVE  calls'[c] \in {0, 1} /\ (handle'[c] \in {"none", "registering"} => calls'[c] = 0)
    <2>1. CASE calls'[c] # calls[c]
        <3>1. handle'[c] \notin {"none", "registering"}
            <4>1. CASE c \in callbacks[f.on] /\ f.at = "call_callbacks" /\ UNCHANGED handle
                BY <1>3, <4>1 DEF HandleInv, IsNested, TokenPlaces
            <4>2. QED BY <1>5, <2>1, <4>1
        <3>2. QED BY <1>5, <2>1, <3>1
    <2>2. CASE calls'[c] = calls[c]
        <3>1. handle'[c] \in {"none", "registering"} => handle[c] \in {"none", "registering"}
            BY <1>1, HandleOfCall DEF ObjectTypes, Registrations
        <3>2. QED BY <1>4, <2>2, <3>1
    <2>3. QED BY <2>1, <2>2
<1>7. ASSUME NEW k \in Tokens, NEW c \in callbacks'[k] \intersect Callbacks, holder'[k] = Nobody
      PROVE  calls'[c] = 0
    <2>1. CASE c \in callbacks[k] /\ holder[k] = Nobody
        <3>1. calls[c] = 0 BY <1>4, <1>7, <2>1
        <3>2. ASSUME calls'[c] # calls[c] PROVE FALSE
            <4>1. handle[c] \in {"held", "leaked"} /\ TokenOf[c] = k
                BY <2>1 DEF HandleInv, ObjectTypes
            <4>2. f.at = "call_callbacks" /\ c \in callbacks[f.on] BY <1>5, <1>7, <3>2, <4>1
            <4>3. f.on = k BY <1>3, <4>1, <4>2 DEF IsNested, TokenPlaces, ObjectTypes
            <4>4. QED BY <1>3, <2>1, <4>2, <4>3, NobodyAssumption DEF Runners
        <3>3. QED BY <3>1, <3>2
    <2>2. CASE ~(c \in callbacks[k] /\ holder[k] = Nobody)
        <3>1. callbacks \in [Tokens -> SUBSET Registrations] /\ holder \in [Tokens -> Runners \union {Nobody}]
            BY DEF ObjectTypes
        <3>2. ~(callbacks' = callbacks /\ holder' = holder)
            BY <1>7, <2>2
        <3>3. calls'[c] = calls[c]
            <4>1. SUFFICES ASSUME calls'[c] # calls[c] PROVE FALSE
                OBVIOUS
            <4>2. UNCHANGED <<callbacks, holder>> BY <1>5, <1>7, <4>1
            <4>3. QED BY <3>2, <4>2
        <3>4. CASE f.at = "lock_token" /\ callbacks' = callbacks /\ holder' = [holder EXCEPT ![f.on] = t]
            BY <1>7, <2>2, <3>1, <3>4, NobodyAssumption DEF Runners
        <3>5. CASE f.at = "call_callbacks" /\ callbacks' = [callbacks EXCEPT ![f.on] = {}]
                   /\ holder' = [holder EXCEPT ![f.on] = Nobody]
            BY <1>7, <2>2, <3>1, <3>5
        <3>6. CASE f.at = "insert_callback" /\ holder' = holder
                   /\ callbacks' = [callbacks EXCEPT ![TokenOf[f.on]] = @ \union {f.on}]
            <4>1. c = f.on BY <1>7, <2>2, <3>1, <3>6
            <4>2. QED BY <1>3, <1>4, <1>7, <3>3, <3>6, <4>1 DEF RegisterPlaces
        <3>7. QED BY <1>1, <3>2, <3>4, <3>5, <3>6, LockOfCall
    <2>3. QED BY <2>1, <2>2
<1>8. ASSUME NEW u \in Runners, NEW d \in 1..Depth(u)', NEW g, g = FrameAt(u, d)',
             g.at = "call_callbacks", NEW c \in g.todo \intersect Callbacks
      PROVE  calls'[c] = 0
    <2>1. CASE u # t \/ d < Depth(t)
        <3>1. d \in 1..Depth(u) /\ g = FrameAt(u, d) /\ ~(u = t /\ d = h)
            BY <1>2, <1>8, <2>1, OldFrame
        <3>2. calls[c] = 0 /\ c \in callbacks[g.on] /\ g.on \in Tokens
            BY <1>8, <3>1 DEF CallsInv, LockInv, NestInv, IsNested, TokenPlaces
        <3>3. ASSUME calls'[c] # calls[c] PROVE FALSE
            <4>1. handle[c] \in {"held", "leaked"} /\ TokenOf[c] = g.on
                BY <3>2 DEF HandleInv, ObjectTypes
            <4>2. f.at = "call_callbacks" /\ c \in callbacks[f.on] BY <1>5, <1>8, <3>3, <4>1
            <4>3. f.on = g.on BY <1>3, <4>1, <4>2 DEF IsNested, TokenPlaces, ObjectTypes
            <4>4. QED BY <1>1, <1>2, <1>8, <3>1, <4>2, <4>3 DEF LockInv, OnlyOneAt, IsAt
        <3>4. QED BY <3>2, <3>3
    <2>2. CASE u = t /\ ~(d < Depth(t))
        <3>1. d = h /\ Replaces(g, f) /\ f.at \in {"lock_token", "call_callbacks"}
            BY <1>1, <1>2, <1>8, <2>2, NewFrame DEF Replaces, Calls, Successors, Frame
        <3>2. ~Returned(t) BY <1>2, <1>8, <2>2, <3>1 DEF Returned
        <3>3. CASE f.at = "lock_token"
            <4>1. c \in callbacks[f.on] /\ f.on \in Tokens
                BY <1>3, <1>8, <3>1, <3>3 DEF Replaces, Successors, IsNested, TokenPlaces
            <4>2. holder[f.on] = Nobody BY <1>1, <3>3, LockOfCall
            <4>3. calls[c] = 0 BY <1>4, <1>8, <4>1, <4>2
            <4>4. calls'[c] = calls[c] BY <1>5, <1>8, <3>2, <3>3
            <4>5. QED BY <4>3, <4>4
        <3>4. CASE f.at = "call_callbacks"
            <4>1. c \in f.todo BY <1>8, <3>1, <3>4 DEF Replaces, Successors
            <4>2. calls[c] = 0 BY <1>3, <1>8, <3>4, <4>1
            <4>3. ASSUME calls'[c] # calls[c] PROVE FALSE
                <5>1. Continued(t, "call_callbacks", f.todo \ {c}) BY <1>5, <1>8, <3>2, <4>3
                <5>2. Depth(t)' = h /\ g = [at |-> "call_callbacks", on |-> On(t), todo |-> f.todo \ {c}]
                    BY <1>2, <1>8, <2>2, <3>1, <5>1 DEF Continued
                <5>3. QED BY <1>8, <5>2
            <4>4. QED BY <4>2, <4>3
        <3>5. QED BY <3>1, <3>3, <3>4
    <2>3. QED BY <2>1, <2>2
<1>9. QED BY <1>6, <1>7, <1>8 DEF CallsInv

LEMMA CallsStep ==
    ASSUME ObjectTypes, WaitingInv, NestInv, RegisterInv, LockInv, HandleInv, CallsInv, [Next]_vars
    PROVE  CallsInv'
<1>1. ASSUME NEW t \in Runners, Enter(t) PROVE CallsInv'
    <2>1. UNCHANGED <<calls, callbacks, holder>>
        BY <1>1 DEF Enter, Cancel, CreateToken, RegisterCallback, LinkSource, TimeUp, tokenVars
    <2>2. \A c \in Callbacks : handle'[c] \in {"none", "registering"} => handle[c] \in {"none", "registering"}
        <3>1. CASE \E c \in Callbacks : RegisterCallback(t, c)
            BY <3>1 DEF RegisterCallback, ObjectTypes, Registrations
        <3>2. CASE \E s \in Links : LinkSource(t, s)
            BY <3>2, KindsAssumption, LinksAssumption DEF LinkSource, ObjectTypes, Registrations
        <3>3. CASE handle' = handle
            BY <3>3
        <3>4. QED BY <1>1, <3>1, <3>2, <3>3 DEF Enter, Cancel, CreateToken, TimeUp
    <2>3. ASSUME NEW u \in Runners, NEW d \in 1..Depth(u)', FrameAt(u, d)'.at = "call_callbacks"
          PROVE  d \in 1..Depth(u) /\ FrameAt(u, d)' = FrameAt(u, d)
        <3>1. CASE u # t BY <1>1, <2>3, <3>1, EnteredFrame, OldFrame
        <3>2. CASE u = t
            BY <1>1, <2>3, <3>2, EnteredFrame DEF Begun, Linking, Frame
        <3>3. QED BY <3>1, <3>2
    <2>4. QED BY <2>1, <2>2, <2>3 DEF CallsInv
<1>2. ASSUME Aside PROVE CallsInv'
    <2>1. calls' = calls
        BY <1>2 DEF Aside, UnregisterCallback, ReleaseHandle, DestroyHandle, DropToken, DestroySource, vars
    <2>2. \A c \in Callbacks : handle'[c] \in {"none", "registering"} => handle[c] \in {"none", "registering"}
        <3>1. handle' = handle \/ \E c \in Registrations, x \in {"removed", "leaked", "gone"} :
                    handle' = [handle EXCEPT ![c] = x]
            BY <1>2 DEF Aside, UnregisterCallback, ReleaseHandle, DestroyHandle, DropToken, DestroySource,
                vars, Registrations
        <3>2. QED BY <3>1 DEF ObjectTypes, Registrations
    <2>3. holder' = holder /\ \A k \in Tokens : callbacks'[k] \subseteq callbacks[k]
        <3>1. callbacks \in [Tokens -> SUBSET Registrations]
            BY DEF ObjectTypes
        <3>2. ASSUME NEW c \in Registrations, callbacks' = [callbacks EXCEPT ![TokenOf[c]] = @ \ {c}],
                     NEW k \in Tokens
              PROVE  callbacks'[k] \subseteq callbacks[k]
            BY <3>1, <3>2
        <3>3. QED BY <1>2, <3>2, CallbacksAside
    <2>4. QED BY <1>2, <2>1, <2>2, <2>3, AsideFrames DEF CallsInv
<1>3. QED BY <1>1, <1>2, StepKinds, CallsCall

-----------------------------------------------------------------------------
(* Tokens of cancelled sources.                                              *)

\* All frames but the innermost stay when a call goes on.
LEMMA KeptFrame ==
    ASSUME ObjectTypes, NEW t \in Runners, CallStep(t), NEW u \in Runners, NEW d \in 1..Depth(u),
           u # t \/ d # Depth(t)
    PROVE  d \in 1..Depth(u)' /\ FrameAt(u, d)' = FrameAt(u, d)
<1>1. PICK h \in Nat \ {0} : /\ h = Depth(t) /\ Moved(t) /\ Depth(t)' \in {h - 1, h, h + 1}
    BY NewFrames
<1>2. CASE u # t
    BY <1>1, <1>2 DEF Moved, Depth, FrameAt
<1>3. CASE u = t
    <2>1. d \in 1..(Depth(t) - 1) /\ d <= Depth(t)' /\ d \in 1..Depth(t)'
        BY <1>1, <1>3
    <2>2. QED BY <1>1, <1>3, <2>1 DEF Moved
<1>4. QED BY <1>2, <1>3

\* What a call does to signals, to tokens and to the lists of sources, and how
\* it goes on where this is decided by them.
ReachEffect(t, f) ==
    /\ \/ token' = token
       \/ f.at = "created" /\ token' = [token EXCEPT ![f.on] = "owned"]
    /\ \/ sourceSignal' = sourceSignal
       \/ /\ f.at = "exchange_source" /\ sourceSignal' = [sourceSignal EXCEPT ![f.on] = TRUE]
          /\ sourceSignal[f.on] \/ Continued(t, "lock_source", {})
    /\ \/ signal' = signal /\ f.at # "exchange_token"
       \/ f.at = "exchange_token" /\ signal' = [signal EXCEPT ![f.on] = TRUE]
    /\ \/ tokens' = tokens /\ f.at # "register_token"
       \/ /\ f.at = "register_token" /\ Continued(t, "recheck", {})
          /\ tokens' = [tokens EXCEPT ![SourceOf[f.on]] = @ \union {f.on}]
       \/ /\ f.at = "erase_expired"
          /\ tokens' = [tokens EXCEPT ![f.on] = {k \in @ : token[k] # "dropped"}]
    /\ f.at = "lock_source" => Continued(t, "cancel_tokens", tokens[f.on])
    /\ f.at = "cancel_tokens" =>
        \/ f.todo = {}
        \/ \E k \in f.todo : token[k] = "dropped" /\ Continued(t, "cancel_tokens", f.todo \ {k})
        \/ \E k \in f.todo : Called(t, "cancel_tokens", f.todo \ {k}, Frame("exchange_token", k))
    /\ f.at = "recheck" /\ sourceSignal[SourceOf[f.on]] =>
        Called(t, "created", {}, Frame("exchange_token", f.on))

LEMMA ReachOfCall ==
    ASSUME ObjectTypes, NEW t \in Runners, CallStep(t), NEW f, f = FrameAt(t, Depth(t))
    PROVE  ReachEffect(t, f)
<1> USE HeadOfCall
<1>1. CASE ExchangeSource(t)
    BY <1>1, ContinueFrames DEF ExchangeSource, tokenVars, ReachEffect
<1>2. CASE LockSource(t)
    BY <1>2, ContinueFrames DEF LockSource, tokenVars, ReachEffect
<1>3. CASE CancelNextToken(t)
    <2>1. \/ \E k \in f.todo : token[k] = "dropped" /\ Continue(t, "cancel_tokens", f.todo \ {k})
          \/ \E k \in f.todo : CallFrom(t, "cancel_tokens", f.todo \ {k}, Frame("exchange_token", k))
        BY <1>3 DEF CancelNextToken
    <2>2. \/ \E k \in f.todo : token[k] = "dropped" /\ Continued(t, "cancel_tokens", f.todo \ {k})
          \/ \E k \in f.todo : Called(t, "cancel_tokens", f.todo \ {k}, Frame("exchange_token", k))
        BY <2>1, ContinueFrames, CallFrames
    <2>3. QED BY <1>3, <2>2 DEF CancelNextToken, sourceVars, tokenVars, ReachEffect
<1>4. CASE UnlockSource(t)
    BY <1>4 DEF UnlockSource, tokenVars, ReachEffect
<1>5. CASE EraseExpired(t)
    BY <1>5 DEF EraseExpired, tokenVars, ReachEffect
<1>6. CASE ExchangeToken(t)
    BY <1>6 DEF ExchangeToken, sourceVars, ReachEffect
<1>7. CASE RegisterToken(t)
    BY <1>7, ContinueFrames DEF RegisterToken, tokenVars, ReachEffect
<1>8. CASE Recheck(t)
    <2>1. sourceSignal[SourceOf[f.on]] => Called(t, "created", {}, Frame("exchange_token", f.on))
        BY <1>8, CallFrames DEF Recheck
    <2>2. QED BY <1>8, <2>1 DEF Recheck, sourceVars, tokenVars, ReachEffect
<1>9. CASE ReturnToken(t)
    BY <1>9 DEF ReturnToken, sourceVars, ReachEffect
<1>10. CASE LockToken(t) \/ ClearCallbacks(t) \/ CallUserCallback(t) \/ CallLinkedSource(t)
    BY <1>10 DEF LockToken, ClearCallbacks, CallUserCallback, CallLinkedSource, sourceVars, tokenVars,
                 ReachEffect
<1>11. CASE CallAtOnce(t) \/ FindNotCanceled(t) \/ InsertCallback(t) \/ FinishLink(t)
    BY <1>11 DEF CallAtOnce, FindNotCanceled, InsertCallback, FinishLink, sourceVars, tokenVars,
                 ReachEffect
<1>12. QED
    BY <1>1, <1>2, <1>3, <1>4, <1>5, <1>6, <1>7, <1>8, <1>9, <1>10, <1>11 DEF CallStep

\* The two parts of ReachInv for one token.
Listed(k) == k \in tokens[SourceOf[k]] \/ SomeDepth({"register_token"}, k)
Reached(k) ==
    sourceSignal[SourceOf[k]] /\ ~signal[k] =>
        \/ SomeDepth({"lock_source"}, SourceOf[k])
        \/ \E t \in Runners : \E d \in 1..Depth(t) :
            IsAt(t, d, {"cancel_tokens"}, SourceOf[k]) /\ k \in FrameAt(t, d).todo
        \/ SomeDepth({"exchange_token", "register_token", "recheck"}, k)

LEMMA ReachCall ==
    ASSUME ObjectTypes, NestInv, CreateInv, ReachInv, NEW t \in Runners, CallStep(t)
    PROVE  ReachInv'
<1>1. PICK f : f = FrameAt(t, Depth(t))
    OBVIOUS
<1>2. PICK h \in Nat \ {0} : h = Depth(t) /\ h \in 1..Depth(t)
    BY NewFrames
<1>3. ReachEffect(t, f) /\ IsNested(h, f, FrameAt(t, h - 1))
    BY <1>1, <1>2, ReachOfCall DEF NestInv
<1>4. On(t) = f.on
    BY <1>1, HeadOfCall
<1>5. /\ f.at \in {"exchange_source", "lock_source", "cancel_tokens", "erase_expired"} => f.on \in Sources
      /\ f.at \in {"exchange_token", "register_token", "recheck", "created"} => f.on \in Tokens
      /\ f.at = "created" => token[f.on] = "creating"
    BY <1>1, <1>2, <1>3 DEF IsNested, SourcePlaces, TokenPlaces, CreatePlaces, CreateInv
<1>6. ASSUME NEW place, NEW todo, Continued(t, place, todo)
      PROVE  h \in 1..Depth(t)' /\ FrameAt(t, h)' = [at |-> place, on |-> f.on, todo |-> todo]
    BY <1>2, <1>4, <1>6 DEF Continued
<1>7. ASSUME NEW place, NEW todo, NEW callee, Called(t, place, todo, callee)
      PROVE  h + 1 \in 1..Depth(t)' /\ FrameAt(t, h + 1)' = callee
             /\ h \in 1..Depth(t)' /\ FrameAt(t, h)' = [at |-> place, on |-> f.on, todo |-> todo]
    <2>1. Depth(t)' = h + 1 /\ Depth(t)' - 1 = h BY <1>2, <1>7 DEF Called
    <2>2. QED BY <1>2, <1>4, <1>7, <2>1 DEF Called
<1>8. SUFFICES ASSUME NEW k \in Tokens, token'[k] \in {"creating", "owned"}
               PROVE  Listed(k)' /\ Reached(k)'
    BY DEF ReachInv, Listed, Reached
<1>9. token[k] \in {"creating", "owned"}
    BY <1>3, <1>5, <1>8 DEF ReachEffect, ObjectTypes
<1>10. PICK s \in Sources : s = SourceOf[k]
    BY SourceOfAssumption
<1>11. Listed(k) /\ Reached(k)
    BY <1>9 DEF ReachInv, Listed, Reached
<1>12. k \in tokens[s] => k \in tokens'[s]
    <2>1. tokens \in [Sources -> SUBSET Tokens] BY DEF ObjectTypes
    <2>2. CASE tokens' = tokens BY <2>2
    <2>3. CASE tokens' = [tokens EXCEPT ![SourceOf[f.on]] = @ \union {f.on}]
        BY <2>1, <2>3
    <2>4. CASE tokens' = [tokens EXCEPT ![f.on] = {x \in @ : token[x] # "dropped"}]
        BY <1>9, <2>1, <2>4
    <2>5. QED BY <1>3, <2>2, <2>3, <2>4 DEF ReachEffect
<1>13. ASSUME NEW places, NEW object, SomeDepth(places, object), ~(f.at \in places /\ f.on = object)
       PROVE  SomeDepth(places, object)'
    <2>1. PICK u \in Runners : \E d \in 1..Depth(u) : IsAt(u, d, places, object)
        BY <1>13 DEF SomeDepth
    <2>2. PICK d \in 1..Depth(u) : IsAt(u, d, places, object)
        BY <2>1
    <2>3. u # t \/ d # Depth(t)
        BY <1>1, <1>13, <2>2 DEF IsAt
    <2>4. d \in 1..Depth(u)' /\ FrameAt(u, d)' = FrameAt(u, d)
        BY <2>3, KeptFrame
    <2>5. QED BY <2>2, <2>4 DEF SomeDepth, IsAt
<1>14. CASE f.at = "register_token" /\ f.on = k
    <2>1. /\ Continued(t, "recheck", {})
          /\ tokens' = [tokens EXCEPT ![s] = @ \union {k}]
        BY <1>3, <1>10, <1>14 DEF ReachEffect
    <2>2. k \in tokens'[s]
        BY <2>1 DEF ObjectTypes
    <2>3. SomeDepth({"exchange_token", "register_token", "recheck"}, k)'
        BY <1>6, <1>14, <2>1 DEF SomeDepth, IsAt
    <2>4. QED BY <1>10, <2>2, <2>3 DEF Listed, Reached
<1>15. CASE ~(f.at = "register_token" /\ f.on = k)
    <2>1. Listed(k)'
        BY <1>10, <1>11, <1>12, <1>13, <1>15 DEF Listed
    <2>2. SUFFICES ASSUME sourceSignal'[s], ~signal'[k]
                   PROVE  \/ SomeDepth({"lock_source"}, s)'
                          \/ \E u \in Runners : \E d \in 1..Depth(u)' :
                              IsAt(u, d, {"cancel_tokens"}, s)' /\ k \in FrameAt(u, d)'.todo
                          \/ SomeDepth({"exchange_token", "register_token", "recheck"}, k)'
        BY <1>10, <2>1, <2>2 DEF Reached
    <2>3. ~signal[k] /\ ~(f.at = "exchange_token" /\ f.on = k)
        <3>1. signal \in [Tokens -> BOOLEAN] BY DEF ObjectTypes
        <3>2. CASE signal' = [signal EXCEPT ![f.on] = TRUE]
            <4>1. f.on # k BY <2>2, <3>1, <3>2
            <4>2. signal'[k] = signal[k] BY <3>1, <3>2, <4>1
            <4>3. QED BY <2>2, <4>1, <4>2
        <3>3. QED BY <1>3, <2>2, <3>2 DEF ReachEffect
    <2>4. CASE ~sourceSignal[s]
        <3>1. f.on = s /\ Continued(t, "lock_source", {})
            BY <1>3, <2>2, <2>4 DEF ReachEffect, ObjectTypes
        <3>2. SomeDepth({"lock_source"}, s)'
            BY <1>6, <3>1 DEF SomeDepth, IsAt
        <3>3. QED BY <3>2
    <2>5. CASE SomeDepth({"lock_source"}, s)
        <3>1. CASE ~(f.at = "lock_source" /\ f.on = s) BY <1>13, <2>5, <3>1
        <3>2. CASE f.at = "lock_source" /\ f.on = s
            <4>1. Continued(t, "cancel_tokens", tokens[s]) BY <1>3, <3>2 DEF ReachEffect
            <4>2. CASE k \in tokens[s]
                <5>1. IsAt(t, h, {"cancel_tokens"}, s)' /\ k \in FrameAt(t, h)'.todo
                    BY <1>6, <3>2, <4>1, <4>2 DEF IsAt
                <5>2. QED BY <1>6, <4>1, <5>1
            <4>3. CASE SomeDepth({"register_token"}, k)
                <5>1. SomeDepth({"register_token"}, k)' BY <1>13, <3>2, <4>3
                <5>2. QED BY <5>1 DEF SomeDepth, IsAt
            <4>4. QED BY <1>10, <1>11, <4>2, <4>3 DEF Listed
        <3>3. QED BY <3>1, <3>2
    <2>6. ASSUME NEW u \in Runners, NEW d \in 1..Depth(u), IsAt(u, d, {"cancel_tokens"}, s),
                 k \in FrameAt(u, d).todo
          PROVE  \/ \E v \in Runners : \E c \in 1..Depth(v)' :
                     IsAt(v, c, {"cancel_tokens"}, s)' /\ k \in FrameAt(v, c)'.todo
                 \/ SomeDepth({"exchange_token", "register_token", "recheck"}, k)'
        <3>1. CASE u # t \/ d # Depth(t)
            <4>1. d \in 1..Depth(u)' /\ FrameAt(u, d)' = FrameAt(u, d) BY <3>1, KeptFrame
            <4>2. IsAt(u, d, {"cancel_tokens"}, s)' /\ k \in FrameAt(u, d)'.todo
                BY <2>6, <4>1 DEF IsAt
            <4>3. QED BY <4>1, <4>2
        <3>2. CASE u = t /\ d = Depth(t)
            <4>1. f.at = "cancel_tokens" /\ f.on = s /\ k \in f.todo BY <1>1, <2>6, <3>2 DEF IsAt
            <4>2. ASSUME NEW x \in f.todo, token[x] = "dropped", Continued(t, "cancel_tokens", f.todo \ {x})
                  PROVE  IsAt(t, h, {"cancel_tokens"}, s)' /\ k \in FrameAt(t, h)'.todo /\ h \in 1..Depth(t)'
                BY <1>6, <1>9, <4>1, <4>2 DEF IsAt
            <4>3. ASSUME NEW x \in f.todo, Called(t, "cancel_tokens", f.todo \ {x}, Frame("exchange_token", x)),
                         x # k
                  PROVE  IsAt(t, h, {"cancel_tokens"}, s)' /\ k \in FrameAt(t, h)'.todo /\ h \in 1..Depth(t)'
                BY <1>7, <4>1, <4>3 DEF IsAt
            <4>4. ASSUME Called(t, "cancel_tokens", f.todo \ {k}, Frame("exchange_token", k))
                  PROVE  SomeDepth({"exchange_token", "register_token", "recheck"}, k)'
                BY <1>7, <4>4 DEF SomeDepth, IsAt, Frame
            <4>5. QED BY <1>3, <4>1, <4>2, <4>3, <4>4 DEF ReachEffect
        <3>3. QED BY <3>1, <3>2
    <2>7. CASE SomeDepth({"exchange_token", "register_token", "recheck"}, k) /\ sourceSignal[s]
        <3>1. CASE ~(f.at \in {"exchange_token", "register_token", "recheck"} /\ f.on = k)
            BY <1>13, <2>7, <3>1
        <3>2. CASE f.at = "recheck" /\ f.on = k
            <4>1. Called(t, "created", {}, Frame("exchange_token", k))
                BY <1>3, <1>10, <2>7, <3>2 DEF ReachEffect
            <4>2. SomeDepth({"exchange_token", "register_token", "recheck"}, k)'
                BY <1>7, <4>1 DEF SomeDepth, IsAt, Frame
            <4>3. QED BY <4>2
        <3>3. QED BY <1>15, <2>3, <3>1, <3>2
    <2>8. QED BY <1>10, <1>11, <2>3, <2>4, <2>5, <2>6, <2>7 DEF Reached
<1>16. QED BY <1>14, <1>15

LEMMA ReachEnter ==
    ASSUME ObjectTypes, WaitingInv, ReachInv, NEW t \in Runners, Enter(t)
    PROVE  ReachInv'
<1>1. Moved(t) /\ Depth(t) = 0
    BY EnteredFrame
<1>2. ASSUME NEW u \in Runners, NEW d \in 1..Depth(u)
      PROVE  d \in 1..Depth(u)' /\ FrameAt(u, d)' = FrameAt(u, d)
    <2>1. u # t BY <1>1, <1>2
    <2>2. QED BY <1>1, <1>2, <2>1 DEF Moved, Depth, FrameAt
<1>3. ASSUME NEW places, NEW object, SomeDepth(places, object)
      PROVE  SomeDepth(places, object)'
    BY <1>2, <1>3 DEF SomeDepth, IsAt
<1>4. tokens' = tokens
    BY DEF Enter, Cancel, CreateToken, RegisterCallback, LinkSource, TimeUp, sourceVars
<1>5. SUFFICES ASSUME NEW k \in Tokens, token'[k] \in {"creating", "owned"}
               PROVE  Listed(k)' /\ Reached(k)'
    BY DEF ReachInv, Listed, Reached
<1>6. ASSUME token[k] \in {"creating", "owned"}, signal'[k] = signal[k],
             sourceSignal'[SourceOf[k]] = sourceSignal[SourceOf[k]]
      PROVE  Listed(k)' /\ Reached(k)'
    <2>1. Listed(k) /\ Reached(k) BY <1>6 DEF ReachInv, Listed, Reached
    <2>2. Listed(k)' BY <1>3, <1>4, <2>1 DEF Listed
    <2>3. ASSUME NEW u \in Runners, NEW d \in 1..Depth(u),
                 IsAt(u, d, {"cancel_tokens"}, SourceOf[k]), k \in FrameAt(u, d).todo
          PROVE  \E v \in Runners : \E c \in 1..Depth(v)' :
                    IsAt(v, c, {"cancel_tokens"}, SourceOf[k])' /\ k \in FrameAt(v, c)'.todo
        BY <1>2, <2>3 DEF IsAt
    <2>4. Reached(k)' BY <1>3, <1>6, <2>1, <2>3 DEF Reached
    <2>5. QED BY <2>2, <2>4
<1>7. ASSUME NEW x \in Tokens, CreateToken(t, x), Begun(t, Frame("register_token", x))
      PROVE  Listed(k)' /\ Reached(k)'
    <2>1. CASE k = x
        <3>1. 1 \in 1..Depth(t)' /\ FrameAt(t, 1)'.at = "register_token" /\ FrameAt(t, 1)'.on = k
            BY <1>7, <2>1 DEF Begun, Frame
        <3>2. SomeDepth({"register_token"}, k)' /\ SomeDepth({"exchange_token", "register_token", "recheck"}, k)'
            BY <3>1 DEF SomeDepth, IsAt
        <3>3. QED BY <3>2 DEF Listed, Reached
    <2>2. CASE k # x
        <3>1. token'[k] = token[k] /\ signal'[k] = signal[k] /\ sourceSignal' = sourceSignal
            BY <1>7, <2>2 DEF CreateToken, ObjectTypes, sourceVars
        <3>2. QED BY <1>5, <1>6, <3>1
    <2>3. QED BY <2>1, <2>2
<1>8. ASSUME NEW s \in Links, LinkSource(t, s)
      PROVE  Listed(k)' /\ Reached(k)'
    <2>1. /\ source[s] = "none" /\ token' = token /\ signal' = signal
          /\ sourceSignal' = [sourceSignal EXCEPT ![s] = signal[TokenOf[s]]]
        BY <1>8 DEF LinkSource, tokenVars
    <2>2. SourceOf[k] # s
        BY <1>5, <2>1 DEF ObjectTypes
    <2>3. sourceSignal'[SourceOf[k]] = sourceSignal[SourceOf[k]]
        BY <2>1, <2>2, SourceOfAssumption DEF ObjectTypes
    <2>4. QED BY <1>5, <1>6, <2>1, <2>3
<1>9. ASSUME UNCHANGED <<token, signal, sourceSignal>>
      PROVE  Listed(k)' /\ Reached(k)'
    BY <1>5, <1>6, <1>9
<1>10. QED
    BY <1>7, <1>8, <1>9, EntryFrames
    DEF Enter, Cancel, RegisterCallback, TimeUp, sourceVars, tokenVars

LEMMA ReachStep ==
    ASSUME ObjectTypes, WaitingInv, NestInv, CreateInv, ReachInv, [Next]_vars
    PROVE  ReachInv'
<1>1. ASSUME Aside PROVE ReachInv'
    <2>1. /\ UNCHANGED <<sourceSignal, tokens, signal>>
          /\ token' = token \/ \E k \in Tokens : token' = [token EXCEPT ![k] = "dropped"]
        BY <1>1 DEF Aside, UnregisterCallback, ReleaseHandle, DestroyHandle, DropToken, DestroySource,
                    vars, sourceVars, tokenVars
    <2>2. \A k \in Tokens : token'[k] \in {"creating", "owned"} => token[k] \in {"creating", "owned"}
        BY <2>1 DEF ObjectTypes
    <2>3. \A places, object : SomeDepth(places, object)' <=> SomeDepth(places, object)
        BY <1>1, AsideFrames DEF SomeDepth, IsAt
    <2>4. \A s : \A k : (\E t \in Runners : \E d \in 1..Depth(t) :
                            IsAt(t, d, {"cancel_tokens"}, s) /\ k \in FrameAt(t, d).todo)
                        => (\E t \in Runners : \E d \in 1..Depth(t)' :
                                IsAt(t, d, {"cancel_tokens"}, s)' /\ k \in FrameAt(t, d)'.todo)
        BY <1>1, AsideFrames DEF IsAt
    <2>5. QED BY <2>1, <2>2, <2>3, <2>4 DEF ReachInv
<1>2. QED BY <1>1, StepKinds, ReachCall, ReachEnter

-----------------------------------------------------------------------------
(* Types.                                                                    *)

LEMMA StackCall ==
    ASSUME ObjectTypes, NestInv, NEW t \in Runners, CallStep(t)
    PROVE  stack' \in [Runners -> Seq(Frames)]
<1>1. PICK f : f = FrameAt(t, Depth(t))
    OBVIOUS
<1>2. PICK h \in Nat \ {0} : h = Depth(t) /\ h \in 1..Depth(t) /\ ~IsIdle(t)
    BY NewFrames
<1>3. /\ f \in Frames /\ IsNested(h, f, FrameAt(t, h - 1))
      /\ On(t) = f.on /\ Todo(t) = f.todo /\ \A place : At(t, place) <=> f.at = place
    BY <1>1, <1>2, FrameType, HeadOfCall DEF NestInv
<1>4. /\ stack \in [Runners -> Seq(Frames)] /\ stack[t] # <<>>
      /\ stack[t] \in Seq(Frames) /\ Tail(stack[t]) \in Seq(Frames)
    BY <1>2 DEF ObjectTypes, IsIdle
<1>5. ASSUME Return(t) PROVE stack' \in [Runners -> Seq(Frames)]
    BY <1>4, <1>5 DEF Return
<1>6. ASSUME NEW place \in Places, NEW todo \in SUBSET (Tokens \union Registrations),
             Continue(t, place, todo)
      PROVE  stack' \in [Runners -> Seq(Frames)]
    <2>1. [at |-> place, on |-> f.on, todo |-> todo] \in Frames
        BY <1>3 DEF Frames
    <2>2. <<[at |-> place, on |-> f.on, todo |-> todo]>> \o Tail(stack[t]) \in Seq(Frames)
        BY <1>4, <2>1
    <2>3. QED BY <1>3, <1>4, <1>6, <2>2 DEF Continue
<1>7. ASSUME NEW place \in Places, NEW todo \in SUBSET (Tokens \union Registrations),
             NEW callee \in Frames, CallFrom(t, place, todo, callee)
      PROVE  stack' \in [Runners -> Seq(Frames)]
    <2>1. [at |-> place, on |-> f.on, todo |-> todo] \in Frames
        BY <1>3 DEF Frames
    <2>2. <<callee, [at |-> place, on |-> f.on, todo |-> todo]>> \o Tail(stack[t]) \in Seq(Frames)
        BY <1>4, <2>1
    <2>3. QED BY <1>3, <1>4, <1>7, <2>2 DEF CallFrom
<1>8. /\ {} \in SUBSET (Tokens \union Registrations)
      /\ \A x : f.todo \ {x} \in SUBSET (Tokens \union Registrations)
      /\ f.at = "lock_source" => tokens[f.on] \in SUBSET (Tokens \union Registrations)
      /\ f.at = "lock_token" => callbacks[f.on] \in SUBSET (Tokens \union Registrations)
    BY <1>3 DEF Frames, ObjectTypes, IsNested, SourcePlaces, TokenPlaces
<1>9. CASE LockSource(t) \/ LockToken(t)
    BY <1>3, <1>6, <1>8, <1>9 DEF LockSource, LockToken, Places
<1>10. CASE CancelNextToken(t)
    <2>1. PICK k \in f.todo :
            \/ Continue(t, "cancel_tokens", f.todo \ {k})
            \/ CallFrom(t, "cancel_tokens", f.todo \ {k}, Frame("exchange_token", k))
        BY <1>3, <1>10 DEF CancelNextToken
    <2>2. Frame("exchange_token", k) \in Frames
        BY <1>3, <2>1 DEF Frames, Frame, Places
    <2>3. QED BY <1>6, <1>7, <1>8, <2>1, <2>2 DEF Places
<1>11. CASE CallUserCallback(t) \/ CallLinkedSource(t)
    <2>1. PICK c \in f.todo :
            \/ Continue(t, "call_callbacks", f.todo \ {c})
            \/ c \in Links /\ CallFrom(t, "call_callbacks", f.todo \ {c}, Frame("exchange_source", c))
        BY <1>3, <1>11 DEF CallUserCallback, CallLinkedSource
    <2>2. c \in Links => Frame("exchange_source", c) \in Frames
        BY LinksAssumption DEF Frames, Frame, Places
    <2>3. QED BY <1>6, <1>7, <1>8, <2>1, <2>2 DEF Places
<1>12. CASE Recheck(t)
    <2>1. Frame("exchange_token", f.on) \in Frames
        BY <1>3 DEF Frames, Frame, Places
    <2>2. QED BY <1>3, <1>6, <1>7, <1>8, <1>12, <2>1 DEF Recheck, Places
<1>13. CASE \/ ExchangeSource(t) \/ UnlockSource(t) \/ EraseExpired(t) \/ ExchangeToken(t)
            \/ ClearCallbacks(t) \/ RegisterToken(t) \/ ReturnToken(t) \/ CallAtOnce(t)
            \/ FindNotCanceled(t) \/ InsertCallback(t) \/ FinishLink(t)
    <2>1. Return(t) \/ \E place \in Places : Continue(t, place, {})
        BY <1>13 DEF ExchangeSource, UnlockSource, EraseExpired, ExchangeToken, ClearCallbacks,
            RegisterToken, ReturnToken, CallAtOnce, FindNotCanceled, InsertCallback, FinishLink, Places
    <2>2. QED BY <1>5, <1>6, <1>8, <2>1
<1>14. QED BY <1>9, <1>10, <1>11, <1>12, <1>13 DEF CallStep

LEMMA TypesCall ==
    ASSUME ObjectTypes, NestInv, CreateInv, NEW t \in Runners, CallStep(t)
    PROVE  ObjectTypes'
<1>1. PICK f : f = FrameAt(t, Depth(t))
    OBVIOUS
<1>2. PICK h \in Nat \ {0} : h = Depth(t) /\ h \in 1..Depth(t)
    BY NewFrames
<1>3. /\ f \in Frames /\ IsNested(h, f, FrameAt(t, h - 1))
      /\ On(t) = f.on /\ Todo(t) = f.todo /\ \A place : At(t, place) <=> f.at = place
    BY <1>1, <1>2, FrameType, HeadOfCall DEF NestInv
<1>4. ReachEffect(t, f) BY <1>1, ReachOfCall
<1>5. /\ f.at \in SourcePlaces => f.on \in Sources
      /\ f.at \in TokenPlaces \union CreatePlaces => f.on \in Tokens
      /\ f.at \in RegisterPlaces => f.on \in Registrations /\ TokenOf[f.on] \in Tokens
      /\ f.at = "linked" => f.on \in Sources
    BY <1>3, TokenOfAssumption, LinksAssumption DEF IsNested, Registrations
<1>6. source' \in [Sources -> {"none", "linking", "alive", "gone"}]
    BY SourceOfCall DEF ObjectTypes
<1>7. waiting' = waiting
    BY DEF CallStep, ExchangeSource, LockSource, CancelNextToken, UnlockSource, EraseExpired,
        ExchangeToken, LockToken, CallUserCallback, CallLinkedSource, ClearCallbacks, RegisterToken,
        Recheck, ReturnToken, CallAtOnce, FindNotCanceled, InsertCallback, FinishLink, sourceVars
<1>8. sourceSignal' \in [Sources -> BOOLEAN]
    BY <1>4 DEF ReachEffect, ObjectTypes
<1>9. /\ tokens' \in [Sources -> SUBSET Tokens]
      /\ \A s \in Sources : \A k \in tokens'[s] : SourceOf[k] = s
    <2>1. /\ tokens \in [Sources -> SUBSET Tokens]
          /\ \A s \in Sources : \A k \in tokens[s] : SourceOf[k] = s
        BY DEF ObjectTypes
    <2>2. CASE tokens' = tokens BY <2>1, <2>2
    <2>3. CASE f.at = "register_token" /\ tokens' = [tokens EXCEPT ![SourceOf[f.on]] = @ \union {f.on}]
        BY <1>5, <2>1, <2>3, SourceOfAssumption DEF CreatePlaces
    <2>4. CASE f.at = "erase_expired"
               /\ tokens' = [tokens EXCEPT ![f.on] = {k \in @ : token[k] # "dropped"}]
        BY <1>5, <2>1, <2>4 DEF SourcePlaces
    <2>5. QED BY <1>4, <2>2, <2>3, <2>4 DEF ReachEffect
<1>10. readers' \in [Sources -> SUBSET Runners]
    <2>1. readers' = readers \/ \E s \in Sources : \/ readers' = [readers EXCEPT ![s] = @ \union {t}]
                                                   \/ readers' = [readers EXCEPT ![s] = @ \ {t}]
        BY <1>3, <1>5 DEF CallStep, ExchangeSource, LockSource, CancelNextToken, UnlockSource, EraseExpired,
            ExchangeToken, LockToken, CallUserCallback, CallLinkedSource, ClearCallbacks, RegisterToken,
            Recheck, ReturnToken, CallAtOnce, FindNotCanceled, InsertCallback, FinishLink, sourceVars,
            SourcePlaces
    <2>2. QED BY <2>1 DEF ObjectTypes
<1>11. token' \in [Tokens -> {"none", "creating", "owned", "dropped"}]
    BY <1>4 DEF ReachEffect, ObjectTypes
<1>12. signal' \in [Tokens -> BOOLEAN]
    BY <1>4 DEF ReachEffect, ObjectTypes
<1>13. /\ callbacks' \in [Tokens -> SUBSET Registrations]
       /\ \A k \in Tokens : \A c \in callbacks'[k] : TokenOf[c] = k
    <2>1. /\ callbacks \in [Tokens -> SUBSET Registrations]
          /\ \A k \in Tokens : \A c \in callbacks[k] : TokenOf[c] = k
        BY DEF ObjectTypes
    <2>2. CASE callbacks' = callbacks BY <2>1, <2>2
    <2>3. CASE f.at = "insert_callback" /\ callbacks' = [callbacks EXCEPT ![TokenOf[f.on]] = @ \union {f.on}]
        BY <1>5, <2>1, <2>3 DEF RegisterPlaces
    <2>4. CASE callbacks' = [callbacks EXCEPT ![f.on] = {}]
        BY <2>1, <2>4
    <2>5. QED BY <1>1, <2>2, <2>3, <2>4, LockOfCall
<1>14. holder' \in [Tokens -> Runners \union {Nobody}]
    <2>1. holder' = holder \/ \E x \in Runners \union {Nobody} : holder' = [holder EXCEPT ![f.on] = x]
        BY <1>1, LockOfCall
    <2>2. QED BY <2>1 DEF ObjectTypes
<1>15. handle' \in [Registrations ->
                    {"none", "registering", "null", "held", "removed", "leaked", "gone"}]
    BY HandleOfCall DEF ObjectTypes
<1>16. calls' \in [Callbacks -> Nat]
    <2>1. calls' = calls \/ \E c \in Callbacks : calls' = [calls EXCEPT ![c] = @ + 1]
        BY <1>1, CallsOfCall
    <2>2. QED BY <2>1 DEF ObjectTypes
<1>17. \A k \in Tokens : source'[SourceOf[k]] \in {"none", "linking"} => token'[k] = "none"
    <2>1. ASSUME NEW k \in Tokens, source'[SourceOf[k]] \in {"none", "linking"}
          PROVE  token'[k] = "none"
        <3>1. source[SourceOf[k]] \in {"none", "linking"}
            BY <2>1, SourceOfCall, SourceOfAssumption DEF ObjectTypes
        <3>2. token[k] = "none" BY <3>1 DEF ObjectTypes
        <3>3. CASE token' = token BY <3>2, <3>3
        <3>4. CASE f.at = "created" /\ token' = [token EXCEPT ![f.on] = "owned"]
            <4>1. token[f.on] = "creating" BY <1>1, <1>2, <3>4 DEF CreateInv, CreatePlaces
            <4>2. QED BY <3>2, <3>4, <4>1 DEF ObjectTypes
        <3>5. QED BY <1>4, <3>3, <3>4 DEF ReachEffect
    <2>2. QED BY <2>1
<1>18. QED
    BY <1>6, <1>7, <1>8, <1>9, <1>10, <1>11, <1>12, <1>13, <1>14, <1>15, <1>16, <1>17, StackCall
    DEF ObjectTypes

LEMMA TypesEnter ==
    ASSUME ObjectTypes, WaitingInv, NEW t \in Runners, Enter(t)
    PROVE  ObjectTypes'
<1>1. ASSUME NEW place \in Places, NEW object \in Sources \union Tokens \union Registrations
      PROVE  Frame(place, object) \in Frames
    BY DEF Frame, Frames
<1>2. stack \in [Runners -> Seq(Frames)]
    BY DEF ObjectTypes
<1>3. ASSUME NEW f \in Frames, Begin(t, <<f>>)
      PROVE  stack' \in [Runners -> Seq(Frames)]
    <2>1. <<f>> \in Seq(Frames) OBVIOUS
    <2>2. QED BY <1>2, <1>3, <2>1 DEF Begin
<1>4. ASSUME NEW s \in Sources, Begin(t, <<Frame("exchange_source", s)>>),
             waiting' \subseteq waiting,
             UNCHANGED <<source, sourceSignal, tokens, readers, tokenVars, handle, calls>>
      PROVE  ObjectTypes'
    <2>1. stack' \in [Runners -> Seq(Frames)]
        BY <1>1, <1>3, <1>4 DEF Places
    <2>2. QED BY <1>4, <2>1 DEF ObjectTypes, tokenVars
<1>5. ASSUME NEW s \in Sources, Cancel(t, s)
      PROVE  ObjectTypes'
    BY <1>4, <1>5 DEF Cancel, sourceVars
<1>6. ASSUME t \in Timed, TimeUp(t)
      PROVE  ObjectTypes'
    BY <1>4, <1>6, TimedAssumption DEF TimeUp
<1>7. ASSUME NEW k \in Tokens, CreateToken(t, k)
      PROVE  ObjectTypes'
    <2>1. /\ UNCHANGED <<sourceVars, callbacks, holder, handle, calls>>
          /\ source[SourceOf[k]] = "alive" /\ SourceOf[k] \in Sources
          /\ token' = [token EXCEPT ![k] = "creating"]
          /\ signal' = [signal EXCEPT ![k] = sourceSignal[SourceOf[k]]]
        BY <1>7, SourceOfAssumption DEF CreateToken
    <2>2. stack' \in [Runners -> Seq(Frames)]
        <3>1. Frame("register_token", k) \in Frames BY <1>1 DEF Places
        <3>2. QED BY <1>3, <1>7, <3>1 DEF CreateToken
    <2>3. /\ token' \in [Tokens -> {"none", "creating", "owned", "dropped"}]
          /\ signal' \in [Tokens -> BOOLEAN]
        BY <2>1 DEF ObjectTypes
    <2>4. \A x \in Tokens : source'[SourceOf[x]] \in {"none", "linking"} => token'[x] = "none"
        BY <2>1 DEF ObjectTypes, sourceVars
    <2>5. QED BY <2>1, <2>2, <2>3, <2>4 DEF ObjectTypes, sourceVars
<1>8. ASSUME NEW c \in Callbacks, RegisterCallback(t, c)
      PROVE  ObjectTypes'
    <2>1. /\ UNCHANGED <<sourceVars, tokenVars, calls>>
          /\ handle' = [handle EXCEPT ![c] = "registering"]
        BY <1>8 DEF RegisterCallback
    <2>2. stack' \in [Runners -> Seq(Frames)]
        <3>1. Frame("check_canceled", c) \in Frames BY <1>1 DEF Places, Registrations
        <3>2. QED BY <1>3, <1>8, <3>1 DEF RegisterCallback
    <2>3. QED BY <2>1, <2>2 DEF ObjectTypes, sourceVars, tokenVars
<1>9. ASSUME NEW s \in Links, LinkSource(t, s)
      PROVE  ObjectTypes'
    <2>1. /\ UNCHANGED <<waiting, tokens, readers, tokenVars, calls>>
          /\ s \in Sources /\ source[s] = "none" /\ source' = [source EXCEPT ![s] = "linking"]
          /\ sourceSignal' = [sourceSignal EXCEPT ![s] = signal[TokenOf[s]]]
          /\ TokenOf[s] \in Tokens
          /\ handle' = [handle EXCEPT ![s] = "registering"]
        BY <1>9, LinksAssumption, TokenOfAssumption DEF LinkSource
    <2>2. stack' \in [Runners -> Seq(Frames)]
        <3>1. Frame("check_canceled", s) \in Frames /\ Frame("linked", s) \in Frames
            BY <1>1, LinksAssumption DEF Places
        <3>2. <<Frame("check_canceled", s), Frame("linked", s)>> \in Seq(Frames)
            BY <3>1
        <3>3. QED BY <1>2, <1>9, <3>2 DEF LinkSource, Begin
    <2>3. /\ source' \in [Sources -> {"none", "linking", "alive", "gone"}]
          /\ sourceSignal' \in [Sources -> BOOLEAN]
        BY <2>1 DEF ObjectTypes
    <2>4. \A x \in Tokens : source'[SourceOf[x]] \in {"none", "linking"} => token'[x] = "none"
        BY <2>1, SourceOfAssumption DEF ObjectTypes, tokenVars
    <2>5. QED BY <2>1, <2>2, <2>3, <2>4 DEF ObjectTypes, tokenVars
<1>10. QED BY <1>5, <1>6, <1>7, <1>8, <1>9 DEF Enter

LEMMA TypesAside ==
    ASSUME ObjectTypes, Aside
    PROVE  ObjectTypes'
<1>1. /\ UNCHANGED <<waiting, sourceSignal, tokens, readers, signal, calls, stack>>
      /\ source' = source \/ \E s \in Sources : source' = [source EXCEPT ![s] = "gone"]
      /\ token' = token \/ \E k \in Tokens : token[k] = "owned" /\ token' = [token EXCEPT ![k] = "dropped"]
      /\ handle' = handle \/ \E c \in Registrations, x \in {"removed", "leaked", "gone"} :
                handle' = [handle EXCEPT ![c] = x]
    BY DEF Aside, UnregisterCallback, ReleaseHandle, DestroyHandle, DropToken, DestroySource,
           vars, sourceVars, tokenVars, Registrations
<1>2. source' \in [Sources -> {"none", "linking", "alive", "gone"}]
    BY <1>1 DEF ObjectTypes
<1>3. token' \in [Tokens -> {"none", "creating", "owned", "dropped"}]
    BY <1>1 DEF ObjectTypes
<1>4. handle' \in [Registrations ->
                    {"none", "registering", "null", "held", "removed", "leaked", "gone"}]
    BY <1>1 DEF ObjectTypes
<1>5. \A k \in Tokens : source'[SourceOf[k]] \in {"none", "linking"} => token'[k] = "none"
    BY <1>1, SourceOfAssumption DEF ObjectTypes
<1>6. /\ callbacks' \in [Tokens -> SUBSET Registrations] /\ holder' = holder
      /\ \A k \in Tokens : \A c \in callbacks'[k] : TokenOf[c] = k
    <2>1. /\ callbacks \in [Tokens -> SUBSET Registrations]
          /\ \A k \in Tokens : \A c \in callbacks[k] : TokenOf[c] = k
        BY DEF ObjectTypes
    <2>2. ASSUME NEW c \in Registrations, callbacks' = [callbacks EXCEPT ![TokenOf[c]] = @ \ {c}]
          PROVE  /\ callbacks' \in [Tokens -> SUBSET Registrations]
                 /\ \A k \in Tokens : \A b \in callbacks'[k] : TokenOf[b] = k
        BY <2>1, <2>2
    <2>3. QED BY <2>1, <2>2, CallbacksAside
<1>7. QED BY <1>1, <1>2, <1>3, <1>4, <1>5, <1>6 DEF ObjectTypes

LEMMA TypesStep ==
    ASSUME ObjectTypes, WaitingInv, NestInv, CreateInv, [Next]_vars
    PROVE  ObjectTypes'
BY StepKinds, TypesCall, TypesEnter, TypesAside

-----------------------------------------------------------------------------
(* The invariant, and what follows from it.                                  *)

IInv == /\ ObjectTypes /\ NestInv /\ WaitingInv /\ CreateInv /\ RegisterInv
        /\ LockInv /\ HandleInv /\ SourceInv /\ CallsInv /\ ReachInv

LEMMA InitIInv == Init => IInv
<1> SUFFICES ASSUME Init PROVE IInv
    OBVIOUS
<1>1. \A t \in Runners : stack[t] = <<>> /\ Depth(t) = 0 /\ 1..Depth(t) = {}
    BY DEF Init, Depth
<1>2. \A k \in Tokens : callbacks[k] = {} /\ token[k] = "none" /\ SourceOf[k] \in Sources
    BY SourceOfAssumption DEF Init
<1>3. ObjectTypes
    <2>1. stack \in [Runners -> Seq(Frames)] BY DEF Init
    <2>2. /\ source \in [Sources -> {"none", "linking", "alive", "gone"}]
          /\ waiting \subseteq Timed /\ sourceSignal \in [Sources -> BOOLEAN]
        BY DEF Init
    <2>3. QED BY <1>2, <2>1, <2>2 DEF Init, ObjectTypes
<1>4. NestInv /\ CreateInv /\ RegisterInv /\ LockInv /\ SourceInv
    BY <1>1 DEF NestInv, CreateInv, RegisterInv, LockInv, SourceInv, OnlyOneAt
<1>5. WaitingInv
    BY <1>1, TimedAssumption DEF Init, WaitingInv, Runners
<1>6. HandleInv /\ ReachInv
    BY <1>2 DEF HandleInv, ReachInv
<1>7. CallsInv
    BY <1>1, <1>2 DEF Init, CallsInv
<1>8. QED BY <1>3, <1>4, <1>5, <1>6, <1>7 DEF IInv

LEMMA StepIInv == IInv /\ [Next]_vars => IInv'
BY TypesStep, NestStep, WaitingStep, CreateStep, RegisterStep, LockStep, HandleStep, SourceStep,
   CallsStep, ReachStep DEF IInv

\* All parts hold in every reachable state: frames are nested as the calls of
\* the code, locks are held by the thread that calls the callbacks, and what is
\* registered has a handle and is alive.
THEOREM Invariance == Spec => []IInv
BY InitIInv, StepIInv, PTL DEF Spec

\* Every variable has its type, and no callback is called twice, although the
\* thread that registers it, a source and create_token may call it.
THEOREM TypesCorrect == Spec => []TypeOK
<1>1. IInv => TypeOK
    <2>1. ASSUME ObjectTypes, CallsInv PROVE calls \in [Callbacks -> {0, 1}]
        BY <2>1 DEF ObjectTypes, CallsInv
    <2>2. QED BY <2>1 DEF IInv, ObjectTypes, TypeOK, Frames
<1>2. QED BY <1>1, Invariance, PTL

\* A source is alive while a call works on it: the linked source that a token
\* cancels is not destroyed, because its callback_token waits for the lock.
THEOREM LinkedSourcesAlive == Spec => []LinkedSourceAlive
<1>1. ASSUME IInv PROVE LinkedSourceAlive
    <2>1. SUFFICES ASSUME NEW t \in Runners, NEW i \in DOMAIN stack[t], stack[t][i].on \in Sources
                   PROVE  source[stack[t][i].on] \in {"linking", "alive"}
        BY DEF LinkedSourceAlive
    <2>2. stack[t] \in Seq(Frames)
        BY <1>1 DEF IInv, ObjectTypes
    <2>3. PICK n \in Nat : n = Len(stack[t]) /\ i \in 1..n
        BY <2>2
    <2>4. PICK d \in 1..n : n + 1 - d = i
        <3>1. n + 1 - i \in 1..n /\ n + 1 - (n + 1 - i) = i BY <2>3
        <3>2. QED BY <3>1
    <2>5. d \in 1..Depth(t) /\ FrameAt(t, d) = stack[t][i]
        BY <2>3, <2>4 DEF Depth, FrameAt
    <2>6. QED BY <1>1, <2>1, <2>5 DEF IInv, SourceInv
<1>2. QED BY <1>1, Invariance, PTL

\* A callback whose callback_token has unregistered it is not called again.
THEOREM UnregisteredNotCalled == Spec => NoCallAfterUnregister
<1>1. ASSUME IInv, [Next]_vars, NEW c \in Callbacks, handle[c] \in {"removed", "gone"}
      PROVE  calls'[c] = calls[c]
    <2>1. \A k \in Tokens : c \notin callbacks[k]
        BY <1>1 DEF IInv, HandleInv
    <2>2. ASSUME NEW t \in Runners, CallStep(t) PROVE calls'[c] = calls[c]
        <3>1. PICK f : f = FrameAt(t, Depth(t))
            OBVIOUS
        <3>2. PICK h \in Nat \ {0} : h = Depth(t) /\ h \in 1..Depth(t)
            BY <1>1, <2>2, NewFrames DEF IInv
        <3>3. /\ f.at = "call_callbacks" => f.todo \subseteq callbacks[f.on] /\ f.on \in Tokens
              /\ f.at = "check_canceled" => handle[f.on] = "registering"
            BY <1>1, <3>1, <3>2 DEF IInv, LockInv, NestInv, IsNested, TokenPlaces, RegisterInv,
                                    RegisterPlaces
        <3>4. ASSUME NEW b \in Callbacks, b # c, calls' = [calls EXCEPT ![b] = @ + 1]
              PROVE  calls'[c] = calls[c]
            BY <1>1, <3>4 DEF IInv, ObjectTypes
        <3>5. \/ f.at = "call_callbacks" /\ \E b \in f.todo \intersect Callbacks :
                                                calls' = [calls EXCEPT ![b] = @ + 1]
              \/ /\ f.at = "check_canceled" /\ f.on \in Callbacks
                 /\ calls' = [calls EXCEPT ![f.on] = @ + 1]
              \/ calls' = calls
            BY <1>1, <2>2, <3>1, CallsOfCall DEF IInv
        <3>6. CASE f.at = "call_callbacks"
            BY <2>1, <3>3, <3>4, <3>5, <3>6
        <3>7. CASE f.at = "check_canceled"
            BY <1>1, <3>3, <3>4, <3>5, <3>7
        <3>8. QED BY <3>5, <3>6, <3>7
    <2>3. ASSUME NEW t \in Runners, Enter(t) PROVE calls' = calls
        BY <2>3 DEF Enter, Cancel, CreateToken, RegisterCallback, LinkSource, TimeUp
    <2>4. ASSUME Aside PROVE calls' = calls
        BY <2>4 DEF Aside, UnregisterCallback, ReleaseHandle, DestroyHandle, DropToken, DestroySource, vars
    <2>5. QED BY <1>1, <2>2, <2>3, <2>4, StepKinds
<1>2. IInv /\ [Next]_vars =>
        [\A c \in Callbacks : handle[c] \in {"removed", "gone"} => calls'[c] = calls[c]]_vars
    BY <1>1
<1>3. QED BY <1>2, Invariance, PTL DEF NoCallAfterUnregister, Spec

\* A cancelled source has cancelled its tokens, those that were created
\* meanwhile too, unless the thread that cancels it is on its way to them.
THEOREM CancelReachesEveryToken == Spec => []CancelReachesTokens
<1>1. ASSUME IInv PROVE CancelReachesTokens
    <2>1. SUFFICES ASSUME NEW k \in Tokens, token[k] = "owned", sourceSignal[SourceOf[k]], ~signal[k]
                   PROVE  SomeoneIsAt({"lock_source", "cancel_tokens"}, SourceOf[k])
        BY DEF CancelReachesTokens
    <2>2. ASSUME NEW t \in Runners, NEW d \in 1..Depth(t),
                 IsAt(t, d, {"lock_source", "cancel_tokens"}, SourceOf[k])
          PROVE  SomeoneIsAt({"lock_source", "cancel_tokens"}, SourceOf[k])
        <3>1. stack[t] \in Seq(Frames)
            BY <1>1 DEF IInv, ObjectTypes
        <3>2. Len(stack[t]) + 1 - d \in DOMAIN stack[t]
            BY <2>2, <3>1 DEF Depth
        <3>3. QED BY <2>2, <3>2 DEF IsAt, FrameAt, SomeoneIsAt
    <2>3. ASSUME NEW t \in Runners, NEW d \in 1..Depth(t)
          PROVE  ~IsAt(t, d, {"register_token", "recheck"}, k)
        BY <1>1, <2>1, <2>3 DEF IInv, CreateInv, IsAt, CreatePlaces
    <2>4. ASSUME NEW t \in Runners, NEW d \in 1..Depth(t), IsAt(t, d, {"exchange_token"}, k)
          PROVE  SomeoneIsAt({"lock_source", "cancel_tokens"}, SourceOf[k])
        <3>1. PICK p : p = FrameAt(t, d - 1)
            OBVIOUS
        <3>2. d # 1 /\ (\/ p.at = "cancel_tokens" /\ p.on = SourceOf[k]
                        \/ p.at = "created" /\ p.on = k)
            BY <1>1, <2>4, <3>1 DEF IInv, NestInv, IsNested, IsAt, TokenPlaces
        <3>3. PICK e \in 1..Depth(t) : e = d - 1
            BY <1>1, <3>2, HeadIsInnermost DEF IInv
        <3>4. p.at # "created" \/ p.on # k
            BY <1>1, <2>1, <3>1, <3>3 DEF IInv, CreateInv, CreatePlaces
        <3>5. QED BY <2>2, <3>1, <3>2, <3>3, <3>4 DEF IsAt
    <2>5. QED BY <1>1, <2>1, <2>2, <2>3, <2>4 DEF IInv, ReachInv, SomeDepth, IsAt
<1>2. QED BY <1>1, Invariance, PTL

=============================================================================
