----------------------- MODULE ChunkDistribution_proofs ------------------------
(***************************************************************************)
(* Lemmas about the chunks that workers are dealt, for any number of workers *)
(* and chunks: they are registered chunks, and as many as are registered.    *)
(***************************************************************************)
EXTENDS ChunkDistribution, Functions, Integers, TLAPS

LEMMA ShareBounds ==
    ASSUME NEW S, NEW s \in Seq(S)
    PROVE  /\ Len(s) \in Nat /\ Share(s) \in Nat
           /\ WorkerCount * Share(s) \in Nat
           /\ WorkerCount * Share(s) <= Len(s)
           /\ Share(s) <= Len(s)
           /\ WorkerCount = 1 => Share(s) = Len(s)
<1> DEFINE h == Share(s)
<1>1. /\ Len(s) \in Nat /\ h \in Nat
      /\ WorkerCount * h <= Len(s)
    BY WorkerCountAssumption DEF Share
<1>2. h <= WorkerCount * h /\ WorkerCount * h \in Nat
    BY <1>1, WorkerCountAssumption
<1>3. WorkerCount = 1 => Share(s) = Len(s)
    BY <1>1 DEF Share
<1> HIDE DEF h
<1>4. h <= Len(s)
    BY <1>1, <1>2, WorkerCountAssumption
<1>5. QED BY <1>1, <1>2, <1>3, <1>4 DEF h

LEMMA SubSeqIsIn ==
    ASSUME NEW S, NEW s \in Seq(S), NEW m \in Nat \ {0}, NEW n \in Nat, m - 1 <= n, n <= Len(s)
    PROVE  /\ SubSeq(s, m, n) \in Seq(S)
           /\ Len(SubSeq(s, m, n)) = n - m + 1
           /\ Range(SubSeq(s, m, n)) \subseteq Range(s)
<1>1. /\ Len(SubSeq(s, m, n)) = n - m + 1
      /\ \A i \in 1..(n - m + 1) : SubSeq(s, m, n)[i] = s[m + i - 1]
      /\ DOMAIN SubSeq(s, m, n) = 1..(n - m + 1)
      /\ DOMAIN s = 1..Len(s) /\ Len(s) \in Nat
    OBVIOUS
<1>2. \A i \in 1..(n - m + 1) : m + i - 1 \in DOMAIN s
    BY <1>1
<1>3. \A i \in DOMAIN s : s[i] \in S
    OBVIOUS
<1>4. SubSeq(s, m, n) \in Seq(S)
    BY <1>1, <1>2, <1>3
<1>5. QED BY <1>1, <1>2, <1>4 DEF Range

LEMMA ConcatenationIsIn ==
    ASSUME NEW S, NEW s \in Seq(S), NEW t \in Seq(S)
    PROVE  /\ s \o t \in Seq(S)
           /\ Len(s \o t) = Len(s) + Len(t)
           /\ Range(s \o t) \subseteq Range(s) \union Range(t)
<1>1. /\ Len(s) \in Nat /\ Len(t) \in Nat
      /\ DOMAIN s = 1..Len(s) /\ DOMAIN t = 1..Len(t)
      /\ s \o t \in Seq(S)
    OBVIOUS
<1>2. /\ Len(s \o t) = Len(s) + Len(t)
      /\ DOMAIN (s \o t) = 1..(Len(s) + Len(t))
    OBVIOUS
<1>3. ASSUME NEW i \in 1..(Len(s) + Len(t)) PROVE (s \o t)[i] \in Range(s) \union Range(t)
    <2>1. CASE i <= Len(s)
        <3>1. i \in DOMAIN s /\ (s \o t)[i] = s[i] BY <1>1, <2>1
        <3>2. QED BY <3>1 DEF Range
    <2>2. CASE ~(i <= Len(s))
        <3>1. i - Len(s) \in DOMAIN t /\ (s \o t)[i] = t[i - Len(s)] BY <1>1, <2>2
        <3>2. QED BY <3>1 DEF Range
    <2>3. QED BY <2>1, <2>2
<1>4. QED BY <1>1, <1>2, <1>3 DEF Range

LEMMA DealIsIn ==
    ASSUME NEW S, NEW s \in Seq(S), NEW w \in Workers
    PROVE  /\ Deal(s, w) \in Seq(S)
           /\ Range(Deal(s, w)) \subseteq Range(s)
           /\ w # WorkerCount => Len(Deal(s, w)) = Share(s)
           /\ w = WorkerCount => Len(Deal(s, w)) = Share(s) + (Len(s) - WorkerCount * Share(s))
<1> DEFINE h == Share(s)
           first == SubSeq(s, 1, h)
           rest == SubSeq(s, WorkerCount * h + 1, Len(s))
<1>1. /\ Len(s) \in Nat /\ h \in Nat /\ WorkerCount * h \in Nat
      /\ WorkerCount * h <= Len(s) /\ h <= Len(s)
    BY ShareBounds
<1> HIDE DEF h
<1>2. first \in Seq(S) /\ Len(first) = h /\ Range(first) \subseteq Range(s)
    BY <1>1, SubSeqIsIn
<1>3. rest \in Seq(S) /\ Len(rest) = Len(s) - WorkerCount * h /\ Range(rest) \subseteq Range(s)
    <2> DEFINE m == WorkerCount * h + 1
    <2>1. m \in Nat \ {0} /\ m - 1 <= Len(s) /\ Len(s) - m + 1 = Len(s) - WorkerCount * h
        BY <1>1
    <2> HIDE DEF m
    <2>2. /\ SubSeq(s, m, Len(s)) \in Seq(S)
          /\ Len(SubSeq(s, m, Len(s))) = Len(s) - m + 1
          /\ Range(SubSeq(s, m, Len(s))) \subseteq Range(s)
        BY <2>1, <1>1, SubSeqIsIn
    <2>3. QED BY <2>1, <2>2 DEF m
<1> HIDE DEF first, rest
<1>4. /\ first \o rest \in Seq(S)
      /\ Len(first \o rest) = Len(first) + Len(rest)
      /\ Range(first \o rest) \subseteq Range(first) \union Range(rest)
    BY <1>2, <1>3, ConcatenationIsIn
<1>5. CASE w = WorkerCount
    BY <1>1, <1>2, <1>3, <1>4, <1>5 DEF Deal, Remainder, first, rest, h
<1>6. CASE w # WorkerCount
    BY <1>2, <1>6 DEF Deal, first, h
<1>7. QED BY <1>5, <1>6

\* The number of chunks that are dealt to the workers before w.
Dealt(s, w) == IF w \in Workers THEN (w - 1) * Share(s) ELSE Len(s)

LEMMA DealtNext ==
    ASSUME NEW S, NEW s \in Seq(S), NEW w \in Workers
    PROVE  /\ Dealt(s, 1) = 0 /\ Dealt(s, w) \in Nat
           /\ Dealt(s, w + 1) = Dealt(s, w) + Len(Deal(s, w))
           /\ Dealt(s, WorkerCount + 1) = Len(s)
<1> DEFINE h == Share(s)
<1> USE WorkerCountAssumption
<1>1. /\ Len(s) \in Nat /\ h \in Nat /\ WorkerCount * h \in Nat
    BY ShareBounds
<1>2. /\ w # WorkerCount => Len(Deal(s, w)) = h
      /\ w = WorkerCount => Len(Deal(s, w)) = h + (Len(s) - WorkerCount * h)
    BY DealIsIn
<1> HIDE DEF h
<1>3. w \in Nat \ {0} /\ (w - 1) * h \in Nat /\ w * h \in Nat /\ w * h = (w - 1) * h + h
    BY <1>1 DEF Workers
<1>4. /\ w + 1 \in Workers <=> w # WorkerCount
      /\ WorkerCount + 1 \notin Workers
      /\ 1 \in Workers
    BY DEF Workers
<1>5. Dealt(s, w) = (w - 1) * h
    BY DEF Dealt, h
<1>6. ASSUME w = WorkerCount PROVE Dealt(s, w + 1) = Dealt(s, w) + Len(Deal(s, w))
    BY <1>1, <1>2, <1>3, <1>4, <1>5, <1>6 DEF Dealt
<1>7. ASSUME w # WorkerCount PROVE Dealt(s, w + 1) = Dealt(s, w) + Len(Deal(s, w))
    <2>1. Dealt(s, w + 1) = w * h
        <3> DEFINE v == w + 1
        <3>1. v \in Workers /\ v - 1 = w BY <1>3, <1>4, <1>7
        <3> HIDE DEF v
        <3>2. Dealt(s, v) = w * h BY <3>1 DEF Dealt, h
        <3>3. QED BY <3>2 DEF v
    <2>2. QED BY <1>1, <1>2, <1>3, <1>5, <1>7, <2>1
<1>8. Dealt(s, 1) = 0 /\ Dealt(s, WorkerCount + 1) = Len(s)
    BY <1>1, <1>4 DEF Dealt, h
<1>9. QED BY <1>3, <1>5, <1>6, <1>7, <1>8

=============================================================================
